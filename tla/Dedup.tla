-------------------------------- MODULE Dedup --------------------------------
(***************************************************************************)
(* The request de-duplication and reply retransmit cache of a listener     *)
(* (server/dedup.rs) driven by the packet tasks that use it                *)
(* (server/pipeline.rs, dispatch_validated, and the send that follows it   *)
(* in the transports).                                                     *)
(*                                                                         *)
(* A task is one validated packet.  It looks its key up in the reply       *)
(* cache, reserves the key's gate (an Arc<tokio::sync::Mutex>, of which    *)
(* the shard keeps only a Weak), looks the key up again under the gate,    *)
(* and only then runs the handler or the Status-Server responder.  Every   *)
(* region that the code runs under one std Mutex is one action; the        *)
(* moments between two such regions, where another worker thread can run,  *)
(* are the values of pc.                                                   *)
(*                                                                         *)
(* tokio's Mutex queues its waiters first come, first served; the model    *)
(* lets any waiter take a free gate, which allows more behaviours, and     *)
(* recovers the queue's fairness as strong fairness of Acquire.            *)
(***************************************************************************)
EXTENDS Naturals, FiniteSets

CONSTANTS
    Tasks,       \* slots for concurrently running packet tasks
    Keys,        \* four-tuples (source, code, identifier, authenticator)
    Shards,      \* indices of the cache's shards (16 in the code)
    ShardOf,     \* DedupCache::shard_for
    Gates,       \* addresses an Arc<RequestGate> can be allocated at
    Replies,     \* sealed reply packets a handler may produce
    TTL,         \* lifetime of a cached reply
    EvictBudget, \* index entries one insertion may evict (64 in the code)
    MaxTime,     \* bound: the clock stops here
    None         \* absence of a value

Entry == [reply : Replies, expires_at : Nat]

ASSUME DedupAssumption ==
    /\ ShardOf \in [Keys -> Shards]
    /\ TTL \in Nat
    /\ EvictBudget \in Nat
    /\ MaxTime \in Nat
    /\ None \notin Tasks \cup Keys \cup Gates \cup Replies
    /\ None \notin Entry

VARIABLES
    pc,          \* where each task is in dispatch_validated
    key,         \* the key of the packet a task is processing
    gate,        \* the gate a task refers to
    reply,       \* the bytes a task will send
    in_flight,   \* per key, the gate whose Weak the shard's map holds
    holder,      \* per gate, the task holding its tokio Mutex
    entries,     \* per key, the cached reply and its deadline
    expirations, \* the deadline index of entries
    now          \* the monotonic clock

taskVars  == <<pc, key, gate, reply>>
gateVars  == <<in_flight, holder>>
replyVars == <<entries, expirations>>
vars == <<taskVars, gateVars, replyVars, now>>

\* A task owns a strong reference to its gate in these places ...
ArcPC == {"queued", "recheck", "handling", "release", "unlocked"}
\* ... and the gate's lock in these.
LockPC == {"recheck", "handling", "release"}
PC == ArcPC \cup {"idle", "lookup", "reserve", "cleanup", "send"}

\* Types; a task names a gate exactly between lock_request and the end of the
\* gate's drop, a key exactly while it processes a packet, and bytes to send
\* only once dispatch_validated has decided on them.
TypeOK ==
    /\ pc \in [Tasks -> PC]
    /\ key \in [Tasks -> Keys \cup {None}]
    /\ gate \in [Tasks -> Gates \cup {None}]
    /\ reply \in [Tasks -> Replies \cup {None}]
    /\ in_flight \in [Keys -> Gates \cup {None}]
    /\ holder \in [Gates -> Tasks \cup {None}]
    /\ entries \in [Keys -> Entry \cup {None}]
    /\ expirations \in SUBSET [deadline : Nat, key : Keys]
    /\ now \in Nat
    /\ \A t \in Tasks :
          /\ (gate[t] # None) <=> (pc[t] \in ArcPC \cup {"cleanup"})
          /\ (key[t] # None) <=> (pc[t] # "idle")
          /\ pc[t] = "send" => reply[t] # None
          /\ reply[t] # None => pc[t] \in {"release", "unlocked", "cleanup", "send"}

Init ==
    /\ pc = [t \in Tasks |-> "idle"]
    /\ key = [t \in Tasks |-> None]
    /\ gate = [t \in Tasks |-> None]
    /\ reply = [t \in Tasks |-> None]
    /\ in_flight = [k \in Keys |-> None]
    /\ holder = [g \in Gates |-> None]
    /\ entries = [k \in Keys |-> None]
    /\ expirations = {}
    /\ now = 0

-----------------------------------------------------------------------------
(* The reply cache.                                                        *)

Live(k) == entries[k] # None /\ entries[k].expires_at > now

Indexed(k) == [deadline |-> entries[k].expires_at, key |-> k]

\* lookup forgets the entry and its place in the index when it has expired.
ForgetKeepsIndex(k) ==
    /\ entries' = [entries EXCEPT ![k] = None]
    /\ UNCHANGED expirations

Forget(k) ==
    /\ entries' = [entries EXCEPT ![k] = None]
    /\ expirations' = IF entries[k] = None THEN expirations
                                           ELSE expirations \ {Indexed(k)}

\* DedupCache::lookup for the packet of task t, continuing at hit or miss.
LookupThen(t, hit, miss) ==
    IF Live(key[t])
    THEN /\ reply' = [reply EXCEPT ![t] = entries[key[t]].reply]
         /\ pc' = [pc EXCEPT ![t] = hit]
         /\ UNCHANGED replyVars
    ELSE /\ pc' = [pc EXCEPT ![t] = miss]
         /\ Forget(key[t])
         /\ UNCHANGED reply

\* ReplyShard::evict_expired pops up to EvictBudget index entries whose
\* deadline has passed, earliest first.
Due(s) == {x \in expirations : ShardOf[x.key] = s /\ x.deadline <= now}

Evictable(s) ==
    {E \in SUBSET Due(s) :
        /\ Cardinality(E) = IF Cardinality(Due(s)) < EvictBudget
                            THEN Cardinality(Due(s)) ELSE EvictBudget
        /\ \A x \in E, y \in Due(s) \ E : x.deadline <= y.deadline}

\* DedupCache::insert: evict, store, and move the key in the index.
Insert(k, r) ==
    \E E \in Evictable(ShardOf[k]) :
        LET kept == [j \in Keys |-> IF \E x \in E : x.key = j
                                    THEN None ELSE entries[j]]
            previous == IF kept[k] = None THEN {} ELSE {Indexed(k)}
            fresh == [deadline |-> now + TTL, key |-> k]
        IN /\ entries' = [kept EXCEPT ![k] = [reply |-> r, expires_at |-> now + TTL]]
           /\ expirations' = ((expirations \ E) \ previous) \cup {fresh}

-----------------------------------------------------------------------------
(* The gates.                                                              *)

\* Weak::upgrade succeeds while some task owns a strong reference.
Strong(g) == \E u \in Tasks : gate[u] = g /\ pc[u] \in ArcPC

\* The allocator may reuse an address no strong or weak reference names.
Unallocated(g) ==
    /\ \A u \in Tasks : gate[u] # g
    /\ \A k \in Keys : in_flight[k] # g

\* lock_request, under the shard's lock: join the registered gate if it is
\* still alive, otherwise register a new one.
Reserve(t) ==
    /\ pc[t] = "reserve"
    /\ pc' = [pc EXCEPT ![t] = "queued"]
    /\ \/ /\ in_flight[key[t]] # None
          /\ Strong(in_flight[key[t]])
          /\ gate' = [gate EXCEPT ![t] = in_flight[key[t]]]
          /\ UNCHANGED in_flight
       \/ /\ in_flight[key[t]] # None => ~Strong(in_flight[key[t]])
          /\ \E g \in Gates :
                /\ Unallocated(g)
                /\ gate' = [gate EXCEPT ![t] = g]
                /\ in_flight' = [in_flight EXCEPT ![key[t]] = g]
    /\ UNCHANGED <<key, reply, holder, replyVars, now>>

\* gate.lock_owned().await completes.
Acquire(t) ==
    /\ pc[t] = "queued"
    /\ holder[gate[t]] = None
    /\ holder' = [holder EXCEPT ![gate[t]] = t]
    /\ pc' = [pc EXCEPT ![t] = "recheck"]
    /\ UNCHANGED <<key, gate, reply, in_flight, replyVars, now>>

\* Dropping the OwnedMutexGuard first unlocks the gate ...
Unlock(t) ==
    /\ pc[t] = "release"
    /\ holder' = [holder EXCEPT ![gate[t]] = None]
    /\ pc' = [pc EXCEPT ![t] = "unlocked"]
    /\ UNCHANGED <<key, gate, reply, in_flight, replyVars, now>>

\* What a task does once its reservation is gone: send its reply, or end.
Resume(t) ==
    /\ gate' = [gate EXCEPT ![t] = None]
    /\ IF reply[t] = None
       THEN /\ pc' = [pc EXCEPT ![t] = "idle"]
            /\ key' = [key EXCEPT ![t] = None]
       ELSE /\ pc' = [pc EXCEPT ![t] = "send"]
            /\ UNCHANGED key

\* ... then gives the strong reference back.  The last one to do so goes on
\* to destroy the gate, whose RequestCleanup runs after the count is zero.
DropArc(t) ==
    /\ pc[t] = "unlocked"
    /\ IF \E u \in Tasks \ {t} : gate[u] = gate[t] /\ pc[u] \in ArcPC
       THEN Resume(t)
       ELSE /\ pc' = [pc EXCEPT ![t] = "cleanup"]
            /\ UNCHANGED <<key, gate>>
    /\ UNCHANGED <<reply, gateVars, replyVars, now>>

\* RequestCleanup::drop, under the shard's lock: by now the key may have a
\* newer gate, so the map is touched only if it still names this one.
CleanupAnyGate(t) ==
    /\ pc[t] = "cleanup"
    /\ in_flight' = [in_flight EXCEPT ![key[t]] = None]
    /\ Resume(t)
    /\ UNCHANGED <<reply, holder, replyVars, now>>

CleanupNothing(t) ==
    /\ pc[t] = "cleanup"
    /\ Resume(t)
    /\ UNCHANGED <<reply, gateVars, replyVars, now>>

Cleanup(t) ==
    /\ pc[t] = "cleanup"
    /\ in_flight' = IF in_flight[key[t]] = gate[t]
                    THEN [in_flight EXCEPT ![key[t]] = None]
                    ELSE in_flight
    /\ Resume(t)
    /\ UNCHANGED <<reply, holder, replyVars, now>>

-----------------------------------------------------------------------------
(* dispatch_validated.                                                     *)

\* A transport hands a validated packet to a task of its own.
Arrive(t, k) ==
    /\ pc[t] = "idle"
    /\ pc' = [pc EXCEPT ![t] = "lookup"]
    /\ key' = [key EXCEPT ![t] = k]
    /\ UNCHANGED <<gate, reply, gateVars, replyVars, now>>

Lookup(t) ==
    /\ pc[t] = "lookup"
    /\ LookupThen(t, "send", "reserve")
    /\ UNCHANGED <<key, gate, gateVars, now>>

\* The second lookup, under the gate.
RecheckSkipped(t) ==
    /\ pc[t] = "recheck"
    /\ pc' = [pc EXCEPT ![t] = "handling"]
    /\ UNCHANGED <<key, gate, reply, gateVars, replyVars, now>>

Recheck(t) ==
    /\ pc[t] = "recheck"
    /\ LookupThen(t, "release", "handling")
    /\ UNCHANGED <<key, gate, gateVars, now>>

\* The handler, or for a Status-Server probe the built-in responder,
\* produced a reply: it is sealed and cached before the gate is released.
Reply(t, r) ==
    /\ pc[t] = "handling"
    /\ Insert(key[t], r)
    /\ reply' = [reply EXCEPT ![t] = r]
    /\ pc' = [pc EXCEPT ![t] = "release"]
    /\ UNCHANGED <<key, gate, gateVars, now>>

\* HandlerResult::Drop, or a probe that the client or the policy declines:
\* nothing is cached, so a waiting duplicate will ask again.
Decline(t) ==
    /\ pc[t] = "handling"
    /\ pc' = [pc EXCEPT ![t] = "release"]
    /\ UNCHANGED <<key, gate, reply, gateVars, replyVars, now>>

\* The transport sends the bytes; it ignores a send error, and a task aborted
\* while it sends ends the same way.
Send(t) ==
    /\ pc[t] = "send"
    /\ pc' = [pc EXCEPT ![t] = "idle"]
    /\ key' = [key EXCEPT ![t] = None]
    /\ reply' = [reply EXCEPT ![t] = None]
    /\ UNCHANGED <<gate, gateVars, replyVars, now>>

\* The task is aborted at an await, or its handler or a custom Status-Server
\* responder panics: its locals are dropped there.
CancelKeepsGate(t) ==
    /\ \/ pc[t] = "queued" /\ pc' = [pc EXCEPT ![t] = "unlocked"]
       \/ pc[t] = "handling" /\ pc' = [pc EXCEPT ![t] = "unlocked"]
    /\ UNCHANGED <<key, gate, reply, gateVars, replyVars, now>>

Cancel(t) ==
    /\ \/ pc[t] = "queued" /\ pc' = [pc EXCEPT ![t] = "unlocked"]
       \/ pc[t] = "handling" /\ pc' = [pc EXCEPT ![t] = "release"]
    /\ UNCHANGED <<key, gate, reply, gateVars, replyVars, now>>

Tick ==
    /\ now < MaxTime
    /\ now' = now + 1
    /\ UNCHANGED <<taskVars, gateVars, replyVars>>

TaskStep(t) ==
    \/ Lookup(t) \/ Reserve(t) \/ Recheck(t)
    \/ \E r \in Replies : Reply(t, r)
    \/ Decline(t)
    \/ Unlock(t) \/ DropArc(t) \/ Cleanup(t) \/ Send(t)

Next ==
    \/ \E t \in Tasks, k \in Keys : Arrive(t, k)
    \/ \E t \in Tasks : TaskStep(t) \/ Acquire(t) \/ Cancel(t)
    \/ Tick

Spec == Init /\ [][Next]_vars

(* A spawned task keeps being polled and handlers return; a waiter that    *)
(* finds its gate free again and again gets it, because the queue is fair. *)
FairSpec ==
    /\ Spec
    /\ \A t \in Tasks : WF_vars(TaskStep(t)) /\ SF_vars(Acquire(t))

-----------------------------------------------------------------------------
(* Properties.                                                             *)

\* At most one task at a time is past the gate for a key: a retransmission
\* that arrives while the handler runs (dispatch_validated awaits it) never
\* runs the handler a second time in parallel, whatever gates were dropped,
\* re-registered or cleaned up in between.
HandlerExclusion ==
    \A t, u \in Tasks :
        (pc[t] = "handling" /\ pc[u] = "handling" /\ key[t] = key[u]) => t = u

\* While the handler runs for a key, no unexpired reply for that key is in
\* the cache: the handler is never re-run for a request that could be
\* answered by replay (RFC 5080, cited at the head of dedup.rs).
NoRerunWhileCached ==
    \A t \in Tasks : pc[t] = "handling" => ~Live(key[t])

\* The deadline index lists exactly the cached entries, so that eviction
\* neither forgets an entry nor removes a younger one.
IndexExact ==
    expirations = {Indexed(k) : k \in {j \in Keys : entries[j] # None}}

\* How gates, holders and the in-flight map fit together: a strong reference
\* is always to the gate the map has for its key, a gate serves one key, the
\* lock is held by the task that runs under it, and a gate being destroyed has
\* no strong reference left.
GateInv ==
    /\ \A t \in Tasks : pc[t] \in ArcPC => in_flight[key[t]] = gate[t]
    /\ \A t \in Tasks, k \in Keys :
          (gate[t] # None /\ in_flight[k] = gate[t]) => k = key[t]
    /\ \A t, u \in Tasks : (gate[t] # None /\ gate[t] = gate[u]) => key[t] = key[u]
    /\ \A k, j \in Keys : (in_flight[k] # None /\ in_flight[k] = in_flight[j]) => k = j
    /\ \A t \in Tasks : pc[t] \in LockPC => holder[gate[t]] = t
    /\ \A t \in Tasks : pc[t] = "cleanup" => ~Strong(gate[t])

\* Every gate the in-flight map names is still referred to by some task: the
\* map does not grow with the requests the listener has seen, cancelled ones
\* included.
NoGateLeak ==
    \A k \in Keys : in_flight[k] # None =>
        \E t \in Tasks : gate[t] = in_flight[k] /\ key[t] = k

\* A step that leaves a cached reply unexpired leaves it in the cache,
\* unchanged: replays are byte for byte the first reply for its whole TTL.
KeepsReply ==
    \A k \in Keys :
        (Live(k) /\ entries[k].expires_at > now') => entries'[k] = entries[k]

LiveReplyKept == [][KeepsReply]_vars

\* Every packet handed to a task is eventually finished with: answered,
\* replayed or dropped.  Nobody waits for ever behind a gate.
EveryPacketEnds == \A t \in Tasks : pc[t] = "lookup" ~> pc[t] = "idle"
-----------------------------------------------------------------------------
(* What the cache promises: Dedup implements ReplyOnce.  A task is         *)
(* processing a request while it is in the handler, and an expired entry   *)
(* that has not been evicted yet is no answer.                             *)
Serving == [k \in Keys |-> {t \in Tasks : pc[t] = "handling" /\ key[t] = k}]

Unexpired == [k \in Keys |-> IF Live(k) THEN entries[k] ELSE None]

Once == INSTANCE ReplyOnce WITH serving <- Serving, answer <- Unexpired, out <- reply

\* Gates, weak references and lazy eviction are invisible from outside:
\* every behaviour of the packet tasks is a behaviour of ReplyOnce.
ImplementsReplyOnce == Once!Spec
=============================================================================
