----------------------------- MODULE DedupProofs -----------------------------
(***************************************************************************)
(* Proofs about Dedup, for any sets of tasks, keys, gates and replies, any *)
(* TTL and any eviction budget.                                            *)
(***************************************************************************)
EXTENDS Dedup, TLAPS

\* What an insertion leaves in the cache is well typed.
LEMMA InsertType ==
    ASSUME TypeOK, NEW k \in Keys, NEW r \in Replies, Insert(k, r)
    PROVE  /\ entries' \in [Keys -> Entry \cup {None}]
           /\ expirations' \in SUBSET [deadline : Nat, key : Keys]
<1>1. PICK E \in Evictable(ShardOf[k]) :
        LET kept == [j \in Keys |-> IF \E x \in E : x.key = j
                                    THEN None ELSE entries[j]]
            previous == IF kept[k] = None THEN {} ELSE {Indexed(k)}
            fresh == [deadline |-> now + TTL, key |-> k]
        IN /\ entries' = [kept EXCEPT ![k] = [reply |-> r, expires_at |-> now + TTL]]
           /\ expirations' = ((expirations \ E) \ previous) \cup {fresh}
  BY DEF Insert
<1>2. now + TTL \in Nat
  BY DedupAssumption DEF TypeOK
<1>3. [reply |-> r, expires_at |-> now + TTL] \in Entry
  BY <1>2 DEF Entry
<1>4. [deadline |-> now + TTL, key |-> k] \in [deadline : Nat, key : Keys]
  BY <1>2
<1> QED
  BY <1>1, <1>3, <1>4 DEF TypeOK

\* Forgetting an entry leaves the cache well typed.
LEMMA ForgetType ==
    ASSUME TypeOK, NEW k \in Keys, Forget(k)
    PROVE  /\ entries' \in [Keys -> Entry \cup {None}]
           /\ expirations' \in SUBSET [deadline : Nat, key : Keys]
BY DEF Forget, TypeOK

\* Either lookup keeps the types and moves the task's pc to one of its two
\* continuations.
LEMMA LookupType ==
    ASSUME TypeOK, NEW t \in Tasks, key[t] \in Keys,
           NEW hit \in PC, NEW miss \in PC, LookupThen(t, hit, miss)
    PROVE  /\ entries' \in [Keys -> Entry \cup {None}]
           /\ expirations' \in SUBSET [deadline : Nat, key : Keys]
           /\ \/ /\ pc' = [pc EXCEPT ![t] = hit]
                 /\ \E r \in Replies : reply' = [reply EXCEPT ![t] = r]
              \/ /\ pc' = [pc EXCEPT ![t] = miss]
                 /\ UNCHANGED reply
<1>1. CASE Live(key[t])
  <2>1. entries[key[t]].reply \in Replies
    BY <1>1 DEF Live, TypeOK, Entry
  <2> QED
    BY <1>1, <2>1 DEF LookupThen, TypeOK, replyVars
<1>2. CASE ~Live(key[t])
  BY <1>2, ForgetType DEF LookupThen, TypeOK
<1> QED
  BY <1>1, <1>2

\* A step of one task keeps the types.
LEMMA TaskStepType ==
    ASSUME TypeOK, NEW t \in Tasks, TaskStep(t) \/ Acquire(t) \/ Cancel(t)
    PROVE  TypeOK'
<1> USE DedupAssumption DEF TypeOK, PC, ArcPC, replyVars, gateVars, taskVars
<1>1. CASE Lookup(t)
  <2>1. key[t] \in Keys /\ LookupThen(t, "send", "reserve")
    BY <1>1 DEF Lookup
  <2>2. UNCHANGED <<key, gate, in_flight, holder, now>> /\ pc[t] = "lookup"
    BY <1>1 DEF Lookup
  <2>3. "send" \in PC /\ "reserve" \in PC
    OBVIOUS
  <2>4. /\ entries' \in [Keys -> Entry \cup {None}]
        /\ expirations' \in SUBSET [deadline : Nat, key : Keys]
        /\ \/ /\ pc' = [pc EXCEPT ![t] = "send"]
              /\ \E r \in Replies : reply' = [reply EXCEPT ![t] = r]
           \/ /\ pc' = [pc EXCEPT ![t] = "reserve"]
              /\ UNCHANGED reply
    BY ONLY TypeOK, t \in Tasks, <2>1, <2>3, LookupType
  <2> QED
    BY <2>2, <2>4
<1>2. CASE Reserve(t)
  BY <1>2 DEF Reserve
<1>3. CASE Recheck(t)
  <2>1. key[t] \in Keys /\ LookupThen(t, "release", "handling")
    BY <1>3 DEF Recheck
  <2>2. UNCHANGED <<key, gate, in_flight, holder, now>> /\ pc[t] = "recheck"
    BY <1>3 DEF Recheck
  <2>3. "release" \in PC /\ "handling" \in PC
    OBVIOUS
  <2>4. /\ entries' \in [Keys -> Entry \cup {None}]
        /\ expirations' \in SUBSET [deadline : Nat, key : Keys]
        /\ \/ /\ pc' = [pc EXCEPT ![t] = "release"]
              /\ \E r \in Replies : reply' = [reply EXCEPT ![t] = r]
           \/ /\ pc' = [pc EXCEPT ![t] = "handling"]
              /\ UNCHANGED reply
    BY ONLY TypeOK, t \in Tasks, <2>1, <2>3, LookupType
  <2> QED
    BY <2>2, <2>4
<1>4. ASSUME NEW r \in Replies, Reply(t, r) PROVE TypeOK'
  <2>1. key[t] \in Keys
    BY <1>4 DEF Reply
  <2> QED
    BY <1>4, <2>1, InsertType DEF Reply
<1>5. CASE Decline(t)
  BY <1>5 DEF Decline
<1>6. CASE Unlock(t)
  BY <1>6 DEF Unlock
<1>7. CASE DropArc(t)
  BY <1>7 DEF DropArc, Resume
<1>8. CASE Cleanup(t)
  BY <1>8 DEF Cleanup, Resume
<1>9. CASE Send(t)
  BY <1>9 DEF Send
<1>10. CASE Acquire(t)
  BY <1>10 DEF Acquire
<1>11. CASE Cancel(t)
  BY <1>11 DEF Cancel
<1> QED
  BY <1>1, <1>2, <1>3, <1>4, <1>5, <1>6, <1>7, <1>8, <1>9, <1>10, <1>11
  DEF TaskStep

\* Every state of the packet tasks and the cache is well typed; a task names
\* a gate exactly while lock_request's reservation is not yet destroyed.
THEOREM TypeCorrect == Spec => []TypeOK
<1>1. Init => TypeOK
  BY DEF Init, TypeOK, PC, ArcPC
<1>2. TypeOK /\ [Next]_vars => TypeOK'
  <2> SUFFICES ASSUME TypeOK, [Next]_vars PROVE TypeOK'
    OBVIOUS
  <2>1. ASSUME NEW t \in Tasks, NEW k \in Keys, Arrive(t, k) PROVE TypeOK'
    <3>1. k # None /\ k \in Keys \cup {None}
      BY DedupAssumption
    <3>2. /\ pc[t] = "idle" /\ pc' = [pc EXCEPT ![t] = "lookup"]
          /\ key' = [key EXCEPT ![t] = k]
          /\ UNCHANGED <<gate, reply, in_flight, holder, entries, expirations, now>>
      BY <2>1 DEF Arrive, gateVars, replyVars
    <3> QED
      BY <3>1, <3>2 DEF TypeOK, PC, ArcPC
  <2>2. ASSUME NEW t \in Tasks, TaskStep(t) \/ Acquire(t) \/ Cancel(t) PROVE TypeOK'
    BY <2>2, TaskStepType
  <2>3. CASE Tick
    BY <2>3 DEF Tick, TypeOK, taskVars, gateVars, replyVars
  <2>4. CASE UNCHANGED vars
    BY <2>4 DEF vars, TypeOK, taskVars, gateVars, replyVars
  <2> QED
    BY <2>1, <2>2, <2>3, <2>4 DEF Next
<1> QED
  BY <1>1, <1>2, PTL DEF Spec

-----------------------------------------------------------------------------
(* Gates.  GateInv is inductive relative to TypeOK.  Its first conjunct is *)
(* the heart: whoever owns a strong reference owns it to the gate that the *)
(* map names, because a new gate is registered only when Weak::upgrade     *)
(* failed, and RequestCleanup removes only its own gate.                   *)

\* A step of one task keeps GateInv.
LEMMA TaskStepGates ==
    ASSUME TypeOK, TypeOK', GateInv, NEW t \in Tasks,
           TaskStep(t) \/ Acquire(t) \/ Cancel(t)
    PROVE  GateInv'
<1> USE DedupAssumption DEF TypeOK, GateInv, Strong, ArcPC, LockPC, gateVars
<1>1. CASE Lookup(t)
  BY <1>1 DEF Lookup, LookupThen
<1>2. CASE Reserve(t)
  <2>1. CASE /\ in_flight[key[t]] # None
             /\ Strong(in_flight[key[t]])
             /\ gate' = [gate EXCEPT ![t] = in_flight[key[t]]]
             /\ UNCHANGED in_flight
    BY <1>2, <2>1 DEF Reserve
  <2>2. ASSUME in_flight[key[t]] # None => ~Strong(in_flight[key[t]]),
               NEW g \in Gates, Unallocated(g),
               gate' = [gate EXCEPT ![t] = g],
               in_flight' = [in_flight EXCEPT ![key[t]] = g]
        PROVE  GateInv'
    <3>1. \A u \in Tasks : pc[u] \in ArcPC => key[u] # key[t]
      BY <1>2, <2>2 DEF Reserve
    <3> QED
      BY <1>2, <2>2, <3>1 DEF Reserve, Unallocated
  <2> QED
    BY <1>2, <2>1, <2>2 DEF Reserve
<1>3. CASE Recheck(t)
  BY <1>3 DEF Recheck, LookupThen
<1>4. ASSUME NEW r \in Replies, Reply(t, r) PROVE GateInv'
  BY <1>4 DEF Reply
<1>5. CASE Decline(t)
  BY <1>5 DEF Decline
<1>6. CASE Unlock(t)
  BY <1>6 DEF Unlock
<1>7. CASE DropArc(t)
  BY <1>7 DEF DropArc, Resume
<1>8. CASE Cleanup(t)
  BY <1>8 DEF Cleanup, Resume
<1>9. CASE Send(t)
  BY <1>9 DEF Send
<1>10. CASE Acquire(t)
  BY <1>10 DEF Acquire
<1>11. CASE Cancel(t)
  BY <1>11 DEF Cancel
<1> QED
  BY <1>1, <1>2, <1>3, <1>4, <1>5, <1>6, <1>7, <1>8, <1>9, <1>10, <1>11
  DEF TaskStep

\* In every state a strong reference is to the registered gate of its key and
\* the gate's lock belongs to the task running under it (GateInv).
THEOREM GatesCorrect == Spec => []GateInv
<1>1. Init => GateInv
  BY DEF Init, GateInv, ArcPC, LockPC
<1>2. TypeOK /\ TypeOK' /\ GateInv /\ [Next]_vars => GateInv'
  <2> SUFFICES ASSUME TypeOK, TypeOK', GateInv, [Next]_vars PROVE GateInv'
    OBVIOUS
  <2>1. ASSUME NEW t \in Tasks, NEW k \in Keys, Arrive(t, k) PROVE GateInv'
    BY <2>1 DEF Arrive, TypeOK, GateInv, Strong, ArcPC, LockPC, gateVars
  <2>2. ASSUME NEW t \in Tasks, TaskStep(t) \/ Acquire(t) \/ Cancel(t) PROVE GateInv'
    BY <2>2, TaskStepGates
  <2>3. CASE Tick
    BY <2>3 DEF Tick, GateInv, Strong, taskVars, gateVars
  <2>4. CASE UNCHANGED vars
    BY <2>4 DEF vars, GateInv, Strong, taskVars, gateVars
  <2> QED
    BY <2>1, <2>2, <2>3, <2>4 DEF Next
<1> QED
  BY <1>1, <1>2, TypeCorrect, PTL DEF Spec

\* The lock of the one registered gate excludes.
LEMMA GatesExclude == TypeOK /\ GateInv => HandlerExclusion
BY DEF TypeOK, GateInv, HandlerExclusion, ArcPC, LockPC

\* A key's handler never runs twice in parallel (dispatch_validated).
THEOREM Exclusion == Spec => []HandlerExclusion
BY TypeCorrect, GatesCorrect, GatesExclude, PTL

\* A step of one task leaves no gate registered that nobody refers to.
LEMMA TaskStepNoLeak ==
    ASSUME TypeOK, TypeOK', GateInv, NoGateLeak, NEW t \in Tasks,
           TaskStep(t) \/ Acquire(t) \/ Cancel(t)
    PROVE  NoGateLeak'
<1> USE DedupAssumption DEF TypeOK, NoGateLeak, ArcPC, gateVars
<1>1. CASE Lookup(t)
  BY <1>1 DEF Lookup, LookupThen
<1>2. CASE Reserve(t)
  BY <1>2 DEF Reserve, Unallocated
<1>3. CASE Recheck(t)
  BY <1>3 DEF Recheck, LookupThen
<1>4. ASSUME NEW r \in Replies, Reply(t, r) PROVE NoGateLeak'
  BY <1>4 DEF Reply
<1>5. CASE Decline(t)
  BY <1>5 DEF Decline
<1>6. CASE Unlock(t)
  BY <1>6 DEF Unlock
<1>7. CASE DropArc(t)
  BY <1>7 DEF DropArc, Resume, GateInv
<1>8. CASE Cleanup(t)
  BY <1>8 DEF Cleanup, Resume, GateInv
<1>9. CASE Send(t)
  BY <1>9 DEF Send
<1>10. CASE Acquire(t)
  BY <1>10 DEF Acquire
<1>11. CASE Cancel(t)
  BY <1>11 DEF Cancel
<1> QED
  BY <1>1, <1>2, <1>3, <1>4, <1>5, <1>6, <1>7, <1>8, <1>9, <1>10, <1>11
  DEF TaskStep

\* The in-flight map holds no gate that no task refers to: it is empty
\* whenever no packet is being processed, after cancellations too.
THEOREM NoLeak == Spec => []NoGateLeak
<1>1. Init => NoGateLeak
  BY DEF Init, NoGateLeak
<1>2. TypeOK /\ TypeOK' /\ GateInv /\ NoGateLeak /\ [Next]_vars => NoGateLeak'
  <2> SUFFICES ASSUME TypeOK, TypeOK', GateInv, NoGateLeak, [Next]_vars
               PROVE  NoGateLeak'
    OBVIOUS
  <2>1. ASSUME NEW t \in Tasks, NEW k \in Keys, Arrive(t, k) PROVE NoGateLeak'
    BY <2>1, DedupAssumption DEF Arrive, TypeOK, NoGateLeak, ArcPC, gateVars
  <2>2. ASSUME NEW t \in Tasks, TaskStep(t) \/ Acquire(t) \/ Cancel(t)
        PROVE  NoGateLeak'
    BY <2>2, TaskStepNoLeak
  <2>3. CASE Tick
    BY <2>3 DEF Tick, NoGateLeak, taskVars, gateVars
  <2>4. CASE UNCHANGED vars
    BY <2>4 DEF vars, NoGateLeak, taskVars, gateVars
  <2> QED
    BY <2>1, <2>2, <2>3, <2>4 DEF Next
<1> QED
  BY <1>1, <1>2, TypeCorrect, GatesCorrect, PTL DEF Spec

-----------------------------------------------------------------------------
(* The reply cache.                                                        *)

\* With an exact index, an insertion stores the reply, keeps every other
\* entry that has not expired, and keeps the index exact.
LEMMA InsertEffect ==
    ASSUME TypeOK, IndexExact, NEW k \in Keys, NEW r \in Replies, Insert(k, r)
    PROVE  /\ entries'[k] = [reply |-> r, expires_at |-> now + TTL]
           /\ \A j \in Keys \ {k} : entries'[j] \in {entries[j], None}
           /\ \A j \in Keys \ {k} : Live(j) => entries'[j] = entries[j]
           /\ IndexExact'
<1> DEFINE kept(E) == [j \in Keys |-> IF \E x \in E : x.key = j
                                     THEN None ELSE entries[j]]
           previous(E) == IF kept(E)[k] = None THEN {} ELSE {Indexed(k)}
           fresh == [deadline |-> now + TTL, key |-> k]
           stored == [reply |-> r, expires_at |-> now + TTL]
<1>1. PICK E \in Evictable(ShardOf[k]) :
           /\ entries' = [kept(E) EXCEPT ![k] = stored]
           /\ expirations' = ((expirations \ E) \ previous(E)) \cup {fresh}
  BY DEF Insert
<1>2. /\ E \subseteq expirations
      /\ \A x \in E : x.deadline <= now
  BY <1>1 DEF Evictable, Due
<1>3. \A x \in expirations : /\ x.key \in Keys /\ entries[x.key] # None
                             /\ x = Indexed(x.key)
  BY DEF IndexExact, Indexed
<1>4. \A j \in Keys : (\E x \in E : x.key = j) => ~Live(j)
  <2> SUFFICES ASSUME NEW j \in Keys, NEW x \in E, x.key = j PROVE ~Live(j)
    OBVIOUS
  <2>1. entries[j] \in Entry /\ entries[j].expires_at = x.deadline /\ x.deadline <= now
    BY <1>2, <1>3 DEF Indexed, TypeOK
  <2> QED
    BY <2>1 DEF Live, Entry, TypeOK
<1>5. stored # None
  BY DedupAssumption, now + TTL \in Nat DEF TypeOK, Entry
<1>6. IndexExact'
  <2>1. entries'[k] = stored /\ Indexed(k)' = fresh
    BY <1>1 DEF TypeOK, Indexed
  <2>2. \A j \in Keys \ {k} : entries'[j] = kept(E)[j]
    BY <1>1 DEF TypeOK
  <2>3. ASSUME NEW x \in expirations'
        PROVE  \E j \in Keys : entries'[j] # None /\ x = Indexed(j)'
    <3>1. CASE x = fresh
      BY <3>1, <2>1, <1>5
    <3>2. CASE x # fresh
      <4>1. x \in expirations /\ x \notin E /\ x \notin previous(E)
        BY <1>1, <3>2
      <4>2. x.key \in Keys /\ entries[x.key] # None /\ x = Indexed(x.key)
        BY <4>1, <1>3
      <4>3. ~\E y \in E : y.key = x.key
        BY <4>1, <4>2, <1>2, <1>3
      <4>4. x.key # k
        BY <4>1, <4>2, <4>3
      <4> QED
        BY <4>2, <4>3, <4>4, <2>2 DEF Indexed
    <3> QED
      BY <3>1, <3>2
  <2>4. ASSUME NEW j \in Keys, entries'[j] # None
        PROVE  Indexed(j)' \in expirations'
    <3>1. CASE j = k
      BY <3>1, <2>1, <1>1
    <3>2. CASE j # k
      <4>1. entries'[j] = entries[j] /\ ~\E x \in E : x.key = j
        BY <3>2, <2>2, <2>4
      <4>2. Indexed(j) \in expirations /\ Indexed(j)' = Indexed(j) /\ Indexed(j).key = j
        BY <4>1, <2>4 DEF IndexExact, Indexed
      <4>3. Indexed(j) \notin E /\ Indexed(j) \notin previous(E)
        BY <4>1, <4>2, <3>2 DEF Indexed
      <4> QED
        BY <4>2, <4>3, <1>1
    <3> QED
      BY <3>1, <3>2
  <2> QED
    BY <2>3, <2>4 DEF IndexExact
<1>7. \A j \in Keys \ {k} : /\ entries'[j] \in {entries[j], None}
                            /\ Live(j) => entries'[j] = entries[j]
  BY <1>1, <1>4 DEF TypeOK
<1> QED
  BY <1>1, <1>6, <1>7 DEF TypeOK

\* Forgetting an entry that is not live keeps the index exact and every live
\* entry.
LEMMA ForgetEffect ==
    ASSUME TypeOK, IndexExact, NEW k \in Keys, Forget(k), ~Live(k)
    PROVE  /\ IndexExact'
           /\ entries'[k] = None
           /\ \A j \in Keys \ {k} : entries'[j] = entries[j]
<1>1. entries' = [entries EXCEPT ![k] = None]
  BY DEF Forget
<1>2. expirations' = expirations \ {Indexed(k)}
  <2>1. CASE entries[k] # None
    BY <2>1 DEF Forget
  <2>2. CASE entries[k] = None
    BY <2>2 DEF Forget, IndexExact, Indexed
  <2> QED
    BY <2>1, <2>2
<1>3. IndexExact'
  BY <1>1, <1>2 DEF IndexExact, Indexed, TypeOK
<1> QED
  BY <1>1, <1>3 DEF TypeOK

CacheInv == IndexExact /\ NoRerunWhileCached

\* What a step can do to the cache: nothing, forget an entry that is not live,
\* or insert the reply of the task that is handling the key.
LEMMA CacheSteps ==
    ASSUME TypeOK, NEW t \in Tasks, TaskStep(t) \/ Acquire(t) \/ Cancel(t)
    PROVE  \/ /\ UNCHANGED replyVars
              /\ \A u \in Tasks : pc'[u] = "handling" => pc[u] = "handling"
           \/ /\ key[t] \in Keys /\ Forget(key[t]) /\ ~Live(key[t])
              /\ \A u \in Tasks \ {t} : pc'[u] = "handling" => pc[u] = "handling"
              /\ key'[t] = key[t]
           \/ /\ key[t] \in Keys /\ pc[t] = "handling"
              /\ \E r \in Replies : Insert(key[t], r)
              /\ \A u \in Tasks : pc'[u] = "handling" => pc[u] = "handling" /\ u # t
<1> USE DEF TypeOK, replyVars, gateVars
<1>1. CASE Lookup(t) \/ Recheck(t)
  BY <1>1 DEF Lookup, Recheck, LookupThen
<1>2. CASE Reserve(t) \/ Decline(t) \/ Unlock(t) \/ Send(t)
  BY <1>2 DEF Reserve, Decline, Unlock, Send
<1>3. CASE DropArc(t) \/ Cleanup(t)
  BY <1>3 DEF DropArc, Cleanup, Resume
<1>4. CASE Acquire(t) \/ Cancel(t)
  BY <1>4 DEF Acquire, Cancel
<1>5. ASSUME NEW r \in Replies, Reply(t, r)
      PROVE  /\ key[t] \in Keys /\ pc[t] = "handling"
             /\ \E q \in Replies : Insert(key[t], q)
             /\ \A u \in Tasks : pc'[u] = "handling" => pc[u] = "handling" /\ u # t
  BY <1>5 DEF Reply
<1> QED
  BY <1>1, <1>2, <1>3, <1>4, <1>5 DEF TaskStep

\* No step of a task moves the clock or changes the key of a task in the
\* handler.
LEMMA HandlingKeepsKey ==
    ASSUME TypeOK, NEW t \in Tasks, TaskStep(t) \/ Acquire(t) \/ Cancel(t)
    PROVE  now' = now /\ \A u \in Tasks : pc'[u] = "handling" => key'[u] = key[u]
<1> USE DEF TypeOK, gateVars
<1>1. CASE Lookup(t) \/ Recheck(t) \/ Reserve(t) \/ Decline(t) \/ Unlock(t) \/ Send(t)
  BY <1>1 DEF Lookup, Recheck, Reserve, Decline, Unlock, Send
<1>2. CASE DropArc(t) \/ Cleanup(t)
  BY <1>2 DEF DropArc, Cleanup, Resume
<1>3. CASE Acquire(t) \/ Cancel(t)
  BY <1>3 DEF Acquire, Cancel
<1>4. CASE \E r \in Replies : Reply(t, r)
  BY <1>4 DEF Reply
<1> QED
  BY <1>1, <1>2, <1>3, <1>4 DEF TaskStep

\* A step of one task keeps CacheInv and loses no live reply.
LEMMA TaskStepCache ==
    ASSUME TypeOK, TypeOK', GateInv, CacheInv, NEW t \in Tasks,
           TaskStep(t) \/ Acquire(t) \/ Cancel(t)
    PROVE  CacheInv' /\ KeepsReply
<1> USE DEF CacheInv
<1>1. now' = now /\ \A u \in Tasks : pc'[u] = "handling" => key'[u] = key[u]
  BY HandlingKeepsKey
<1>2. CASE /\ UNCHANGED replyVars
           /\ \A u \in Tasks : pc'[u] = "handling" => pc[u] = "handling"
  BY <1>1, <1>2 DEF IndexExact, Indexed, NoRerunWhileCached, KeepsReply, Live, replyVars
<1>3. CASE /\ key[t] \in Keys /\ Forget(key[t]) /\ ~Live(key[t])
           /\ \A u \in Tasks \ {t} : pc'[u] = "handling" => pc[u] = "handling"
           /\ key'[t] = key[t]
  <2>1. /\ IndexExact'
        /\ entries'[key[t]] = None
        /\ \A j \in Keys \ {key[t]} : entries'[j] = entries[j]
    BY <1>3, ForgetEffect
  <2>2. \A j \in Keys : Live(j)' => Live(j)
    BY <1>1, <2>1 DEF Live
  <2>3. NoRerunWhileCached'
    <3> SUFFICES ASSUME NEW u \in Tasks, pc'[u] = "handling" PROVE ~Live(key[u])'
      BY DEF NoRerunWhileCached
    <3>1. key'[u] = key[u] /\ key[u] \in Keys
      BY <1>1 DEF TypeOK
    <3>2. ~Live(key[u])
      BY <1>3, <3>1 DEF NoRerunWhileCached
    <3> QED
      BY <3>1, <3>2, <2>2 DEF Live
  <2>4. KeepsReply
    BY <1>3, <2>1 DEF KeepsReply
  <2> QED
    BY <2>1, <2>3, <2>4
<1>4. CASE /\ key[t] \in Keys /\ pc[t] = "handling"
           /\ \E r \in Replies : Insert(key[t], r)
           /\ \A u \in Tasks : pc'[u] = "handling" => pc[u] = "handling" /\ u # t
  <2>1. PICK r \in Replies : Insert(key[t], r)
    BY <1>4
  <2>2. /\ \A j \in Keys \ {key[t]} : entries'[j] \in {entries[j], None}
        /\ \A j \in Keys \ {key[t]} : Live(j) => entries'[j] = entries[j]
        /\ IndexExact'
    BY <1>4, <2>1, InsertEffect
  <2>3. NoRerunWhileCached'
    <3> SUFFICES ASSUME NEW u \in Tasks, pc'[u] = "handling" PROVE ~Live(key[u])'
      BY DEF NoRerunWhileCached
    <3>1. key'[u] = key[u] /\ key[u] \in Keys /\ pc[u] = "handling" /\ u # t
      BY <1>1, <1>4 DEF TypeOK
    <3>2. key[u] # key[t]
      BY <3>1, <1>4, GatesExclude DEF HandlerExclusion
    <3>3. ~Live(key[u])
      BY <3>1 DEF NoRerunWhileCached
    <3> QED
      BY <3>1, <3>2, <3>3, <2>2, <1>1 DEF Live
  <2>4. KeepsReply
    BY <1>4, <2>2 DEF KeepsReply, NoRerunWhileCached
  <2> QED
    BY <2>2, <2>3, <2>4
<1> QED
  BY <1>2, <1>3, <1>4, CacheSteps

\* A step of the whole system keeps CacheInv and loses no live reply.
LEMMA StepCache ==
    ASSUME TypeOK, TypeOK', GateInv, CacheInv, [Next]_vars
    PROVE  CacheInv' /\ KeepsReply
<1>1. ASSUME NEW t \in Tasks, NEW k \in Keys, Arrive(t, k) PROVE CacheInv' /\ KeepsReply
  BY <1>1 DEF Arrive, CacheInv, IndexExact, Indexed, NoRerunWhileCached, KeepsReply,
              Live, replyVars, TypeOK
<1>2. ASSUME NEW t \in Tasks, TaskStep(t) \/ Acquire(t) \/ Cancel(t)
      PROVE  CacheInv' /\ KeepsReply
  BY <1>2, TaskStepCache
<1>3. CASE Tick
  <2>1. UNCHANGED <<entries, expirations, pc, key>> /\ now' = now + 1
    BY <1>3 DEF Tick, replyVars, taskVars
  <2>2. \A j \in Keys : Live(j)' => Live(j)
    <3> SUFFICES ASSUME NEW j \in Keys, Live(j)' PROVE Live(j)
      OBVIOUS
    <3>1. entries[j] \in Entry /\ entries[j].expires_at > now + 1
      BY <2>1 DEF Live, TypeOK
    <3> QED
      BY <3>1, DedupAssumption DEF Live, Entry, TypeOK
  <2> QED
    BY <2>1, <2>2 DEF CacheInv, IndexExact, Indexed, NoRerunWhileCached, KeepsReply, TypeOK
<1>4. CASE UNCHANGED vars
  BY <1>4 DEF vars, CacheInv, IndexExact, Indexed, NoRerunWhileCached, KeepsReply,
              Live, replyVars, taskVars
<1> QED
  BY <1>1, <1>2, <1>3, <1>4 DEF Next

\* The deadline index is exact, and the handler never runs for a key that has
\* an unexpired cached reply.
THEOREM CacheCorrect == Spec => [](IndexExact /\ NoRerunWhileCached)
<1>1. Init => CacheInv
  BY DEF Init, CacheInv, IndexExact, NoRerunWhileCached
<1>2. TypeOK /\ TypeOK' /\ GateInv /\ CacheInv /\ [Next]_vars => CacheInv'
  BY StepCache
<1>3. Spec => []CacheInv
  BY <1>1, <1>2, TypeCorrect, GatesCorrect, PTL DEF Spec
<1> QED
  BY <1>3, PTL DEF CacheInv

\* No step loses or changes a cached reply before its time: what a duplicate
\* is answered with is the first reply, for the whole TTL.
THEOREM ReplyKept == Spec => LiveReplyKept
<1>1. TypeOK /\ TypeOK' /\ GateInv /\ CacheInv /\ [Next]_vars => [KeepsReply]_vars
  BY StepCache
<1>2. Spec => []CacheInv
  BY CacheCorrect DEF CacheInv
<1> QED
  BY <1>1, <1>2, TypeCorrect, GatesCorrect, PTL DEF Spec, LiveReplyKept

-----------------------------------------------------------------------------
(* Dedup implements ReplyOnce.                                             *)

\* A step that touches neither the tasks in the handler, nor the live
\* entries, nor the replies, nor the clock is invisible to ReplyOnce.
LEMMA Invisible ==
    ASSUME UNCHANGED <<reply, now>>,
           \A u \in Tasks : /\ (pc'[u] = "handling") <=> (pc[u] = "handling")
                            /\ pc[u] = "handling" => key'[u] = key[u],
           \A j \in Keys : /\ Live(j)' <=> Live(j)
                           /\ Live(j) => entries'[j] = entries[j]
    PROVE  UNCHANGED Once!vars
<1>1. Serving' = Serving
  BY DEF Serving
<1>2. Unexpired' = Unexpired
  BY DEF Unexpired
<1> QED
  BY <1>1, <1>2 DEF Once!vars

\* The steps on the reservation are invisible.
LEMMA ReservationInvisible ==
    ASSUME TypeOK, NEW t \in Tasks,
           Reserve(t) \/ Acquire(t) \/ Unlock(t) \/ DropArc(t) \/ Cleanup(t)
    PROVE  UNCHANGED Once!vars
<1> USE DEF TypeOK, gateVars, replyVars, Live
<1>1. CASE Reserve(t)
  BY <1>1, Invisible DEF Reserve
<1>2. CASE Acquire(t)
  BY <1>2, Invisible DEF Acquire
<1>3. CASE Unlock(t)
  BY <1>3, Invisible DEF Unlock
<1>4. CASE DropArc(t)
  BY <1>4, Invisible DEF DropArc, Resume
<1>5. CASE Cleanup(t)
  BY <1>5, Invisible DEF Cleanup, Resume
<1> QED
  BY <1>1, <1>2, <1>3, <1>4, <1>5

\* A lookup that hits is a replay.  One that misses is invisible the first
\* time; under the gate it admits the task, and the gate's lock is why nobody
\* else is being served.
LEMMA LookupRefines ==
    ASSUME TypeOK, GateInv, CacheInv, NEW t \in Tasks, Lookup(t) \/ Recheck(t)
    PROVE  Once!Next \/ UNCHANGED Once!vars
<1> DEFINE k == key[t]
<1>1. /\ k \in Keys /\ k # None /\ reply[t] = None /\ pc[t] # "handling"
      /\ UNCHANGED <<key, now>>
  BY DEF Lookup, Recheck, TypeOK
<1>2. CASE Live(k)
  <2>1. /\ reply' = [reply EXCEPT ![t] = entries[k].reply]
        /\ UNCHANGED <<entries, now, key>>
        /\ pc' \in {[pc EXCEPT ![t] = "send"], [pc EXCEPT ![t] = "release"]}
    BY <1>1, <1>2 DEF Lookup, Recheck, LookupThen, replyVars
  <2>2. Serving' = Serving /\ \A j \in Keys : t \notin Serving[j]
    BY <1>1, <2>1 DEF Serving, TypeOK
  <2>3. Unexpired' = Unexpired /\ Unexpired[k] = entries[k] /\ entries[k] # None
    BY <1>1, <1>2, <2>1 DEF Unexpired, Live
  <2>4. Once!Replay(t, k)
    BY <1>1, <2>1, <2>2, <2>3 DEF Once!Replay, Once!Busy
  <2> QED
    BY <1>1, <2>4 DEF Once!Next
<1>3. CASE ~Live(k)
  <2>1. Forget(k) /\ UNCHANGED reply
    BY <1>3 DEF Lookup, Recheck, LookupThen
  <2>2. \A j \in Keys : /\ Live(j)' <=> Live(j)
                        /\ Live(j) => entries'[j] = entries[j]
    BY <1>1, <1>3, <2>1, ForgetEffect DEF CacheInv, Live
  <2>3. CASE Lookup(t)
    <3>1. pc' = [pc EXCEPT ![t] = "reserve"]
      BY <1>3, <2>3 DEF Lookup, LookupThen
    <3> QED
      BY <1>1, <2>1, <2>2, <3>1, Invisible DEF TypeOK
  <2>4. CASE Recheck(t)
    <3>1. pc[t] = "recheck" /\ pc' = [pc EXCEPT ![t] = "handling"]
      BY <1>3, <2>4 DEF Recheck, LookupThen
    <3>2. \A u \in Tasks : ~(pc[u] = "handling" /\ key[u] = k)
      BY <1>1, <3>1 DEF GateInv, ArcPC, LockPC, TypeOK
    <3>3. /\ Serving[k] = {} /\ \A j \in Keys : t \notin Serving[j]
          /\ Serving' = [Serving EXCEPT ![k] = {t}]
      <4>1. Serving[k] = {} /\ \A j \in Keys : t \notin Serving[j]
        BY <1>1, <3>1, <3>2 DEF Serving
      <4>2. Serving'[k] = {t}
        BY <1>1, <3>1, <3>2 DEF Serving, TypeOK
      <4>3. \A j \in Keys \ {k} : Serving'[j] = Serving[j]
        BY <1>1, <3>1 DEF Serving, TypeOK
      <4> QED
        BY <1>1, <4>1, <4>2, <4>3 DEF Serving
    <3>4. Unexpired' = Unexpired /\ Unexpired[k] = None
      BY <1>1, <1>3, <2>2 DEF Unexpired
    <3>5. Once!Admit(t, k)
      BY <1>1, <2>1, <3>3, <3>4 DEF Once!Admit, Once!Busy
    <3> QED
      BY <1>1, <3>5 DEF Once!Next
  <2> QED
    BY <2>3, <2>4
<1> QED
  BY <1>2, <1>3

\* A task in the handler is the only one being served for its key.
LEMMA ServedAlone ==
    ASSUME TypeOK, GateInv, NEW t \in Tasks, pc[t] = "handling"
    PROVE  key[t] \in Keys /\ Serving[key[t]] = {t}
<1>1. key[t] \in Keys
  BY DEF TypeOK
<1>2. HandlerExclusion
  BY GatesExclude
<1> QED
  BY <1>1, <1>2 DEF HandlerExclusion, Serving

\* When that task leaves the handler, nobody is served for its key.
LEMMA ServiceEnds ==
    ASSUME TypeOK, NEW t \in Tasks, key[t] \in Keys, Serving[key[t]] = {t},
           pc' = [pc EXCEPT ![t] = "release"], UNCHANGED key
    PROVE  Serving' = [Serving EXCEPT ![key[t]] = {}]
<1>1. \A u \in Tasks : pc'[u] = IF u = t THEN "release" ELSE pc[u]
  BY DEF TypeOK
<1>2. \A u \in Tasks \ {t} : ~(pc[u] = "handling" /\ key[u] = key[t])
  BY DEF Serving
<1>3. Serving'[key[t]] = {}
  BY <1>1, <1>2 DEF Serving
<1>4. t \in Serving[key[t]]
  OBVIOUS
<1>5. \A j \in Keys \ {key[t]} : Serving'[j] = Serving[j]
  BY <1>1 DEF Serving
<1> QED
  BY <1>3, <1>5 DEF Serving

\* A reply is the answer to the request being served.
LEMMA ReplyRefines ==
    ASSUME TypeOK, GateInv, CacheInv, NEW t \in Tasks, NEW r \in Replies, Reply(t, r)
    PROVE  Once!Next
<1> DEFINE k == key[t]
           stored == [reply |-> r, expires_at |-> now + TTL]
<1>1. /\ k \in Keys /\ Serving[k] = {t}
      /\ pc[t] = "handling" /\ pc' = [pc EXCEPT ![t] = "release"]
      /\ reply' = [reply EXCEPT ![t] = r]
      /\ UNCHANGED <<key, now>> /\ Insert(k, r)
  BY ServedAlone DEF Reply
<1>2. /\ entries'[k] = stored
      /\ \A j \in Keys \ {k} : entries'[j] \in {entries[j], None}
      /\ \A j \in Keys \ {k} : Live(j) => entries'[j] = entries[j]
  BY <1>1, InsertEffect DEF CacheInv
<1>3. Serving' = [Serving EXCEPT ![k] = {}]
  BY <1>1, ServiceEnds
<1>4. stored # None
  BY DedupAssumption, now + TTL \in Nat DEF TypeOK, Entry
<1>5. \A j \in Keys \ {k} : Unexpired'[j] = Unexpired[j]
  BY <1>1, <1>2 DEF Unexpired, Live
<1>6. Unexpired'[k] = Once!Remember(stored, now)
  BY <1>1, <1>2, <1>4 DEF Unexpired, Live, Once!Remember
<1>7. Unexpired' = [Unexpired EXCEPT ![k] = Once!Remember(stored, now)]
  BY <1>1, <1>5, <1>6 DEF Unexpired
<1>8. Once!Answer(t, k, r)
  BY <1>1, <1>3, <1>7 DEF Once!Answer
<1> QED
  BY <1>1, <1>8 DEF Once!Next

\* A request declined or cancelled in the handler is abandoned; cancelling a
\* waiter is invisible.
LEMMA AbandonRefines ==
    ASSUME TypeOK, GateInv, NEW t \in Tasks, Decline(t) \/ Cancel(t)
    PROVE  Once!Next \/ UNCHANGED Once!vars
<1>1. UNCHANGED <<key, reply, entries, now>>
  BY DEF Decline, Cancel, replyVars
<1>2. Unexpired' = Unexpired
  BY <1>1 DEF Unexpired, Live
<1>3. CASE pc[t] = "handling"
  <2>1. pc' = [pc EXCEPT ![t] = "release"]
    BY <1>3 DEF Decline, Cancel
  <2>2. key[t] \in Keys /\ Serving[key[t]] = {t}
    BY <1>3, ServedAlone
  <2>3. Serving' = [Serving EXCEPT ![key[t]] = {}]
    BY <1>1, <1>3, <2>1, <2>2, ServiceEnds
  <2>4. Once!Abandon(t, key[t])
    BY <1>1, <1>2, <2>2, <2>3 DEF Once!Abandon
  <2> QED
    BY <2>2, <2>4 DEF Once!Next
<1>4. CASE pc[t] # "handling"
  <2>1. pc[t] = "queued" /\ pc' = [pc EXCEPT ![t] = "unlocked"]
    BY <1>4 DEF Decline, Cancel
  <2>2. Serving' = Serving
    BY <1>1, <2>1 DEF Serving, TypeOK
  <2> QED
    BY <1>1, <1>2, <2>2 DEF Once!vars
<1> QED
  BY <1>3, <1>4

\* Time passing: an answer is forgotten when its deadline is reached.
LEMMA TickRefines ==
    ASSUME TypeOK, Tick
    PROVE  Once!Next
<1>1. now < MaxTime /\ now' = now + 1 /\ UNCHANGED <<pc, key, reply, entries>>
  BY DEF Tick, taskVars, replyVars
<1>2. Serving' = Serving
  BY <1>1 DEF Serving
<1>3. ASSUME NEW j \in Keys PROVE Unexpired'[j] = Once!Remember(Unexpired[j], now + 1)
  <2>1. CASE entries[j] = None
    BY <1>1, <2>1 DEF Unexpired, Live, Once!Remember
  <2>2. CASE entries[j] # None
    <3>1. entries[j].expires_at \in Nat /\ now \in Nat
      BY <2>2 DEF TypeOK, Entry
    <3> QED
      BY <1>1, <2>2, <3>1 DEF Unexpired, Live, Once!Remember
  <2> QED
    BY <2>1, <2>2
<1>4. Once!Tick
  BY <1>1, <1>2, <1>3 DEF Once!Tick, Unexpired
<1> QED
  BY <1>4 DEF Once!Next

\* The packet tasks, their gates and the lazily evicted cache implement the
\* abstract once-only responder.
THEOREM Refinement == Spec => ImplementsReplyOnce
<1>1. Init => Once!Init
  BY DEF Init, Once!Init, Serving, Unexpired, Live
<1>2. TypeOK /\ GateInv /\ CacheInv /\ [Next]_vars => [Once!Next]_(Once!vars)
  <2> SUFFICES ASSUME TypeOK, GateInv, CacheInv, [Next]_vars
               PROVE  Once!Next \/ UNCHANGED Once!vars
    OBVIOUS
  <2>1. ASSUME NEW t \in Tasks, NEW k \in Keys, Arrive(t, k)
        PROVE  UNCHANGED Once!vars
    BY <2>1, Invisible DEF Arrive, TypeOK, replyVars, Live
  <2>2. ASSUME NEW t \in Tasks, Lookup(t) \/ Recheck(t)
        PROVE  Once!Next \/ UNCHANGED Once!vars
    BY <2>2, LookupRefines
  <2>3. ASSUME NEW t \in Tasks,
               Reserve(t) \/ Acquire(t) \/ Unlock(t) \/ DropArc(t) \/ Cleanup(t)
        PROVE  UNCHANGED Once!vars
    BY <2>3, ReservationInvisible
  <2>4. ASSUME NEW t \in Tasks, NEW r \in Replies, Reply(t, r) PROVE Once!Next
    BY <2>4, ReplyRefines
  <2>5. ASSUME NEW t \in Tasks, Decline(t) \/ Cancel(t)
        PROVE  Once!Next \/ UNCHANGED Once!vars
    BY <2>5, AbandonRefines
  <2>6. ASSUME NEW t \in Tasks, Send(t) PROVE Once!Next
    <3>1. /\ reply[t] # None /\ reply' = [reply EXCEPT ![t] = None]
          /\ pc[t] = "send" /\ pc' = [pc EXCEPT ![t] = "idle"]
          /\ key' = [key EXCEPT ![t] = None]
          /\ UNCHANGED <<entries, now>>
      BY <2>6 DEF Send, TypeOK, replyVars
    <3>2. Serving' = Serving /\ Unexpired' = Unexpired
      BY <3>1 DEF Serving, Unexpired, Live, TypeOK
    <3> QED
      BY <3>1, <3>2 DEF Once!Next, Once!Emit
  <2>7. CASE Tick
    BY <2>7, TickRefines
  <2>8. CASE UNCHANGED vars
    BY <2>8, Invisible DEF vars, taskVars, replyVars, Live
  <2> QED
    BY <2>1, <2>2, <2>3, <2>4, <2>5, <2>6, <2>7, <2>8 DEF Next, TaskStep
<1>3. Spec => []CacheInv
  BY CacheCorrect DEF CacheInv
<1> QED
  BY <1>1, <1>2, <1>3, TypeCorrect, GatesCorrect, PTL
  DEF Spec, ImplementsReplyOnce, Once!Spec
=============================================================================
