------------------------------ MODULE ReplyOnce ------------------------------
(***************************************************************************)
(* What the de-duplication of a listener promises, without gates, weak     *)
(* references, deadline index or lazy eviction: per key, at most one       *)
(* request is being processed, and once it has been answered every         *)
(* duplicate is given that same answer until the answer's time is up.      *)
(***************************************************************************)
EXTENDS Naturals

CONSTANTS Tasks, Keys, Replies, TTL, MaxTime, None

VARIABLES
    serving, \* per key, the tasks that are processing a request (at most one)
    answer,  \* per key, the unexpired answer and its deadline
    out,     \* per task, the bytes it has been told to send
    now

vars == <<serving, answer, out, now>>

Init ==
    /\ serving = [k \in Keys |-> {}]
    /\ answer = [k \in Keys |-> None]
    /\ out = [t \in Tasks |-> None]
    /\ now = 0

Busy(t) == \E k \in Keys : t \in serving[k]

\* An answer is remembered for as long as it is unexpired at time n.
Remember(a, n) == IF a # None /\ a.expires_at > n THEN a ELSE None

Admit(t, k) ==
    /\ ~Busy(t) /\ out[t] = None
    /\ serving[k] = {}
    /\ answer[k] = None
    /\ serving' = [serving EXCEPT ![k] = {t}]
    /\ UNCHANGED <<answer, out, now>>

Answer(t, k, r) ==
    /\ serving[k] = {t}
    /\ serving' = [serving EXCEPT ![k] = {}]
    /\ answer' = [answer EXCEPT
                    ![k] = Remember([reply |-> r, expires_at |-> now + TTL], now)]
    /\ out' = [out EXCEPT ![t] = r]
    /\ UNCHANGED now

\* Dropped by the handler, or cancelled: the request was never answered.
Abandon(t, k) ==
    /\ serving[k] = {t}
    /\ serving' = [serving EXCEPT ![k] = {}]
    /\ UNCHANGED <<answer, out, now>>

Replay(t, k) ==
    /\ ~Busy(t) /\ out[t] = None
    /\ answer[k] # None
    /\ out' = [out EXCEPT ![t] = answer[k].reply]
    /\ UNCHANGED <<serving, answer, now>>

Emit(t) ==
    /\ out[t] # None
    /\ out' = [out EXCEPT ![t] = None]
    /\ UNCHANGED <<serving, answer, now>>

Tick ==
    /\ now < MaxTime
    /\ now' = now + 1
    /\ answer' = [k \in Keys |-> Remember(answer[k], now + 1)]
    /\ UNCHANGED <<serving, out>>

Next ==
    \/ \E t \in Tasks, k \in Keys :
        \/ Admit(t, k) \/ Abandon(t, k) \/ Replay(t, k)
        \/ \E r \in Replies : Answer(t, k, r)
    \/ \E t \in Tasks : Emit(t)
    \/ Tick

Spec == Init /\ [][Next]_vars
=============================================================================
