------------------------------ MODULE Dispatch -------------------------------
(***************************************************************************)
(* What is behind the pipeline: the CodeRouter (server/router.rs), the     *)
(* Request a handler sees (server/handler.rs) with its Acct-Status-Type    *)
(* (server/accounting.rs), and the MockRequest that tests hand to handlers *)
(* in place of a live one.  A router is built, then requests reach it      *)
(* through the pipeline or from a test.                                    *)
(*                                                                         *)
(* An attribute is a status with its value, a status of another length, an *)
(* attribute of another type, or a malformed one, which ends the walk.     *)
(***************************************************************************)
EXTENDS Pipeline, Integers, Sequences

CONSTANTS None, Handlers,
          LivePackets, LiveClients, LivePolicies,  \* what reaches the pipeline
          LiveAttributes,     \* their attribute lists
          Values,             \* values of an Acct-Status-Type
          Ids, MaxSets, MaxCalls   \* bounds of the instance

VARIABLES slots,    \* of the builder, then of the router
          sets,     \* ghost: the builder's calls, <<slot, handler>>
          phase,    \* "config", then "serve" or "test"
          mock,     \* the test's MockRequest
          asked,    \* ghost: what the test asked for
          input,    \* of the last live packet
          request,  \* the last request that was routed
          handler,  \* the sub-handler that got it
          result    \* HandlerResult, or what the pipeline did instead

vars == <<slots, sets, phase, mock, asked, input, request, handler, result>>

Slots == ServerCodes \cup {"fallback"}
Drop == [tag |-> "Drop"]
Reply(id) == [tag |-> "Reply", identifier |-> id]

\* MockRequest::new
NewMock == [code |-> "ACCESS_REQUEST", identifier |-> 0, attributes |-> <<>>]

Init == /\ slots = [s \in Slots |-> None] /\ sets = <<>> /\ phase = "config"
        /\ mock = NewMock /\ asked = NewMock
        /\ input = None /\ request = None /\ handler = None /\ result = None
-----------------------------------------------------------------------------
(* CodeRouterBuilder *)

\* The slot that the setter named for s writes.
SlotSet(s) == s

SetSlot(s, h) ==
    /\ phase = "config" /\ Len(sets) < MaxSets
    /\ slots' = [slots EXCEPT ![SlotSet(s)] = h]
    /\ sets' = Append(sets, <<s, h>>)
    /\ UNCHANGED <<phase, mock, asked, input, request, handler, result>>

BuildRouter ==
    /\ phase = "config" /\ phase' \in {"serve", "test"}
    /\ UNCHANGED <<slots, sets, mock, asked, input, request, handler, result>>

\* CodeRouter::route
Route(code) ==
    IF code \in ServerCodes /\ slots[code] # None THEN slots[code] ELSE slots["fallback"]

\* CodeRouter::handle, and a sub-handler that replies or drops.
Handle(r, answers) ==
    /\ request' = r
    /\ handler' = Route(r.code)
    /\ result' = IF Route(r.code) # None /\ answers THEN Reply(r.identifier) ELSE Drop
-----------------------------------------------------------------------------
(* A live packet, and a test *)

\* One packet; one that validates, is of the listener's role and is no probe becomes
\* a Request.
Live(p, id, attrs, c, role, policy, answers) ==
    /\ phase = "serve" /\ input = None
    /\ input' = [packet |-> p, client |-> c, role |-> role, policy |-> policy]
    /\ IF Validate(p, c) = "Ok" /\ Accepts(role, p.code) /\ Dispatched(p, c, policy) = "Handler"
       THEN Handle([code |-> p.code, identifier |-> id, attributes |-> attrs], answers)
       ELSE request' = None /\ handler' = None /\ result' = None
    /\ UNCHANGED <<slots, sets, phase, mock, asked>>

\* The overrides of MockRequest.
MockSet(code, id) ==
    /\ phase = "test" /\ Len(asked.attributes) < MaxCalls
    /\ mock' = [mock EXCEPT !.code = code, !.identifier = id]
    /\ asked' = [asked EXCEPT !.code = code, !.identifier = id]
    /\ request' = None /\ handler' = None /\ result' = None
    /\ UNCHANGED <<slots, sets, phase, input>>

\* One of its add calls: the encoder takes the attribute or refuses it.
MockAdd(attr, fits) ==
    /\ phase = "test" /\ Len(asked.attributes) < MaxCalls
    /\ mock' = IF fits THEN [mock EXCEPT !.attributes = Append(@, attr)] ELSE mock
    /\ asked' = IF fits THEN [asked EXCEPT !.attributes = Append(@, attr)] ELSE asked
    /\ request' = None /\ handler' = None /\ result' = None
    /\ UNCHANGED <<slots, sets, phase, input>>

\* MockRequest::build
MockBuild(m) == m

MockHandle(answers) ==
    /\ phase = "test"
    /\ Handle(MockBuild(mock), answers)
    /\ UNCHANGED <<slots, sets, phase, mock, asked, input>>
-----------------------------------------------------------------------------
(* Request::acct_status_type *)

NamedStatus == {1, 2, 3} \cup 7 .. 15

\* AcctStatusType::from_u32, to_u32
StatusFrom(v) == IF v \in NamedStatus THEN [kind |-> "named", value |-> v]
                 ELSE [kind |-> "Other", value |-> v]
StatusTo(s) == s.value

Relevant(attrs) == {i \in DOMAIN attrs : attrs[i].typ \in {"status", "short", "malformed"}}
FirstRelevant(attrs) ==
    CHOOSE i \in Relevant(attrs) : \A j \in Relevant(attrs) : i <= j

\* The walk ends at a malformed attribute or at the first status.
AcctStatusType(r) ==
    IF Relevant(r.attributes) = {} THEN None
    ELSE LET a == r.attributes[FirstRelevant(r.attributes)]
         IN IF a.typ = "status" THEN StatusFrom(a.value) ELSE None

Attributes == [typ : {"status"}, value : Values] \cup [typ : {"short", "other", "malformed"}]

\* What the instances are: lists of attributes, and no status that is None.
DispatchAssumption ==
    /\ LiveAttributes \subseteq Seq(Attributes)
    /\ None \notin [kind : {"named", "Other"}, value : Values]

Next == \/ \E s \in Slots, h \in Handlers : SetSlot(s, h)
        \/ BuildRouter
        \/ \E p \in LivePackets, id \in Ids, attrs \in LiveAttributes, c \in LiveClients, role \in Roles,
              policy \in LivePolicies, answers \in BOOLEAN : Live(p, id, attrs, c, role, policy, answers)
        \/ \E code \in PacketCodes, id \in Ids : MockSet(code, id)
        \/ \E attr \in Attributes, fits \in BOOLEAN : MockAdd(attr, fits)
        \/ \E answers \in BOOLEAN : MockHandle(answers)
Spec == Init /\ [][Next]_vars
-----------------------------------------------------------------------------
(* Properties.                                                             *)

\* The handler that the last builder call for a slot named, if any.
Wired(s) ==
    LET calls == {i \in DOMAIN sets : sets[i][1] = s}
    IN IF calls = {} THEN None
       ELSE sets[CHOOSE i \in calls : \A j \in calls : j <= i][2]

\* A request reaches the sub-handler that was wired for its code, or the
\* fallback when none was; without both it is dropped, and so is nothing else
\* that a sub-handler answers.  A reply carries the request's identifier.
RightHandler ==
    request # None =>
        /\ handler = IF request.code \in ServerCodes /\ Wired(request.code) # None
                     THEN Wired(request.code) ELSE Wired("fallback")
        /\ handler = None => result = Drop
        /\ result # Drop => result.identifier = request.identifier

\* What a handler reads as the status of an accounting request re-encodes to the
\* first status attribute of the request, which is then well formed and has
\* nothing malformed before it.
StatusIsFirst ==
    request # None /\ request.code = "ACCOUNTING_REQUEST" =>
        LET s == AcctStatusType(request)
            A == request.attributes
        IN s # None <=> \E i \in DOMAIN A :
                           /\ A[i].typ = "status"
                           /\ \A j \in 1 .. i - 1 : A[j].typ = "other"
                           /\ s # None => StatusTo(s) = A[i].value

\* A test's request is the one it asked for: what a handler does with it, it
\* does with a live one.
MockIsLive == (request # None /\ phase = "test") => request = asked

=============================================================================
