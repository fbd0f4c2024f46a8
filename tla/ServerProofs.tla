---------------------------- MODULE ServerProofs -----------------------------
(***************************************************************************)
(* Proofs about Server: the registry of connections is exact, revocation   *)
(* lets a connection finish one frame at most, UDP listeners drain, and    *)
(* run reports the errors of its listeners; about Dispatch, the router its *)
(* packet tasks hand requests to; and about PacketPath, the way of a       *)
(* packet to it.                                                           *)
(***************************************************************************)
EXTENDS Server, NaturalsInduction, WellFoundedInduction, TLAPS

\* What Dispatch has besides.
CONSTANTS Handlers, LivePackets, LiveClients, LivePolicies, LiveAttributes, Values, Ids,
          MaxSets, MaxCalls
VARIABLES slots, sets, phase, mock, asked, input, request, handler, result

Router == INSTANCE Dispatch

\* What PacketPath has besides.
CONSTANTS PathPackets, PathClients
VARIABLES datagram, peer, servedRole, servedPolicy, transport, stage, became

Path == INSTANCE PacketPath WITH
    Packets <- PathPackets, Clients <- PathClients, packet <- datagram, client <- peer,
    role <- servedRole, policy <- servedPolicy, outcome <- became

-----------------------------------------------------------------------------
(* The connections.                                                        *)

\* Only registered connections are signalled, and one that has finished a
\* frame since is not working on another.
SignalInv ==
    /\ \A c \in signalled : client[c] # None /\ conn[c] # "authorized"
    /\ \A c \in Conns : late[c] # 0 => (late[c] = 1 /\ c \in signalled /\ ~Busy(c))

ConnTypes ==
    /\ conn \in [Conns -> {"none", "handshake", "authorizing", "authorized",
                           "select", "processing", "writing", "closing"}]
    /\ client \in [Conns -> ClientIds \cup {None}]
    /\ registry \subseteq Conns /\ signalled \subseteq Conns
    /\ late \in [Conns -> Nat]
    /\ \A c \in Conns : /\ InLoop(c) \/ conn[c] = "authorized" => client[c] # None
                        /\ conn[c] \in {"none", "handshake", "authorizing"} => client[c] = None

ConnInv == ConnTypes /\ RegistryExact /\ SignalInv

\* The steps that touch connections.
ConnNext ==
    \/ \E l \in Listeners, c \in Conns : AdmitConnection(l, c)
    \/ \E c \in Conns : ConnStep(c) \/ ReadFrame(c) \/ ReadEnds(c) \/ Written(c)
    \/ \E id \in ClientIds : CloseFor(id)

LEMMA ConnInit == Init => ConnInv
BY ServerAssumption DEF Init, ConnInv, ConnTypes, RegistryExact, SignalInv, InLoop, Busy

\* Moving a connection within the life it is in.
LEMMA MovesKeeps ==
    ASSUME ConnInv, NEW c \in Conns, NEW to \in {"authorizing", "select", "processing", "writing", "closing"},
           Moves(c, to),
           to = "authorizing" => conn[c] = "handshake",
           to # "authorizing" => conn[c] # "authorized",
           to \in {"select", "processing", "writing"} => client[c] # None,
           to \in {"processing", "writing"} => (c \notin signalled \/ Busy(c))
    PROVE  ConnInv'
<1> USE DEF ConnInv, Moves
<1>1. ConnTypes' BY DEF ConnTypes, InLoop
<1>2. RegistryExact' BY DEF ConnTypes, RegistryExact
<1>3. SignalInv' BY DEF ConnTypes, SignalInv, Busy
<1>4. QED BY <1>1, <1>2, <1>3

LEMMA EndsKeeps ==
    ASSUME ConnInv, NEW c \in Conns, Ends(c)
    PROVE  ConnInv'
<1> USE DEF ConnInv, Ends
<1>1. ConnTypes' BY DEF ConnTypes, InLoop
<1>2. RegistryExact' BY DEF ConnTypes, RegistryExact
<1>3. SignalInv' BY DEF ConnTypes, SignalInv, Busy
<1>4. QED BY <1>1, <1>2, <1>3

LEMMA FinishesKeeps ==
    ASSUME ConnInv, NEW c \in Conns, Busy(c), Finishes(c, "select")
    PROVE  ConnInv'
<1> USE DEF ConnInv, Finishes, Busy
<1>1. ConnTypes' BY DEF ConnTypes, InLoop
<1>2. RegistryExact' BY DEF ConnTypes, RegistryExact
<1>3. SignalInv' BY DEF ConnTypes, SignalInv
<1>4. QED BY <1>1, <1>2, <1>3

LEMMA ConnNextKeeps ==
    ASSUME ConnInv, ConnNext
    PROVE  ConnInv'
<1>1. ASSUME NEW l \in Listeners, NEW c \in Conns, AdmitConnection(l, c)
      PROVE  ConnInv'
  <2> USE <1>1 DEF ConnInv, AdmitConnection
  <2>1. ConnTypes' BY DEF ConnTypes, InLoop
  <2>2. RegistryExact' BY DEF ConnTypes, RegistryExact
  <2>3. SignalInv' BY DEF ConnTypes, SignalInv, Busy
  <2>4. QED BY <2>1, <2>2, <2>3
<1>2. ASSUME NEW c \in Conns, Handshake(c)
      PROVE  ConnInv'
  BY <1>2, MovesKeeps, EndsKeeps DEF Handshake
<1>3. ASSUME NEW c \in Conns, NEW id \in ClientIds, Authorize(c, id)
      PROVE  ConnInv'
  <2>1. CASE id \in store
    <3> USE <1>3, <2>1, ServerAssumption DEF ConnInv, Authorize
    <3>1. ConnTypes' BY DEF ConnTypes, InLoop
    <3>2. RegistryExact' BY DEF ConnTypes, RegistryExact
    <3>3. SignalInv' BY DEF ConnTypes, SignalInv, Busy
    <3>4. QED BY <3>1, <3>2, <3>3
  <2>2. CASE id \notin store BY <1>3, <2>2, MovesKeeps DEF Authorize
  <2>3. QED BY <2>1, <2>2
<1>4. ASSUME NEW c \in Conns, Register(c)
      PROVE  ConnInv'
  <2> USE <1>4 DEF ConnInv, Register
  <2>1. ConnTypes' BY DEF ConnTypes, InLoop
  <2>2. RegistryExact' BY DEF ConnTypes, RegistryExact, SignalInv
  <2>3. SignalInv' BY DEF ConnTypes, SignalInv, Busy
  <2>4. QED BY <2>1, <2>2, <2>3
<1>5. ASSUME NEW c \in Conns,
             ObserveClose(c) \/ RefuseFrame(c) \/ ReadFrame(c) \/ ReadEnds(c)
      PROVE  ConnInv'
  BY <1>5, MovesKeeps
     DEF ObserveClose, RefuseFrame, ReadFrame, ReadEnds, ConnInv, ConnTypes, InLoop
<1>6. ASSUME NEW c \in Conns, Handled(c) \/ Written(c)
      PROVE  ConnInv'
  BY <1>6, MovesKeeps, FinishesKeeps
     DEF Handled, Written, ConnInv, ConnTypes, InLoop, Busy
<1>7. ASSUME NEW c \in Conns, HandlerPanics(c) \/ Close(c)
      PROVE  ConnInv'
  BY <1>7, EndsKeeps DEF HandlerPanics, Close
<1>8. ASSUME NEW id \in ClientIds, CloseFor(id)
      PROVE  ConnInv'
  <2> USE <1>8 DEF ConnInv, CloseFor
  <2>1. ConnTypes' BY DEF ConnTypes, InLoop
  <2>2. RegistryExact' BY DEF ConnTypes, RegistryExact
  <2>3. SignalInv' BY DEF ConnTypes, SignalInv, RegistryExact, Busy
  <2>4. QED BY <2>1, <2>2, <2>3
<1>9. QED
  BY <1>1, <1>2, <1>3, <1>4, <1>5, <1>6, <1>7, <1>8 DEF ConnNext, ConnStep

\* Every other step leaves the connections alone.
LEMMA ConnUnchanged ==
    ASSUME ConnInv, UNCHANGED connVars
    PROVE  ConnInv'
BY DEF ConnInv, ConnTypes, RegistryExact, SignalInv, connVars, InLoop, Busy

LEMMA NextSplits ==
    ASSUME [Next]_vars, ~ConnNext
    PROVE  UNCHANGED connVars
BY DEF Next, vars, ConnNext, ListenerStep, Bind, BindFails, RunDropped, Abort, Aborted, Return,
       Shutdown, Join, ObserveShutdown, Take, TakeFails, Reject, AdmitPacket,
       ListenerPanics, Drained, JobEnds, RemoveClient, connVars

LEMMA ConnAlways == Spec => []ConnInv
<1>1. ConnInv /\ [Next]_vars => ConnInv'
  BY ConnNextKeeps, ConnUnchanged, NextSplits
<1>2. QED BY <1>1, ConnInit, PTL DEF Spec

(* The registry of connections holds exactly the registered, unsignalled   *)
(* connections, for any number of them and any schedule of register, drop  *)
(* of the guard and close_for (server/radsec.rs).                          *)
THEOREM RegistryCorrect == Spec => []RegistryExact
<1>1. ConnInv => RegistryExact BY DEF ConnInv
<1>2. QED BY <1>1, ConnAlways, PTL

(* A connection that was signalled finishes at most one more frame.        *)
THEOREM LateFrames == Spec => []AtMostOneLateFrame
<1>1. ConnInv => AtMostOneLateFrame
  BY DEF ConnInv, ConnTypes, SignalInv, AtMostOneLateFrame
<1>2. QED BY <1>1, ConnAlways, PTL

-----------------------------------------------------------------------------
(* Server::run and the listeners.                                          *)

RunTypes ==
    /\ run \in {"binding", "joining", "returned"}
    /\ bound \in 0 .. Len(BindOrder)
    /\ run = "binding" => bound < Len(BindOrder)
    /\ first_err \in Listeners \cup {None, "bind", "dropped"}
    /\ shutdown \in BOOLEAN
    /\ listener \in [Listeners -> {"unbound", "serving", "admitting", "draining",
                                   "exited", "joined", "aborted"}]
    /\ failed \subseteq Listeners /\ panicked \subseteq failed
    /\ job \in [Jobs -> Udp \cup {None}]

\* A run that was not cut short has joined every listener, and an error is
\* remembered from the moment its listener is joined.
ReturnInv ==
    /\ (run = "returned" /\ ~CutShort) => \A l \in Listeners : listener[l] = "joined"
    /\ \A l \in failed : listener[l] = "joined" => first_err # None
    /\ \A l \in Listeners : listener[l] = "unbound" => l \notin failed

RunInv == RunTypes /\ UdpDrained /\ ErrorReported /\ ReturnInv

RunNext ==
    \/ Bind \/ BindFails \/ RunDropped \/ Return \/ Shutdown
    \/ \E l \in Listeners : Join(l) \/ Aborted(l) \/ ListenerStep(l) \/ Take(l) \/ TakeFails(l)
    \/ \E j \in Jobs : JobEnds(j)

\* The facts about the constants that the steps use.
LEMMA Constants ==
    /\ Len(BindOrder) \in Nat \ {0}
    /\ \A n \in 1 .. Len(BindOrder) : BindOrder[n] \in Listeners
    /\ None \notin Udp /\ Udp \subseteq Listeners /\ None # "bind" /\ None # "dropped"
    /\ None \notin Listeners /\ "bind" \notin Listeners /\ "dropped" \notin Listeners
<1> DEFINE S == Listeners
<1>1. BindOrder \in Seq(S) /\ BindOrder # <<>> BY ServerAssumption
<1> HIDE DEF S
<1>2. Len(BindOrder) \in Nat \ {0} /\ \A n \in 1 .. Len(BindOrder) : BindOrder[n] \in S
  BY <1>1
<1>3. QED BY <1>2, ServerAssumption DEF S

LEMMA RunInit == Init => RunInv
<1> SUFFICES ASSUME Init PROVE RunInv
  OBVIOUS
<1> USE Constants DEF Init
<1>1. RunTypes
  <2>1. bound \in 0 .. Len(BindOrder) /\ bound < Len(BindOrder) OBVIOUS
  <2>2. shutdown \in BOOLEAN BY Zenon
  <2>3. job \in [Jobs -> Udp \cup {None}] BY Zenon
  <2>4. failed \subseteq Listeners /\ first_err \in Listeners \cup {None, "bind", "dropped"}
    OBVIOUS
  <2>5. listener \in [Listeners -> {"unbound", "serving", "admitting", "draining",
                                    "exited", "joined", "aborted"}]
    BY Zenon
  <2>6. QED BY <2>1, <2>2, <2>3, <2>4, <2>5 DEF RunTypes
<1>2. UdpDrained BY DEF UdpDrained, JobsOf
<1>3. ErrorReported BY DEF ErrorReported
<1>4. ReturnInv BY DEF ReturnInv
<1>5. QED BY <1>1, <1>2, <1>3, <1>4 DEF RunInv

LEMMA AbortKeeps ==
    ASSUME RunInv, run # "returned", NEW why \in {"bind", "dropped"}, Abort(why)
    PROVE  RunInv'
<1> USE Constants DEF RunInv, RunTypes, Abort, CutShort, listenerVars
<1>1. RunTypes' OBVIOUS
<1>2. UdpDrained' BY DEF UdpDrained, JobsOf
<1>3. ErrorReported' BY DEF ErrorReported
<1>4. QED BY <1>1, <1>2, <1>3 DEF ReturnInv

\* A step of a listener that is at work: it moves to another such state, is
\* aborted, or exits, with no packet left unless it panicked.
LEMMA ListenerKeeps ==
    ASSUME RunInv, NEW l \in Listeners,
           NEW to \in {"serving", "admitting", "draining", "exited", "aborted"},
           listener[l] \in {"serving", "admitting", "draining"},
           listener' = [listener EXCEPT ![l] = to],
           failed' \in {failed, failed \cup {l}},
           panicked' \in {panicked, panicked \cup {l}}, panicked' \subseteq failed',
           job' \in [Jobs -> Udp \cup {None}],
           \A j \in Jobs : job'[j] \in {None, job[j], l},
           (to = "exited" /\ l \in Udp \ panicked') => \A j \in Jobs : job'[j] # l,
           UNCHANGED runVars
    PROVE  RunInv'
<1> USE Constants DEF RunInv, RunTypes, runVars, CutShort
<1>1. run # "returned" \/ CutShort BY DEF ReturnInv
<1>2. RunTypes' OBVIOUS
<1>3. UdpDrained' BY <1>1 DEF UdpDrained, JobsOf
<1>4. ErrorReported' BY <1>1 DEF ErrorReported
<1>5. ReturnInv' BY <1>1 DEF ReturnInv
<1>6. QED BY <1>2, <1>3, <1>4, <1>5

LEMMA RunNextKeeps ==
    ASSUME RunInv, RunNext
    PROVE  RunInv'
<1> USE DEF RunInv, CutShort
<1>1. CASE Bind
  <2> USE <1>1, Constants DEF Bind, RunTypes
  <2>1. BindOrder[bound + 1] \in Listeners OBVIOUS
  <2>2. RunTypes' BY <2>1
  <2>3. UdpDrained' BY <2>1 DEF UdpDrained, JobsOf
  <2>4. ErrorReported' BY DEF ErrorReported
  <2>5. ReturnInv' BY <2>1 DEF ReturnInv
  <2>6. QED BY <2>2, <2>3, <2>4, <2>5
<1>2. CASE BindFails \/ RunDropped BY <1>2, AbortKeeps DEF BindFails, RunDropped
<1>3. CASE Return
  <2> USE <1>3, Constants DEF Return, listenerVars
  <2>1. RunTypes' BY DEF RunTypes
  <2>2. UdpDrained' BY DEF UdpDrained, JobsOf, RunTypes
  <2>3. ErrorReported' BY DEF ErrorReported, ReturnInv, RunTypes
  <2>4. ReturnInv' BY DEF ReturnInv, RunTypes
  <2>5. QED BY <2>1, <2>2, <2>3, <2>4
<1>4. CASE Shutdown
  BY <1>4 DEF Shutdown, RunTypes, UdpDrained, JobsOf, ErrorReported, ReturnInv, CutShort, listenerVars
<1>5. ASSUME NEW l \in Listeners, Join(l)
      PROVE  RunInv'
  <2> USE <1>5, Constants DEF Join, RunTypes
  <2>1. RunTypes' OBVIOUS
  <2>2. UdpDrained' BY DEF UdpDrained, JobsOf
  <2>3. ErrorReported' BY DEF ErrorReported
  <2>4. ReturnInv' BY DEF ReturnInv
  <2>5. QED BY <2>1, <2>2, <2>3, <2>4
<1>6. ASSUME NEW l \in Listeners,
             Aborted(l) \/ ObserveShutdown(l) \/ Take(l) \/ TakeFails(l) \/ Reject(l) \/ Drained(l)
      PROVE  RunInv'
  BY <1>6, ListenerKeeps
     DEF RunTypes, ObserveShutdown, Take, TakeFails, Reject, Drained, Aborted, JobsOf, runVars
<1>7. ASSUME NEW l \in Listeners, ListenerPanics(l)
      PROVE  RunInv'
  BY <1>7, ListenerKeeps, Constants DEF RunTypes, ListenerPanics
<1>8. ASSUME NEW l \in Listeners, NEW j \in Jobs, AdmitPacket(l, j)
      PROVE  RunInv'
  BY <1>8, ListenerKeeps DEF RunTypes, AdmitPacket
<1>9. ASSUME NEW l \in Listeners, NEW c \in Conns, AdmitConnection(l, c)
      PROVE  RunInv'
  BY <1>9, ListenerKeeps DEF RunTypes, AdmitConnection
<1>10. ASSUME NEW j \in Jobs, JobEnds(j)
       PROVE  RunInv'
  <2> USE <1>10, Constants DEF JobEnds, runVars
  <2>1. RunTypes' BY DEF RunTypes
  <2>2. UdpDrained' BY DEF UdpDrained, JobsOf, RunTypes
  <2>3. ErrorReported' BY DEF ErrorReported
  <2>4. ReturnInv' BY DEF ReturnInv
  <2>5. QED BY <2>1, <2>2, <2>3, <2>4
<1>11. QED
  BY <1>1, <1>2, <1>3, <1>4, <1>5, <1>6, <1>7, <1>8, <1>9, <1>10 DEF RunNext, ListenerStep

LEMMA RunUnchanged ==
    ASSUME RunInv, UNCHANGED <<runVars, listenerVars>>
    PROVE  RunInv'
BY DEF RunInv, RunTypes, UdpDrained, JobsOf, ErrorReported, ReturnInv, CutShort, runVars, listenerVars

\* The connections and the store do not touch run or the listeners.
LEMMA RunSplits ==
    ASSUME [Next]_vars, ~RunNext
    PROVE  UNCHANGED <<runVars, listenerVars>>
BY DEF Next, vars, RunNext, ConnStep, Moves, Ends, Finishes, Handshake, Authorize, Register,
       ObserveClose, ReadFrame, ReadEnds, RefuseFrame, Handled, Written, HandlerPanics,
       Close, RemoveClient, CloseFor

LEMMA RunAlways == Spec => []RunInv
<1>1. RunInv /\ [Next]_vars => RunInv'
  BY RunNextKeeps, RunUnchanged, RunSplits
<1>2. QED BY <1>1, RunInit, PTL DEF Spec

(* No packet task outlives a UDP listener that ends on a shutdown or a     *)
(* socket error, nor a run that joins its listeners, for any number of     *)
(* listeners and packets (server/udp.rs).                                  *)
THEOREM DrainCorrect == Spec => []UdpDrained
<1>1. RunInv => UdpDrained BY DEF RunInv
<1>2. QED BY <1>1, RunAlways, PTL

(* run returns Ok only if no listener failed (server/runtime.rs).          *)
THEOREM ErrorsReported == Spec => []ErrorReported
<1>1. RunInv => ErrorReported BY DEF RunInv
<1>2. QED BY <1>1, RunAlways, PTL

-----------------------------------------------------------------------------
(* Types.                                                                  *)

StoreTypes == store \subseteq ClientIds /\ revoked \subseteq ClientIds

\* The state of run, of its listeners and of the connections keeps its types,
\* for any listeners, packet tasks, connections and clients; and a connection
\* task has a client exactly from its authorization on (handle_connection).
THEOREM TypeCorrect == Spec => []TypeOK
<1>1. Init => StoreTypes
  BY DEF Init, StoreTypes
<1>2. StoreTypes /\ [Next]_vars => StoreTypes'
  <2> SUFFICES ASSUME StoreTypes, [Next]_vars PROVE StoreTypes'
    OBVIOUS
  <2> USE DEF StoreTypes
  <2>1. ASSUME NEW id \in ClientIds, RemoveClient(id) PROVE StoreTypes'
    BY <2>1 DEF RemoveClient
  <2>2. ASSUME NEW id \in ClientIds, CloseFor(id) PROVE StoreTypes'
    BY <2>2 DEF CloseFor
  <2>3. CASE UNCHANGED storeVars
    BY <2>3 DEF storeVars
  <2>4. CASE RunNext
    BY <2>3, <2>4 DEF RunNext, Bind, BindFails, RunDropped, Abort, Return, Shutdown, Join,
                      Aborted, ListenerStep, Take, TakeFails, ObserveShutdown, Reject,
                      ListenerPanics, Drained, AdmitPacket, AdmitConnection, JobEnds
  <2>5. CASE ConnNext
    BY <2>2, <2>3, <2>5 DEF ConnNext, AdmitConnection, ConnStep, ReadFrame, ReadEnds, Written,
                            Handshake, Authorize, Register, ObserveClose, RefuseFrame, Handled,
                            HandlerPanics, Close, Moves, Ends, Finishes
  <2>6. QED BY <2>1, <2>2, <2>3, <2>4, <2>5 DEF Next, RunNext, ConnNext, vars
<1>3. Spec => []StoreTypes
  BY <1>1, <1>2, PTL DEF Spec
<1>4. RunInv /\ ConnInv /\ StoreTypes => TypeOK
  BY DEF RunInv, RunTypes, ConnInv, ConnTypes, StoreTypes, TypeOK
<1>5. QED BY <1>3, <1>4, RunAlways, ConnAlways, PTL
-----------------------------------------------------------------------------
(* The router.                                                             *)

\* What was wired is in the slots; requests come after the router was built,
\* went to the handler of their slot, and are made of attributes.
RouterInv ==
    /\ sets \in Seq(Router!Slots \X Handlers) /\ slots \in [Router!Slots -> Handlers \cup {None}]
    /\ \A s \in Router!Slots : slots[s] = Router!Wired(s)
    /\ phase \in {"config", "serve", "test"}
    /\ mock = asked /\ asked \in [code : Router!PacketCodes, identifier : Ids \cup {0},
                                  attributes : Seq(Router!Attributes)]
    /\ phase = "config" => request = None
    /\ request # None => /\ request.attributes \in Seq(Router!Attributes)
                         /\ handler = Router!Route(request.code)
                         /\ handler = None => result = Router!Drop
                         /\ result # Router!Drop => result = Router!Reply(request.identifier)
                         /\ phase = "test" => request = asked

\* A set of naturals has a least element, and one of positions a last.
LEMMA LeastPosition ==
    ASSUME NEW T \in SUBSET Nat, T # {}
    PROVE  \E x \in T : \A y \in T : x <= y
<1> DEFINE Less == {s \in Nat \X Nat : s[1] < s[2]}
<1>1. OpToRel(<, Nat) = Less
  BY DEF OpToRel
<1>2. IsWellFoundedOn(Less, Nat)
  BY <1>1, NatLessThanWellFounded
<1> HIDE DEF Less
<1>3. PICK x \in T : \A y \in T : <<y, x>> \notin Less
  BY <1>2, WFMin
<1>4. ASSUME NEW y \in T PROVE x <= y
  <2>1. x \in Nat /\ y \in Nat /\ <<y, x>> \notin Less
    BY <1>3
  <2> QED
    BY <2>1 DEF Less
<1> QED
  BY <1>4

LEMMA LastPosition ==
    ASSUME NEW n \in Nat, NEW T \in SUBSET (1 .. n), T # {}
    PROVE  \E x \in T : \A y \in T : y <= x
<1> DEFINE D == {n - y : y \in T}
<1>1. D \in SUBSET Nat /\ D # {}
  <2>1. \A y \in T : n - y \in Nat
    OBVIOUS
  <2> QED
    BY <2>1
<1>2. PICK d \in D : \A e \in D : d <= e
  BY <1>1, LeastPosition
<1>3. PICK x \in T : d = n - x
  OBVIOUS
<1>4. ASSUME NEW y \in T PROVE y <= x
  <2>1. n - y \in D
    OBVIOUS
  <2>2. n - x <= n - y
    BY <1>2, <1>3, <2>1
  <2> QED
    BY <2>2
<1> QED
  BY <1>4

\* A call of the builder decides its own slot and no other.
LEMMA WiredAppend ==
    ASSUME NEW s \in Router!Slots, NEW h \in Handlers, sets \in Seq(Router!Slots \X Handlers),
           sets' = Append(sets, <<s, h>>), NEW t \in Router!Slots
    PROVE  Router!Wired(t)' = IF t = s THEN h ELSE Router!Wired(t)
<1> DEFINE calls == {i \in DOMAIN sets : sets[i][1] = t}
           later == {i \in DOMAIN sets' : sets'[i][1] = t}
           n == Len(sets)
<1>1. /\ n \in Nat /\ DOMAIN sets = 1 .. n /\ DOMAIN sets' = 1 .. n + 1
      /\ \A i \in 1 .. n : sets'[i] = sets[i]
      /\ sets'[n + 1] = <<s, h>>
  OBVIOUS
<1>2. /\ Router!Wired(t) = IF calls = {} THEN None
                           ELSE sets[CHOOSE i \in calls : \A j \in calls : j <= i][2]
      /\ Router!Wired(t)' = IF later = {} THEN None
                            ELSE sets'[CHOOSE i \in later : \A j \in later : j <= i][2]
  BY DEF Router!Wired
<1> HIDE DEF n
<1>3. CASE t = s
  <2>1. n + 1 \in later /\ \A j \in later : j <= n + 1
    BY <1>1, <1>3
  <2>2. \A i \in later : (\A j \in later : j <= i) => i = n + 1
    BY <1>1, <2>1
  <2> HIDE DEF later
  <2>3. (CHOOSE i \in later : \A j \in later : j <= i) = n + 1
    BY <2>1, <2>2
  <2> QED
    BY <1>1, <1>2, <1>3, <2>1, <2>3
<1>4. CASE t # s
  <2>1. later = calls
    BY <1>1, <1>4
  <2>2. CASE calls = {}
    BY <1>2, <1>4, <2>1, <2>2
  <2>3. CASE calls # {}
    <3> DEFINE k == CHOOSE i \in calls : \A j \in calls : j <= i
    <3>1. calls \in SUBSET (1 .. n)
      BY <1>1
    <3> HIDE DEF calls, later
    <3>2. k \in calls
      BY <1>1, <2>3, <3>1, LastPosition
    <3>3. k \in 1 .. n
      BY <3>1, <3>2
    <3> HIDE DEF k
    <3>4. Router!Wired(t)' = sets'[k][2] /\ Router!Wired(t) = sets[k][2]
      BY <1>2, <2>1, <2>3 DEF k
    <3> QED
      BY <1>1, <1>4, <3>3, <3>4
  <2> QED
    BY <2>2, <2>3
<1> QED
  BY <1>3, <1>4

\* What CodeRouter::handle leaves behind.
LEMMA RouterHandles ==
    ASSUME NEW r, NEW answers, Router!Handle(r, answers)
    PROVE  /\ request' = r /\ handler' = Router!Route(r.code)
           /\ handler' = None => result' = Router!Drop
           /\ result' # Router!Drop => result' = Router!Reply(r.identifier)
BY DEF Router!Handle

LEMMA RouterStep ==
    ASSUME Router!DispatchAssumption, RouterInv, [Router!Next]_(Router!vars)
    PROVE  RouterInv'
<1> USE DEF RouterInv
\* A step that leaves the wiring alone.
<1>1. UNCHANGED <<slots, sets>> => \A s \in Router!Slots : slots'[s] = Router!Wired(s)'
  <2> SUFFICES ASSUME UNCHANGED <<slots, sets>>, NEW s \in Router!Slots
               PROVE  slots'[s] = Router!Wired(s)'
    OBVIOUS
  <2>1. Router!Wired(s)' = Router!Wired(s)
    <3> DEFINE W(q) == LET calls == {i \in DOMAIN q : q[i][1] = s}
                       IN IF calls = {} THEN None
                          ELSE q[CHOOSE i \in calls : \A j \in calls : j <= i][2]
    <3>1. Router!Wired(s) = W(sets) /\ Router!Wired(s)' = W(sets')
      BY DEF Router!Wired
    <3> HIDE DEF W
    <3>2. sets' = sets
      OBVIOUS
    <3>3. W(sets') = W(sets)
      BY <3>2
    <3> QED
      BY <3>1, <3>3
  <2> QED
    BY <2>1
<1>2. ASSUME NEW s \in Router!Slots, NEW h \in Handlers, Router!SetSlot(s, h)
      PROVE  RouterInv'
  <2>1. /\ phase = "config" /\ sets' = Append(sets, <<s, h>>)
        /\ slots' = [slots EXCEPT ![s] = h]
        /\ UNCHANGED <<phase, mock, asked, input, request, handler, result>>
    BY <1>2 DEF Router!SetSlot, Router!SlotSet
  <2>2. sets' \in Seq(Router!Slots \X Handlers) /\ slots' \in [Router!Slots -> Handlers \cup {None}]
    BY <2>1
  <2>3. \A t \in Router!Slots : slots'[t] = Router!Wired(t)'
    BY <2>1, WiredAppend
  <2> QED
    BY <2>1, <2>2, <2>3
<1>3. CASE Router!BuildRouter
  BY <1>1, <1>3 DEF Router!BuildRouter, Router!Route
<1>4. ASSUME NEW p \in LivePackets, NEW id \in Ids, NEW attrs \in LiveAttributes, NEW c \in LiveClients,
             NEW role, NEW policy, NEW answers, Router!Live(p, id, attrs, c, role, policy, answers)
      PROVE  RouterInv'
  <2> DEFINE r == [code |-> p.code, identifier |-> id, attributes |-> attrs]
  <2>1. phase = "serve" /\ UNCHANGED <<slots, sets, phase, mock, asked>>
    BY <1>4 DEF Router!Live
  <2>2. CASE Router!Handle(r, answers)
    <3>1. r.attributes \in Seq(Router!Attributes)
      BY DEF Router!DispatchAssumption
    <3> QED
      BY <1>1, <2>1, <2>2, <3>1, RouterHandles DEF Router!Route, Router!Reply
  <2>3. CASE request' = None
    BY <1>1, <2>1, <2>3
  <2> QED
    BY <1>4, <2>2, <2>3 DEF Router!Live
<1>5. ASSUME NEW code \in Router!PacketCodes, NEW id \in Ids, Router!MockSet(code, id)
      PROVE  RouterInv'
  BY <1>1, <1>5 DEF Router!MockSet
<1>6. ASSUME NEW attr \in Router!Attributes, NEW fits \in BOOLEAN, Router!MockAdd(attr, fits)
      PROVE  RouterInv'
  <2>1. /\ mock' = asked' /\ UNCHANGED <<slots, sets, phase>> /\ request' = None
        /\ asked' = IF fits THEN [asked EXCEPT !.attributes = Append(@, attr)] ELSE asked
    BY <1>6 DEF Router!MockAdd
  <2>2. Append(asked.attributes, attr) \in Seq(Router!Attributes)
    OBVIOUS
  <2>3. asked' \in [code : Router!PacketCodes, identifier : Ids \cup {0},
                    attributes : Seq(Router!Attributes)]
    BY <2>1, <2>2
  <2> QED
    BY <1>1, <2>1, <2>3
<1>7. ASSUME NEW answers, Router!MockHandle(answers)
      PROVE  RouterInv'
  <2>1. /\ phase = "test" /\ Router!Handle(asked, answers)
        /\ UNCHANGED <<slots, sets, phase, mock, asked>>
    BY <1>7 DEF Router!MockHandle, Router!MockBuild
  <2> QED
    BY <1>1, <2>1, RouterHandles DEF Router!Route, Router!Reply
<1>8. CASE UNCHANGED Router!vars
  BY <1>1, <1>8 DEF Router!vars, Router!Route
<1> QED
  BY <1>2, <1>3, <1>4, <1>5, <1>6, <1>7, <1>8 DEF Router!Next

LEMMA RouterInitial == Router!Init => RouterInv
<1> SUFFICES ASSUME Router!Init PROVE RouterInv
  OBVIOUS
<1>1. \A s \in Router!Slots : Router!Wired(s) = None
  BY DEF Router!Init, Router!Wired
<1>2. <<>> \in Seq(Router!Attributes) /\ <<>> \in Seq(Router!Slots \X Handlers)
  OBVIOUS
<1> QED
  BY <1>1, <1>2 DEF Router!Init, RouterInv, Router!NewMock, Router!PacketCodes, Router!ServerCodes

\* The walk of acct_status_type finds the first status of a list.
LEMMA StatusFound ==
    ASSUME Router!DispatchAssumption, NEW r, r.attributes \in Seq(Router!Attributes)
    PROVE  LET s == Router!AcctStatusType(r)
               A == r.attributes
           IN s # None <=> \E i \in DOMAIN A :
                              /\ A[i].typ = "status"
                              /\ \A j \in 1 .. i - 1 : A[j].typ = "other"
                              /\ s # None => Router!StatusTo(s) = A[i].value
<1> DEFINE A == r.attributes
           s == Router!AcctStatusType(r)
           R == Router!Relevant(A)
           k == Router!FirstRelevant(A)
<1>1. /\ DOMAIN A = 1 .. Len(A) /\ Len(A) \in Nat
      /\ \A i \in DOMAIN A : /\ A[i] \in Router!Attributes
                             /\ A[i].typ \in {"status", "short", "other", "malformed"}
                             /\ A[i].typ = "status" => A[i].value \in Values
  <2>1. \A i \in DOMAIN A : A[i] \in Router!Attributes
    OBVIOUS
  <2> QED
    BY <2>1 DEF Router!Attributes
<1>2. R = {i \in DOMAIN A : A[i].typ # "other"}
  BY <1>1 DEF Router!Relevant
<1>3. s = IF R = {} THEN None
          ELSE IF A[k].typ = "status" THEN Router!StatusFrom(A[k].value) ELSE None
  BY DEF Router!AcctStatusType
<1>4. R # {} => k \in R /\ \A j \in R : k <= j
  <2>1. R \in SUBSET Nat
    BY <1>1, <1>2
  <2> HIDE DEF R
  <2>2. R # {} => \E x \in R : \A y \in R : x <= y
    BY <2>1, LeastPosition
  <2>3. k = CHOOSE i \in R : \A j \in R : i <= j
    BY DEF Router!FirstRelevant, R
  <2> QED
    BY <2>2, <2>3
<1> HIDE DEF A, s, R, k
<1>5. ASSUME NEW v \in Values
      PROVE  Router!StatusFrom(v) # None /\ Router!StatusTo(Router!StatusFrom(v)) = v
  BY DEF Router!StatusFrom, Router!StatusTo, Router!DispatchAssumption
<1>6. ASSUME s # None
      PROVE  \E i \in DOMAIN A : /\ A[i].typ = "status"
                                 /\ \A j \in 1 .. i - 1 : A[j].typ = "other"
                                 /\ Router!StatusTo(s) = A[i].value
  <2>1. R # {} /\ A[k].typ = "status" /\ s = Router!StatusFrom(A[k].value)
    BY <1>3, <1>6
  <2>2. k \in DOMAIN A /\ \A j \in R : k <= j
    BY <1>2, <1>4, <2>1
  <2>3. \A j \in 1 .. k - 1 : A[j].typ = "other"
    BY <1>1, <1>2, <2>2
  <2>4. Router!StatusTo(s) = A[k].value
    BY <1>1, <1>5, <2>1, <2>2
  <2> QED
    BY <2>1, <2>2, <2>3, <2>4
<1>7. ASSUME NEW i \in DOMAIN A, A[i].typ = "status", \A j \in 1 .. i - 1 : A[j].typ = "other"
      PROVE  s # None
  <2>1. i \in R
    BY <1>2, <1>7
  <2>2. k \in R /\ k <= i
    BY <1>4, <2>1
  <2>3. k = i
    BY <1>1, <1>2, <1>7, <2>2
  <2> QED
    BY <1>1, <1>3, <1>5, <1>7, <2>1, <2>3
<1> QED
  BY <1>6, <1>7 DEF A, s

\* However the builder was called and whatever arrives: a request reaches the
\* handler last wired for its code or the fallback, is dropped when there is
\* neither and is answered under its own identifier (CodeRouter::handle), the
\* handler of an accounting request reads its first Acct-Status-Type and only
\* that one, and a MockRequest is the request that the test asked for.
THEOREM RoutedRight ==
    ASSUME Router!DispatchAssumption
    PROVE  Router!Spec => [](Router!RightHandler /\ Router!StatusIsFirst /\ Router!MockIsLive)
<1>1. Router!Init => RouterInv
  BY RouterInitial
<1>2. RouterInv /\ [Router!Next]_(Router!vars) => RouterInv'
  BY RouterStep
<1>3. RouterInv => Router!RightHandler /\ Router!StatusIsFirst /\ Router!MockIsLive
  <2> SUFFICES ASSUME RouterInv PROVE Router!RightHandler /\ Router!StatusIsFirst /\ Router!MockIsLive
    OBVIOUS
  <2>1. Router!RightHandler
    BY DEF Router!RightHandler, RouterInv, Router!Route, Router!Slots, Router!Reply
  <2>2. Router!StatusIsFirst
    BY StatusFound DEF Router!StatusIsFirst, RouterInv
  <2> QED
    BY <2>1, <2>2 DEF Router!MockIsLive, RouterInv
<1> QED
  BY <1>1, <1>2, <1>3, PTL DEF Router!Spec

-----------------------------------------------------------------------------
(* The way of a packet.                                                    *)

\* What has been decided so far is what the stage says; in the end, what became
\* of the packet is what its first refusal, or the dispatch, says.
Sound == Path!Validate(datagram, peer) = "Ok"
Accepted == Path!Accepts(servedRole, datagram.code)
Refusal == IF transport = "udp" THEN "dropped" ELSE "torn_down"
Fate == CASE Path!Dispatched(datagram, peer, servedPolicy) = "Handler" -> "handled"
          [] Path!Dispatched(datagram, peer, servedPolicy) = "StatusServerReply" -> Path!StatusReplyCode(servedRole)
          [] OTHER -> "ignored"

PathInv ==
    /\ datagram \in Path!AllPackets /\ peer \in Path!AllClients
    /\ servedRole \in Path!Roles /\ servedPolicy \in Path!Policies /\ transport \in {"udp", "radsec"}
    /\ \/ stage = "received" /\ became = "none"
       \/ stage = "validated" /\ became = "none" /\ Sound
       \/ stage = "admitted" /\ became = "none" /\ Sound /\ Accepted
       \/ stage = "end" /\ became = IF Sound /\ Accepted THEN Fate ELSE Refusal

LEMMA PathKeeps == PathInv /\ [Path!Next]_Path!vars => PathInv'
<1> SUFFICES ASSUME PathInv, [Path!Next]_Path!vars PROVE PathInv'
  OBVIOUS
<1>1. CASE UNCHANGED Path!vars
  BY <1>1 DEF Path!vars, Path!inputs, PathInv, Sound, Accepted, Refusal, Fate
<1>2. ASSUME Path!Next
      PROVE  /\ UNCHANGED <<datagram, peer, servedRole, servedPolicy, transport>>
             /\ UNCHANGED <<Sound, Accepted, Refusal, Fate>>
  <2>1. UNCHANGED <<datagram, peer, servedRole, servedPolicy, transport>>
    BY <1>2 DEF Path!Next, Path!ValidateStep, Path!FilterRole, Path!Dispatch, Path!Refuse, Path!End,
                Path!Go, Path!inputs
  <2> QED
    BY <2>1 DEF Sound, Accepted, Refusal, Fate
<1>3. CASE Path!ValidateStep
  <2>1. /\ stage = "received"
        /\ IF Sound THEN stage' = "validated" /\ became' = became ELSE stage' = "end" /\ became' = Refusal
    BY <1>3 DEF Path!ValidateStep, Path!Refuse, Path!End, Path!Go, Sound, Refusal
  <2> QED
    BY <1>2, <1>3, <2>1 DEF PathInv, Path!Next
<1>4. CASE Path!FilterRole
  <2>1. /\ stage = "validated"
        /\ IF Accepted THEN stage' = "admitted" /\ became' = became ELSE stage' = "end" /\ became' = Refusal
    BY <1>4 DEF Path!FilterRole, Path!Refuse, Path!End, Path!Go, Accepted, Refusal
  <2> QED
    BY <1>2, <1>4, <2>1 DEF PathInv, Path!Next
<1>5. CASE Path!Dispatch
  <2>1. stage = "admitted" /\ stage' = "end" /\ became' = Fate
    BY <1>5 DEF Path!Dispatch, Path!End, Fate
  <2> QED
    BY <1>2, <1>5, <2>1 DEF PathInv, Path!Next
<1> QED
  BY <1>1, <1>3, <1>4, <1>5 DEF Path!Next

LEMMA PathImplies ==
    ASSUME PathInv
    PROVE  Path!OnlyProvenDispatched /\ Path!HandlerSeesItsRole /\ Path!ProbesAnswered
<1>1. /\ datagram.header \in {"ok", "malformed"} /\ datagram.code \in Path!PacketCodes
      /\ datagram.digest \in BOOLEAN /\ datagram.ma \in {"valid", "absent", "invalid"}
      /\ datagram.eap \in BOOLEAN
      /\ peer.require_message_authenticator \in BOOLEAN /\ peer.status_server_enabled \in BOOLEAN
  BY DEF PathInv, Path!AllPackets, Path!AllClients
<1>2. Sound => /\ datagram.header = "ok" /\ datagram.ma # "invalid"
               /\ datagram.code \in Path!DigestCodes => datagram.digest
               /\ datagram.ma = "absent" => ~Path!StrictRequired(datagram, peer)
  BY <1>1 DEF Sound, Path!Validate, Path!VerifyRequestAuthenticator
<1>3. /\ "handled" # Refusal /\ "none" # "handled"
      /\ Path!StatusReplyCode(servedRole) # "handled"
  BY DEF Refusal, Path!StatusReplyCode
<1>4. Path!OnlyProvenDispatched
  <2> SUFFICES ASSUME stage = "admitted"
               PROVE  /\ datagram.header = "ok" /\ datagram.ma # "invalid"
                      /\ \/ Path!Proven(datagram)
                         \/ /\ datagram.code = "ACCESS_REQUEST" /\ ~datagram.eap
                            /\ ~peer.require_message_authenticator
    BY DEF Path!OnlyProvenDispatched
  <2>1. Sound /\ Accepted
    BY DEF PathInv
  <2> QED
    BY <1>1, <1>2, <2>1 DEF Path!Proven, Path!StrictRequired, Accepted, Path!Accepts, Path!DigestCodes,
                            Path!ServerCodes, Path!PacketCodes, PathInv, Path!Roles
<1>5. Path!HandlerSeesItsRole
  <2> SUFFICES ASSUME became = "handled"
               PROVE  /\ datagram.code \in Path!ServerCodes
                      /\ datagram.code # "STATUS_SERVER"
                      /\ servedRole # "Any" => datagram.code = IF servedRole = "Auth" THEN "ACCESS_REQUEST"
                                                               ELSE "ACCOUNTING_REQUEST"
    BY DEF Path!HandlerSeesItsRole
  <2>1. Sound /\ Accepted /\ Fate = "handled"
    BY <1>3 DEF PathInv
  <2>2. datagram.code # "STATUS_SERVER"
    BY <1>3, <2>1 DEF Fate, Path!Dispatched
  <2> QED
    BY <2>1, <2>2 DEF Accepted, Path!Accepts, Path!ServerCodes, PathInv, Path!Roles
<1>6. Path!ProbesAnswered
  <2> SUFFICES ASSUME stage = "end", datagram.header = "ok", datagram.code = "STATUS_SERVER"
               PROVE  became = IF datagram.ma # "valid" THEN Refusal
                               ELSE IF peer.status_server_enabled /\ servedPolicy \in {"Enabled", "CustomSend"}
                               THEN IF servedRole = "Acct" THEN "ACCOUNTING_RESPONSE" ELSE "ACCESS_ACCEPT"
                               ELSE "ignored"
    BY DEF Path!ProbesAnswered, Refusal, PathInv, Path!Policies
  <2>1. Accepted /\ (Sound <=> datagram.ma = "valid")
    BY <1>1 DEF Accepted, Path!Accepts, Sound, Path!Validate, Path!VerifyRequestAuthenticator,
                Path!StrictRequired, Path!DigestCodes
  <2>2. became = IF datagram.ma = "valid" THEN Fate ELSE Refusal
    BY <2>1 DEF PathInv
  <2>3. Fate = IF peer.status_server_enabled /\ servedPolicy \in {"Enabled", "CustomSend"}
               THEN IF servedRole = "Acct" THEN "ACCOUNTING_RESPONSE" ELSE "ACCESS_ACCEPT"
               ELSE "ignored"
    BY DEF Fate, Path!Dispatched, Path!BuildsStatusReply, Path!StatusReplyCode, PathInv, Path!Policies
  <2> QED
    BY <2>2, <2>3
<1> QED
  BY <1>4, <1>5, <1>6

\* Of any packets and clients: nothing reaches the handler, the responder or
\* the reply cache without integrity but an Access-Request for which the
\* operator waived it; a handler sees the requests of its listener's role only;
\* and while the built-in responder is on, a probe is answered exactly when it
\* is sound and allowed (validate, ListenerRole::accepts, dispatch_validated).
THEOREM OnlyProvenReach ==
    ASSUME Path!PacketPathAssumption
    PROVE  Path!Spec => [](Path!OnlyProvenDispatched /\ Path!HandlerSeesItsRole /\ Path!ProbesAnswered)
<1>1. Path!Init => PathInv
  BY DEF Path!Init, PathInv, Path!PacketPathAssumption
<1>2. PathInv /\ [Path!Next]_Path!vars => PathInv'
  BY PathKeeps
<1>3. PathInv => Path!OnlyProvenDispatched /\ Path!HandlerSeesItsRole /\ Path!ProbesAnswered
  BY PathImplies
<1> QED
  BY <1>1, <1>2, <1>3, PTL DEF Path!Spec
=============================================================================
