------------------------- MODULE RadsecClientProofs --------------------------
(***************************************************************************)
(* Proofs about what speaks TLS: RadsecClient, for any sets of calls and   *)
(* close calls, any number of identifiers and any limit; and               *)
(* TunnelMethods, for any flights, frame sizes, peers and credentials.     *)
(***************************************************************************)
EXTENDS RadsecClient, ExchangeProofs, SequenceTheorems

\* What TunnelMethods has besides.
CONSTANTS MaxTotal, PeerLen, ServerLen, RecordLen, AppBase, Garbled, Secrets, PeerAvps, PeerPackets,
          Kinds, Mtus, Modes, PeerMtu, Free, Answers, MaxRounds
VARIABLES method, tun, own, at, said, caller, turns, heard, orderly, shook

Tun == INSTANCE TunnelMethods WITH
    kind <- method, t <- tun, m <- own, pc <- at, out <- said, peer <- caller, rounds <- turns,
    got <- heard, exact <- orderly, finished <- shook

Entry(c) == reg.pending[Server][packet[c].id]

\* A lease that someone holds has its entry in the registry, and a caller that
\* waits for an entry without a sender has its answer.
Linked ==
    \A c \in Calls : Held(c) =>
        /\ packet[c] \in Packets
        /\ Entry(c) # None
        /\ Entry(c).call = c
        /\ (Waits(c) /\ ~Entry(c).sender) => mailbox[c] # None

\* Every entry of the registry is that of a lease that someone holds.
NoLeak ==
    \A i \in InUse(reg, Server), c \in Calls :
        reg.pending[Server][i].call = c => Held(c) /\ packet[c].id = i

WithinLimit == Cardinality(InUse(reg, Server)) <= Limit

Leases == Linked /\ NoLeak /\ WithinLimit

Distinct(s) == \A i, j \in DOMAIN s : s[i] = s[j] => i = j

\* A command is made once, by a call that queues it.
QueuedOnce ==
    /\ \A c \in Calls :
        (Send(c) \in Range(queue) \/ current = Send(c)) => pc[c] \in {"waiting", "done"}
    /\ \A k \in Closers : Close(k) \in Range(queue) => closer[k] \in {"waiting", "done"}
    /\ Distinct(queue)

\* The client outlives its calls.
DroppedAlone == dropped => \A c \in Calls : ~Waits(c)

\* A packet that was written had been registered.
WrittenSealed == \A c \in written : packet[c] \in Packets

Core == TypeOK /\ Leases /\ QueuedOnce /\ DroppedAlone /\ EndedTellsAll
IInv == Core /\ WrittenSealed

-----------------------------------------------------------------------------
(* Commands, mail and the channel.                                         *)

\* Commands are those of one call or one close, and no option is None by
\* accident.
LEMMA CommandsDiffer ==
    /\ \A c \in Calls : Send(c) \in Commands /\ Send(c) # None
    /\ \A k \in Closers : Close(k) \in Commands /\ Close(k) # None
    /\ \A c, d \in Calls : Send(c) = Send(d) => c = d
    /\ \A k, l \in Closers : Close(k) = Close(l) => k = l
    /\ \A c \in Calls, k \in Closers : Send(c) # Close(k)
<1>1. \A c, d : Send(c) = Send(d) => c = d
  BY DEF Send
<1>2. \A c, d : Close(c) = Close(d) => c = d
  BY DEF Close
<1>3. \A c, d : Send(c) # Close(d)
  BY DEF Send, Close
<1>4. None \notin Commands
  BY RadsecOptionAssumption
<1>5. (\A c \in Calls : Send(c) \in Commands) /\ \A k \in Closers : Close(k) \in Commands
  BY DEF Commands
<1> QED
  BY <1>1, <1>2, <1>3, <1>4, <1>5

LEMMA MailDiffers ==
    /\ Closed \in Mail /\ Closed # None
    /\ \A r \in Responses : Ok(r) \in Mail /\ Ok(r) # None
BY RadsecOptionAssumption DEF Mail, Ok

LEMMA CapacityType == Capacity \in Nat \ {0}
BY ExchangeAssumption DEF Capacity

\* What the channel holds after a command was put into it.
LEMMA Appended ==
    ASSUME NEW S, NEW s \in Seq(S), NEW x \in S
    PROVE  /\ Append(s, x) \in Seq(S) /\ Len(Append(s, x)) = Len(s) + 1
           /\ Range(Append(s, x)) = Range(s) \cup {x}
           /\ Distinct(s) /\ x \notin Range(s) => Distinct(Append(s, x))
<1> DEFINE t == Append(s, x)
<1>1. /\ t \in Seq(S) /\ Len(t) = Len(s) + 1 /\ Len(s) \in Nat
      /\ DOMAIN s = 1 .. Len(s) /\ DOMAIN t = 1 .. Len(s) + 1
      /\ \A i \in 1 .. Len(s) : t[i] = s[i]
      /\ t[Len(s) + 1] = x
  OBVIOUS
<1> HIDE DEF t
<1>2. Range(t) = Range(s) \cup {x}
  <2>1. \A y : y \in Range(t) => y \in Range(s) \cup {x}
    BY <1>1 DEF Range
  <2>2. \A y : y \in Range(s) \cup {x} => y \in Range(t)
    BY <1>1 DEF Range
  <2> QED
    BY <2>1, <2>2
<1>3. ASSUME Distinct(s), x \notin Range(s) PROVE Distinct(t)
  <2> SUFFICES ASSUME NEW i \in DOMAIN t, NEW j \in DOMAIN t, t[i] = t[j] PROVE i = j
    BY DEF Distinct
  <2>1. \A k \in 1 .. Len(s) : t[k] = s[k] /\ t[k] # x
    BY <1>1, <1>3 DEF Range
  <2> QED
    BY <1>1, <1>3, <2>1 DEF Distinct
<1> QED
  BY <1>1, <1>2, <1>3 DEF t

\* What it holds after one was taken out of it.
LEMMA TookHead ==
    ASSUME NEW S, NEW s \in Seq(S), s # <<>>
    PROVE  /\ Tail(s) \in Seq(S) /\ Len(Tail(s)) <= Len(s)
           /\ Range(s) = Range(Tail(s)) \cup {Head(s)}
           /\ Distinct(s) => Distinct(Tail(s)) /\ Head(s) \notin Range(Tail(s))
<1> DEFINE t == Tail(s)
<1>1. /\ t \in Seq(S) /\ Len(s) \in Nat \ {0} /\ Len(t) = Len(s) - 1
      /\ DOMAIN s = 1 .. Len(s) /\ DOMAIN t = 1 .. Len(s) - 1
      /\ \A i \in 1 .. Len(s) - 1 : t[i] = s[i + 1]
      /\ Head(s) = s[1]
  OBVIOUS
<1> HIDE DEF t
<1>2. Range(s) = Range(t) \cup {Head(s)}
  <2>1. \A y : y \in Range(t) \cup {Head(s)} => y \in Range(s)
    BY <1>1 DEF Range
  <2>2. ASSUME NEW i \in DOMAIN s PROVE s[i] \in Range(t) \cup {Head(s)}
    <3>1. CASE i = 1
      BY <1>1, <3>1
    <3>2. CASE i # 1
      <4>1. i - 1 \in DOMAIN t /\ t[i - 1] = s[i]
        BY <1>1, <3>2
      <4> QED
        BY <4>1 DEF Range
    <3> QED
      BY <3>1, <3>2
  <2> QED
    BY <2>1, <2>2 DEF Range
<1>3. ASSUME Distinct(s) PROVE Distinct(t) /\ Head(s) \notin Range(t)
  <2>1. ASSUME NEW i \in DOMAIN t
        PROVE  i \in Nat \ {0} /\ i + 1 \in DOMAIN s /\ t[i] = s[i + 1]
    BY <1>1
  <2>2. Distinct(t)
    <3> SUFFICES ASSUME NEW i \in DOMAIN t, NEW j \in DOMAIN t, t[i] = t[j] PROVE i = j
      BY DEF Distinct
    <3>1. i + 1 = j + 1
      BY <1>3, <2>1 DEF Distinct
    <3> QED
      BY <2>1, <3>1
  <2>3. ASSUME NEW i \in DOMAIN t PROVE t[i] # Head(s)
    <3>1. 1 \in DOMAIN s /\ Head(s) = s[1]
      BY <1>1
    <3>2. i + 1 # 1
      BY <2>1
    <3> QED
      BY <1>3, <2>1, <3>1, <3>2 DEF Distinct
  <2> QED
    BY <2>2, <2>3 DEF Range
<1> QED
  BY <1>1, <1>2, <1>3 DEF t

\* Types of what a lease has.
LEMMA HeldTypes ==
    ASSUME TypeOK, Linked, NEW c \in Calls, Held(c)
    PROVE  packet[c].id \in Ids /\ packet[c].auth \in Calls \cup {None}
BY DEF Linked, Packets

-----------------------------------------------------------------------------
(* The leases, when references go, when nothing happens to them and when   *)
(* the registry closes.                                                    *)

\* References go, the last ones of some leases among them: the identifiers of
\* those leases are free again, and no others.
LEMMA DropStep ==
    ASSUME TypeOK, Leases, Drops(reg), UNCHANGED <<packet, mailbox>>,
           \A d \in Calls : Held(d)' => Held(d),
           \A d \in Calls : Waits(d)' => Waits(d)
    PROVE  reg' \in Registries(Packets) /\ Leases'
<1> USE RadsecClientAssumption DEF Leases
<1> DEFINE gone == {d \in Calls : Held(d) /\ ~Held(d)'}
           ids == {packet[c].id : c \in gone}
<1>1. reg' = Released(reg, Server, ids) /\ reg \in Registries(Packets)
  BY DEF Drops, TypeOK
<1>2. \A d \in Calls : Held(d) => packet[d].id \in Ids
  BY HeldTypes
<1> HIDE DEF ids
<1>3. /\ reg' \in Registries(Packets)
      /\ \A i \in Ids :
            reg'.pending[Server][i] = IF i \in ids THEN None ELSE reg.pending[Server][i]
  BY <1>1, ReleasedIs
<1>4. ASSUME NEW c \in Calls, Held(c)' PROVE packet[c].id \notin ids
  <2> SUFFICES ASSUME NEW d \in gone, packet[c].id = packet[d].id PROVE FALSE
    BY DEF ids
  <2>1. Held(c) /\ Held(d) /\ c # d /\ d \in Calls
    BY <1>4
  <2>2. Entry(c).call = c /\ Entry(d).call = d
    BY <2>1 DEF Linked
  <2> QED
    BY <2>1, <2>2 DEF Entry
<1>5. Linked'
  <2> SUFFICES ASSUME NEW c \in Calls, Held(c)'
               PROVE  /\ packet'[c] \in Packets
                      /\ reg'.pending[Server][packet'[c].id] # None
                      /\ reg'.pending[Server][packet'[c].id].call = c
                      /\ (Waits(c)' /\ ~reg'.pending[Server][packet'[c].id].sender)
                            => mailbox'[c] # None
    BY DEF Linked, Entry
  <2>1. Held(c) /\ packet[c].id \in Ids
    BY <1>2
  <2>2. packet'[c] = packet[c] /\ mailbox'[c] = mailbox[c]
    OBVIOUS
  <2>3. reg'.pending[Server][packet[c].id] = reg.pending[Server][packet[c].id]
    BY <1>3, <1>4, <2>1
  <2> QED
    BY <2>1, <2>2, <2>3 DEF Linked, Entry
<1>6. NoLeak'
  <2> SUFFICES ASSUME NEW i \in InUse(reg', Server), NEW c \in Calls,
                      reg'.pending[Server][i].call = c
               PROVE  Held(c)' /\ packet'[c].id = i
    BY DEF NoLeak
  <2>1. /\ i \in Ids /\ i \notin ids /\ i \in InUse(reg, Server)
        /\ reg'.pending[Server][i] = reg.pending[Server][i]
    BY <1>3 DEF InUse
  <2>2. Held(c) /\ packet[c].id = i
    BY <2>1 DEF NoLeak
  <2>3. Held(c)'
    BY <2>1, <2>2 DEF ids
  <2> QED
    BY <2>2, <2>3
<1>7. WithinLimit'
  <2>1. InUse(reg', Server) \subseteq InUse(reg, Server)
    BY <1>3 DEF InUse
  <2> QED
    BY <2>1, FewerInUse DEF WithinLimit
<1> QED
  BY <1>3, <1>5, <1>6, <1>7

\* Nothing happens to the leases.
LEMMA SameLeases ==
    ASSUME Leases, UNCHANGED <<packet, mailbox, reg>>,
           \A d \in Calls : Held(d)' <=> Held(d),
           \A d \in Calls : Waits(d)' <=> Waits(d)
    PROVE  Leases'
<1> USE DEF Leases
<1>1. Linked'
  BY DEF Linked, Entry
<1>2. NoLeak'
  BY DEF NoLeak
<1>3. WithinLimit'
  BY DEF WithinLimit
<1> QED
  BY <1>1, <1>2, <1>3

\* Registry::close keeps the leases and tells every caller that waits for an
\* answer.
LEMMA ShutStep ==
    ASSUME TypeOK, Leases, ShutDown, UNCHANGED packet,
           \A d \in Calls : Held(d)' <=> Held(d),
           \A d \in Calls : Waits(d)' <=> Waits(d)
    PROVE  /\ reg' \in Registries(Packets)
           /\ mailbox' \in [Calls -> Mail \cup {None}]
           /\ \A c \in Calls : mailbox[c] # None => mailbox'[c] # None
           /\ \A c \in Calls : Waits(c) => mailbox'[c] # None
           /\ Leases'
<1> USE RadsecClientAssumption DEF Leases
<1>1. /\ reg' = Shut(reg) /\ reg \in Registries(Packets) /\ None \notin Entries(Packets)
      /\ mailbox' = [c \in Calls |-> IF c \in Waiting(reg) THEN Closed ELSE mailbox[c]]
      /\ mailbox \in [Calls -> Mail \cup {None}]
  BY RadsecOptionAssumption DEF ShutDown, TypeOK
<1>2. reg' \in Registries(Packets) /\ SendersTaken(reg, reg')
  BY <1>1, ShutIs
<1>3. /\ mailbox' \in [Calls -> Mail \cup {None}]
      /\ \A c \in Calls : mailbox[c] # None => mailbox'[c] # None
  BY <1>1, MailDiffers
<1>4. \A c \in Calls : Held(c) => packet[c].id \in Ids
  BY HeldTypes
<1>5. ASSUME NEW c \in Calls, Waits(c) PROVE mailbox'[c] # None
  <2>1. Held(c)
    BY <1>5 DEF Held
  <2>2. Entry(c) # None /\ Entry(c).call = c /\ packet[c].id \in Ids
    BY <1>4, <2>1 DEF Linked
  <2>3. CASE Entry(c).sender
    <3>1. c \in Waiting(reg)
      BY <2>2, <2>3 DEF Waiting, Entry
    <3> QED
      BY <1>1, <3>1, MailDiffers
  <2>4. CASE ~Entry(c).sender
    BY <1>3, <1>5, <2>1, <2>4 DEF Linked
  <2> QED
    BY <2>3, <2>4
<1>6. Linked'
  <2> SUFFICES ASSUME NEW c \in Calls, Held(c)'
               PROVE  /\ packet'[c] \in Packets
                      /\ reg'.pending[Server][packet'[c].id] # None
                      /\ reg'.pending[Server][packet'[c].id].call = c
                      /\ Waits(c)' => mailbox'[c] # None
    BY DEF Linked, Entry
  <2>1. /\ packet'[c] = packet[c] /\ packet[c].id \in Ids /\ packet[c] \in Packets
        /\ Entry(c) # None /\ Entry(c).call = c
    BY <1>4 DEF Linked
  <2>2. reg'.pending[Server][packet[c].id] # None /\ reg'.pending[Server][packet[c].id].call = c
    BY <1>2, <2>1 DEF SendersTaken, Entry
  <2> QED
    BY <1>5, <2>1, <2>2
<1>7. InUse(reg', Server) = InUse(reg, Server)
  BY <1>2 DEF InUse, SendersTaken
<1>8. NoLeak'
  <2> SUFFICES ASSUME NEW i \in InUse(reg', Server), NEW c \in Calls,
                      reg'.pending[Server][i].call = c
               PROVE  Held(c)' /\ packet'[c].id = i
    BY DEF NoLeak
  <2>1. i \in InUse(reg, Server) /\ reg.pending[Server][i].call = c
    BY <1>2, <1>7 DEF InUse, SendersTaken
  <2> QED
    BY <2>1 DEF NoLeak
<1>9. WithinLimit'
  BY <1>7 DEF WithinLimit
<1> QED
  BY <1>2, <1>3, <1>5, <1>6, <1>8, <1>9
-----------------------------------------------------------------------------
(* The steps of send.                                                      *)

\* register gives the call an identifier that no lease has.
LEMMA RegisterStep ==
    ASSUME Core, NEW c \in Calls, Register(c)
    PROVE  Core'
<1> USE RadsecClientAssumption DEF Core, Leases
<1> DEFINE id == FreeId(reg, Server)
           m == Seal(c, id)
           e == [call |-> c, packet |-> m, sender |-> TRUE]
<1>1. /\ pc[c] = "idle" /\ ~dropped /\ Refusal(reg, Server) = None
      /\ packet' = [packet EXCEPT ![c] = m]
      /\ reg' = Registered(reg, Server, c, m)
      /\ pc' = [pc EXCEPT ![c] = "queueing"]
      /\ UNCHANGED <<expired, mailbox, closer, queue, driver, current, written, dropped>>
  BY DEF Register, driverVars
<1>2. reg \in Registries(Packets)
  BY DEF TypeOK
<1>3. id \in Ids /\ id \notin InUse(reg, Server) /\ reg.pending[Server][id] = None
  <2>1. InUse(reg, Server) # Ids
    BY <1>1, NotRefused
  <2>2. id \in Ids \ InUse(reg, Server)
    BY <1>2, <2>1, FreeIdIsFree
  <2> QED
    BY <2>2 DEF InUse
<1> HIDE DEF id
<1>4. m \in Packets /\ m.id = id
  BY <1>3 DEF Seal, Packets
<1> HIDE DEF m
<1>5. /\ reg' \in Registries(Packets)
      /\ \A i \in Ids : reg'.pending[Server][i] = IF i = id THEN e ELSE reg.pending[Server][i]
  BY <1>1, <1>2, <1>3, <1>4, RegisteredIs
<1>6. e # None /\ e.call = c /\ e.packet = m /\ e.sender = TRUE
  <2>1. e \in Entries(Packets)
    BY <1>4 DEF Entries
  <2> QED
    BY <2>1, RadsecOptionAssumption
<1> HIDE DEF e
<1>7. /\ ~Held(c) /\ packet'[c] = m
      /\ \A d \in Calls \ {c} : packet'[d] = packet[d] /\ pc'[d] = pc[d]
  BY <1>1 DEF TypeOK, Held, Waits, QueuedOnce
<1>8. \A d \in Calls : /\ Held(d)' <=> (d = c \/ Held(d))
                       /\ Waits(d)' <=> (d = c \/ Waits(d))
  BY <1>1 DEF TypeOK, Held, Waits
<1>9. \A d \in Calls : Held(d) => /\ d # c /\ packet[d].id \in Ids /\ packet[d].id # id
  BY <1>3, <1>7, HeldTypes DEF Linked, Entry
<1>10. TypeOK'
  BY <1>1, <1>4, <1>5 DEF TypeOK, ReceiverGone
<1>11. Linked'
  <2> SUFFICES ASSUME NEW d \in Calls, Held(d)'
               PROVE  /\ packet'[d] \in Packets
                      /\ reg'.pending[Server][packet'[d].id] # None
                      /\ reg'.pending[Server][packet'[d].id].call = d
                      /\ (Waits(d)' /\ ~reg'.pending[Server][packet'[d].id].sender)
                            => mailbox'[d] # None
    BY DEF Linked, Entry
  <2>1. CASE d = c
    BY <1>3, <1>4, <1>5, <1>6, <1>7, <2>1
  <2>2. CASE d # c
    <3>1. /\ Held(d) /\ packet'[d] = packet[d] /\ mailbox'[d] = mailbox[d]
          /\ Waits(d)' <=> Waits(d)
          /\ reg'.pending[Server][packet[d].id] = reg.pending[Server][packet[d].id]
      BY <1>1, <1>5, <1>7, <1>8, <1>9, <2>2
    <3> QED
      BY <3>1 DEF Linked, Entry
  <2> QED
    BY <2>1, <2>2
<1>12. NoLeak'
  <2> SUFFICES ASSUME NEW i \in InUse(reg', Server), NEW d \in Calls,
                      reg'.pending[Server][i].call = d
               PROVE  Held(d)' /\ packet'[d].id = i
    BY DEF NoLeak
  <2>1. i \in Ids
    BY DEF InUse
  <2>2. CASE i = id
    BY <1>4, <1>5, <1>6, <1>7, <1>8, <2>1, <2>2
  <2>3. CASE i # id
    <3>1. reg'.pending[Server][i] = reg.pending[Server][i] /\ i \in InUse(reg, Server)
      BY <1>5, <2>1, <2>3 DEF InUse
    <3>2. Held(d) /\ packet[d].id = i
      BY <3>1 DEF NoLeak
    <3> QED
      BY <1>7, <1>8, <3>2
  <2> QED
    BY <2>2, <2>3
<1>13. WithinLimit'
  <2>1. InUse(reg', Server) = InUse(reg, Server) \cup {id}
    BY <1>3, <1>5, <1>6 DEF InUse
  <2>2. IsFiniteSet(InUse(reg, Server)) /\ Cardinality(InUse(reg, Server)) \in Nat
    BY InUseFinite
  <2>3. Cardinality(InUse(reg', Server)) = Cardinality(InUse(reg, Server)) + 1
    BY <1>3, <2>1, <2>2, FS_AddElement
  <2>4. ~(Cardinality(InUse(reg, Server)) >= Limit)
    BY <1>1, NotRefused
  <2> QED
    BY <2>2, <2>3, <2>4, ExchangeAssumption DEF WithinLimit
<1>14. QueuedOnce'
  BY <1>1, <1>7 DEF QueuedOnce, Held
<1>15. DroppedAlone' /\ EndedTellsAll'
  BY <1>1 DEF DroppedAlone, EndedTellsAll, TypeOK
<1> QED
  BY <1>10, <1>11, <1>12, <1>13, <1>14, <1>15

\* Steps that change neither the registry nor what is queued.
LEMMA QuietStep ==
    ASSUME Core,
           UNCHANGED <<packet, mailbox, queue, current, reg, dropped>>,
           \A d \in Calls : pc'[d] = pc[d] \/ (pc[d] = "idle" /\ pc'[d] = "done"),
           \A k \in Closers : closer'[k] = closer[k] \/ closer'[k] = "done",
           driver' = "ended" => driver = "ended"
    PROVE  Leases' /\ QueuedOnce' /\ DroppedAlone' /\ EndedTellsAll'
<1> USE DEF Core
<1>1. \A d \in Calls : (Waits(d)' <=> Waits(d)) /\ (Held(d)' <=> Held(d))
  BY DEF Waits, Held
<1>2. Leases'
  BY <1>1, SameLeases
<1>3. QueuedOnce'
  BY DEF QueuedOnce
<1>4. DroppedAlone'
  BY <1>1 DEF DroppedAlone
<1>5. EndedTellsAll'
  BY DEF EndedTellsAll
<1> QED
  BY <1>2, <1>3, <1>4, <1>5
\* register refuses, a deadline passes, a NAK is written, close returns.
LEMMA QuietActions ==
    ASSUME Core,
           \/ \E c \in Calls : Refuse(c) \/ Expire(c)
           \/ DynamicRequest \/ NakDone
           \/ \E k \in Closers : CloseReturns(k) \/ CloseGivesUp(k)
           \/ UNCHANGED vars
    PROVE  Core'
<1> USE DEF Core, driverVars, callVars
<1>1. ASSUME NEW c \in Calls, Refuse(c) PROVE Core'
  <2>1. TypeOK'
    BY <1>1 DEF Refuse, TypeOK, ReceiverGone
  <2>2. /\ UNCHANGED <<packet, mailbox, queue, current, reg, dropped, closer, driver>>
        /\ \A d \in Calls : pc'[d] = pc[d] \/ (pc[d] = "idle" /\ pc'[d] = "done")
    BY <1>1 DEF Refuse, TypeOK
  <2> QED
    BY <2>1, <2>2, QuietStep
<1>2. ASSUME NEW c \in Calls, Expire(c) PROVE Core'
  <2>1. TypeOK'
    BY <1>2 DEF Expire, TypeOK, ReceiverGone
  <2>2. UNCHANGED <<pc, packet, mailbox, queue, current, reg, dropped, closer, driver>>
    BY <1>2 DEF Expire
  <2> QED
    BY <2>1, <2>2, QuietStep
<1>3. CASE DynamicRequest \/ NakDone
  <2>1. TypeOK'
    BY <1>3 DEF DynamicRequest, NakDone, TypeOK, ReceiverGone
  <2>2. /\ UNCHANGED <<pc, packet, mailbox, queue, current, reg, dropped, closer>>
        /\ driver' # "ended"
    BY <1>3 DEF DynamicRequest, NakDone
  <2> QED
    BY <2>1, <2>2, QuietStep
<1>4. ASSUME NEW k \in Closers, CloseReturns(k) \/ CloseGivesUp(k) PROVE Core'
  <2>1. TypeOK'
    BY <1>4 DEF CloseReturns, CloseGivesUp, TypeOK, ReceiverGone
  <2>2. /\ UNCHANGED <<pc, packet, mailbox, queue, current, reg, dropped, driver>>
        /\ \A l \in Closers : closer'[l] = closer[l] \/ closer'[l] = "done"
    BY <1>4 DEF CloseReturns, CloseGivesUp, TypeOK
  <2> QED
    BY <2>1, <2>2, QuietStep
<1>5. CASE UNCHANGED vars
  <2>1. TypeOK'
    BY <1>5 DEF vars, TypeOK, ReceiverGone
  <2>2. UNCHANGED <<pc, packet, mailbox, queue, current, reg, dropped, closer, driver>>
    BY <1>5 DEF vars
  <2> QED
    BY <2>1, <2>2, QuietStep
<1> QED
  BY <1>1, <1>2, <1>3, <1>4, <1>5

\* The command takes its reference to the lease into the channel.
LEMMA EnqueueStep ==
    ASSUME Core, NEW c \in Calls, Enqueue(c)
    PROVE  Core'
<1> USE DEF Core
<1>1. /\ pc[c] = "queueing" /\ ~ReceiverGone /\ Len(queue) < Capacity
      /\ queue' = Append(queue, Send(c)) /\ pc' = [pc EXCEPT ![c] = "waiting"]
      /\ UNCHANGED <<packet, expired, mailbox, closer, driver, current, written, reg, dropped>>
  BY DEF Enqueue
<1>2. Send(c) \notin Range(queue) /\ Send(c) \in Commands /\ queue \in Seq(Commands)
  BY <1>1, CommandsDiffer DEF QueuedOnce, TypeOK
<1>3. /\ queue' \in Seq(Commands) /\ Len(queue') = Len(queue) + 1
      /\ Range(queue') = Range(queue) \cup {Send(c)} /\ Distinct(queue')
  BY <1>1, <1>2, Appended DEF QueuedOnce
<1>4. pc'[c] = "waiting" /\ \A d \in Calls \ {c} : pc'[d] = pc[d]
  BY <1>1 DEF TypeOK
<1>5. \A d \in Calls : Waits(d)' <=> Waits(d)
  BY <1>1, <1>4 DEF Waits
<1>6. \A d \in Calls : Held(d)' <=> Held(d)
  <2>1. \A d \in Calls : Send(d) \in Range(queue') <=> (d = c \/ Send(d) \in Range(queue))
    BY <1>3, CommandsDiffer
  <2>2. Waits(c)
    BY <1>1 DEF Waits
  <2> QED
    BY <1>1, <1>5, <2>1, <2>2 DEF Held
<1>7. TypeOK'
  <2>1. Len(queue') <= Capacity
    BY <1>1, <1>2, <1>3, CapacityType
  <2>2. pc' \in [Calls -> {"idle", "queueing", "waiting", "done"}]
    BY <1>1 DEF TypeOK
  <2> QED
    BY <1>1, <1>3, <2>1, <2>2 DEF TypeOK, ReceiverGone
<1>8. Leases'
  BY <1>1, <1>5, <1>6, SameLeases
<1>9. QueuedOnce'
  <2>1. \A d \in Calls :
            (Send(d) \in Range(queue') \/ current' = Send(d)) => pc'[d] \in {"waiting", "done"}
    BY <1>1, <1>3, <1>4, CommandsDiffer DEF QueuedOnce
  <2>2. \A k \in Closers : Close(k) \in Range(queue') => closer'[k] \in {"waiting", "done"}
    BY <1>1, <1>3, CommandsDiffer DEF QueuedOnce
  <2> QED
    BY <1>3, <2>1, <2>2 DEF QueuedOnce
<1>10. DroppedAlone' /\ EndedTellsAll'
  BY <1>1, <1>5 DEF DroppedAlone, EndedTellsAll, ReceiverGone
<1> QED
  BY <1>7, <1>8, <1>9, <1>10

\* A future ends, with or without a result: its packet may be queued still.
LEMMA FinishStep ==
    ASSUME Core, NEW c \in Calls, Waits(c), Finish(c)
    PROVE  Core'
<1> USE DEF Core
<1>1. /\ pc' = [pc EXCEPT ![c] = "done"] /\ Drops(reg)
      /\ UNCHANGED <<packet, expired, mailbox, closer, queue, driver, current, written, dropped>>
  BY DEF Finish, driverVars
<1>2. pc'[c] = "done" /\ \A d \in Calls \ {c} : pc'[d] = pc[d]
  BY <1>1 DEF TypeOK
<1>3. \A d \in Calls : (Waits(d)' => Waits(d)) /\ (Held(d)' => Held(d))
  BY <1>1, <1>2 DEF Waits, Held
<1>4. reg' \in Registries(Packets) /\ Leases'
  BY <1>1, <1>3, DropStep
<1>5. TypeOK'
  BY <1>1, <1>4 DEF TypeOK, ReceiverGone
<1>6. QueuedOnce'
  BY <1>1, <1>2 DEF QueuedOnce
<1>7. DroppedAlone' /\ EndedTellsAll'
  BY <1>1, <1>2, <1>3 DEF DroppedAlone, EndedTellsAll
<1> QED
  BY <1>4, <1>5, <1>6, <1>7

-----------------------------------------------------------------------------
(* The steps of the driver.                                                *)

\* The driver loses commands, and takes at most the next one in hand: what is
\* left of the channel and of the leases.
LEMMA DriverDrops ==
    ASSUME Core, Drops(reg), UNCHANGED <<pc, packet, expired, mailbox, closer, dropped>>,
           queue' = <<>> \/ queue' = queue \/ (queue # <<>> /\ queue' = Tail(queue)),
           \/ current' \in {None, current}
           \/ queue # <<>> /\ current' = Head(queue)
    PROVE  /\ reg' \in Registries(Packets) /\ Leases' /\ QueuedOnce' /\ DroppedAlone'
           /\ queue' \in Seq(Commands) /\ Len(queue') <= Capacity
           /\ \A x \in Range(queue') : x \in Range(queue)
<1> USE DEF Core
<1>1. queue \in Seq(Commands) /\ Len(queue) <= Capacity /\ Distinct(queue)
  BY DEF TypeOK, QueuedOnce
<1>2. /\ queue' \in Seq(Commands) /\ Len(queue') <= Capacity /\ Distinct(queue')
      /\ \A x \in Range(queue') : x \in Range(queue)
  <2>1. CASE queue' = <<>>
    BY <2>1, CapacityType DEF Distinct, Range
  <2>2. CASE queue' = queue
    BY <1>1, <2>2
  <2>3. CASE queue # <<>> /\ queue' = Tail(queue)
    <3>1. /\ queue' \in Seq(Commands) /\ Len(queue') <= Len(queue) /\ Distinct(queue')
          /\ \A x \in Range(queue') : x \in Range(queue)
      BY <1>1, <2>3, TookHead
    <3> QED
      BY <1>1, <3>1, CapacityType
  <2> QED
    BY <2>1, <2>2, <2>3
<1>3. queue # <<>> => Head(queue) \in Range(queue)
  BY <1>1, TookHead
<1>4. \A c \in Calls : (Send(c) \in Range(queue') \/ current' = Send(c))
                            => (Send(c) \in Range(queue) \/ current = Send(c))
  BY <1>2, <1>3, CommandsDiffer
<1>5. \A d \in Calls : (Waits(d)' <=> Waits(d)) /\ (Held(d)' => Held(d))
  BY <1>4 DEF Waits, Held
<1>6. reg' \in Registries(Packets) /\ Leases'
  BY <1>5, DropStep
<1>7. QueuedOnce'
  BY <1>2, <1>4 DEF QueuedOnce
<1>8. DroppedAlone'
  BY <1>5 DEF DroppedAlone
<1> QED
  BY <1>2, <1>6, <1>7, <1>8
\* A packet is taken and written or passed over, a write ends, or the channel
\* goes with all its commands.
LEMMA DriverDropActions ==
    ASSUME Core,
           (\E c \in Calls : TakeSend(c) \/ WriteDone(c)) \/ Stop \/ Aborted
    PROVE  Core'
<1> USE DEF Core, callVars
<1>1. ASSUME NEW c \in Calls, TakeSend(c) PROVE Core'
  <2>1. /\ driver = "select" /\ queue # <<>> /\ Head(queue) = Send(c)
        /\ queue' = Tail(queue) /\ Drops(reg)
        /\ UNCHANGED <<pc, packet, expired, mailbox, closer, written, dropped>>
        /\ \/ driver' = "writing" /\ current' = Send(c)
           \/ UNCHANGED <<driver, current>>
    BY <1>1 DEF TakeSend
  <2>2. /\ reg' \in Registries(Packets) /\ Leases' /\ QueuedOnce' /\ DroppedAlone'
        /\ queue' \in Seq(Commands) /\ Len(queue') <= Capacity
    BY <2>1, DriverDrops
  <2>3. Send(c) \in Commands /\ Send(c) # None
    BY CommandsDiffer
  <2>4. TypeOK'
    BY <2>1, <2>2, <2>3 DEF TypeOK, ReceiverGone
  <2>5. EndedTellsAll'
    BY <2>1 DEF EndedTellsAll
  <2> QED
    BY <2>2, <2>4, <2>5
<1>2. ASSUME NEW c \in Calls, WriteDone(c) PROVE Core'
  <2>1. /\ driver = "writing" /\ current = Send(c) /\ written' = written \cup {c}
        /\ driver' = "select" /\ current' = None /\ Drops(reg)
        /\ UNCHANGED <<pc, packet, expired, mailbox, closer, queue, dropped>>
    BY <1>2 DEF WriteDone
  <2>2. /\ reg' \in Registries(Packets) /\ Leases' /\ QueuedOnce' /\ DroppedAlone'
        /\ queue' \in Seq(Commands) /\ Len(queue') <= Capacity
    BY <2>1, DriverDrops
  <2>3. TypeOK'
    BY <2>1, <2>2 DEF TypeOK, ReceiverGone
  <2>4. EndedTellsAll'
    BY <2>1 DEF EndedTellsAll
  <2> QED
    BY <2>2, <2>3, <2>4
<1>3. CASE Stop \/ Aborted
  <2>1. /\ driver' \in {"stopped", "ended"} /\ queue' = <<>> /\ current' = None /\ Drops(reg)
        /\ UNCHANGED <<pc, packet, expired, mailbox, closer, written, dropped>>
        /\ driver' = "ended" => dropped
    BY <1>3 DEF Stop, Aborted
  <2>2. /\ reg' \in Registries(Packets) /\ Leases' /\ QueuedOnce' /\ DroppedAlone'
        /\ queue' \in Seq(Commands) /\ Len(queue') <= Capacity
    BY <2>1, DriverDrops
  <2>3. TypeOK'
    BY <2>1, <2>2 DEF TypeOK, ReceiverGone
  <2>4. EndedTellsAll'
    BY <2>1 DEF EndedTellsAll, DroppedAlone, Waits
  <2> QED
    BY <2>2, <2>3, <2>4
<1> QED
  BY <1>1, <1>2, <1>3

\* A close command is taken: no lease notices.
LEMMA TakeCloseStep ==
    ASSUME Core, NEW k \in Closers, TakeClose(k)
    PROVE  Core'
<1> USE DEF Core
<1>1. /\ driver = "select" /\ queue # <<>> /\ Head(queue) = Close(k)
      /\ queue' = Tail(queue) /\ driver' = "closing" /\ current' = Close(k)
      /\ UNCHANGED <<pc, packet, expired, mailbox, closer, written, reg, dropped>>
  BY DEF TakeClose, callVars
<1>2. queue \in Seq(Commands) /\ Len(queue) <= Capacity /\ Distinct(queue) /\ current = None
  BY <1>1 DEF TypeOK, QueuedOnce
<1>3. /\ queue' \in Seq(Commands) /\ Len(queue') <= Len(queue) /\ Distinct(queue')
      /\ Range(queue) = Range(queue') \cup {Close(k)}
  BY <1>1, <1>2, TookHead
<1>4. \A c \in Calls : /\ Send(c) \in Range(queue') <=> Send(c) \in Range(queue)
                       /\ current # Send(c) /\ current' # Send(c)
  BY <1>1, <1>2, <1>3, CommandsDiffer
<1>5. \A d \in Calls : (Waits(d)' <=> Waits(d)) /\ (Held(d)' <=> Held(d))
  BY <1>1, <1>4 DEF Waits, Held
<1>6. Leases'
  BY <1>1, <1>5, SameLeases
<1>7. TypeOK'
  <2>1. Len(queue') <= Capacity
    BY <1>2, <1>3, CapacityType
  <2> QED
    BY <1>1, <1>3, <2>1, CommandsDiffer DEF TypeOK, ReceiverGone
<1>8. QueuedOnce'
  BY <1>1, <1>3, <1>4 DEF QueuedOnce
<1>9. DroppedAlone' /\ EndedTellsAll'
  BY <1>1, <1>5 DEF DroppedAlone, EndedTellsAll
<1> QED
  BY <1>6, <1>7, <1>8, <1>9
\* A response completes the exchange of the call that its entry names, and the
\* entry keeps its identifier until the lease goes.
LEMMA DeliverStep ==
    ASSUME Core, WrittenSealed,
           NEW c \in Calls, NEW code \in ReplyCodes, NEW ma \in {"valid", "absent"},
           Deliver(c, code, ma)
    PROVE  Core'
<1> USE RadsecClientAssumption DEF Core, Leases
<1> DEFINE r == [id |-> packet[c].id, code |-> code, auth |-> packet[c].auth, ma |-> ma]
           d == Completes(reg, Server, r)
           i == packet[c].id
<1>1. /\ driver = "select" /\ c \in written /\ d # None
      /\ reg' = Taken(reg, Server, i)
      /\ mailbox' = IF Waits(d) THEN [mailbox EXCEPT ![d] = Ok(r)] ELSE mailbox
      /\ UNCHANGED <<pc, packet, expired, closer, queue, driver, current, written, dropped>>
  BY DEF Deliver, driverVars
<1>2. packet[c] \in Packets /\ i \in Ids /\ reg \in Registries(Packets)
  BY <1>1 DEF WrittenSealed, TypeOK, Packets
<1>3. r \in Responses /\ r.id = i
  BY <1>2 DEF Packets, Responses
<1> HIDE DEF r
<1>4. reg.pending[Server][i] # None /\ d = reg.pending[Server][i].call
  BY <1>1, <1>3, CompletesIs
<1>5. d \in Calls /\ i \in InUse(reg, Server)
  BY <1>2, <1>4 DEF Registries, Entries, InUse
<1> HIDE DEF d
<1>6. Held(d) /\ packet[d].id = i
  BY <1>4, <1>5 DEF NoLeak
<1> HIDE DEF i
<1>7. /\ reg' \in Registries(Packets)
      /\ reg'.pending[Server][i] = [reg.pending[Server][i] EXCEPT !.sender = FALSE]
      /\ \A j \in Ids : j # i => reg'.pending[Server][j] = reg.pending[Server][j]
  BY <1>1, <1>2, <1>4, TakenIs
<1>8. reg'.pending[Server][i] # None /\ reg'.pending[Server][i].call = d
  <2>1. reg.pending[Server][i] \in Entries(Packets)
    BY <1>2, <1>4 DEF Registries
  <2>2. /\ [reg.pending[Server][i] EXCEPT !.sender = FALSE] \in Entries(Packets)
        /\ [reg.pending[Server][i] EXCEPT !.sender = FALSE].call = d
    BY <1>4, <2>1, SenderUsed
  <2>3. None \notin Entries(Packets)
    BY RadsecOptionAssumption
  <2> QED
    BY <1>7, <2>2, <2>3
<1>9. /\ mailbox' \in [Calls -> Mail \cup {None}]
      /\ Waits(d) => mailbox'[d] # None
      /\ \A f \in Calls : mailbox[f] # None => mailbox'[f] # None
  <2>1. Ok(r) \in Mail /\ Ok(r) # None
    BY <1>3, MailDiffers
  <2>2. mailbox \in [Calls -> Mail \cup {None}]
    BY DEF TypeOK
  <2>3. CASE Waits(d)
    <3>1. mailbox' = [mailbox EXCEPT ![d] = Ok(r)]
      BY <1>1, <2>3
    <3> QED
      BY <1>5, <2>1, <2>2, <3>1
  <2>4. CASE ~Waits(d)
    BY <1>1, <2>2, <2>4
  <2> QED
    BY <2>3, <2>4
<1>10. \A f \in Calls : (Waits(f)' <=> Waits(f)) /\ (Held(f)' <=> Held(f))
  BY <1>1 DEF Waits, Held
<1>11. TypeOK'
  BY <1>1, <1>7, <1>9 DEF TypeOK, ReceiverGone
<1>12. Linked'
  <2> SUFFICES ASSUME NEW f \in Calls, Held(f)'
               PROVE  /\ packet'[f] \in Packets
                      /\ reg'.pending[Server][packet'[f].id] # None
                      /\ reg'.pending[Server][packet'[f].id].call = f
                      /\ (Waits(f)' /\ ~reg'.pending[Server][packet'[f].id].sender)
                            => mailbox'[f] # None
    BY DEF Linked, Entry
  <2>1. /\ Held(f) /\ packet'[f] = packet[f] /\ packet[f].id \in Ids /\ packet[f] \in Packets
        /\ reg.pending[Server][packet[f].id].call = f
    BY <1>1, <1>10, HeldTypes DEF Linked, Entry
  <2>2. CASE packet[f].id = i
    <3>1. f = d
      BY <1>4, <2>1, <2>2
    <3> QED
      BY <1>8, <1>9, <1>10, <2>1, <2>2, <3>1
  <2>3. CASE packet[f].id # i
    <3>1. reg'.pending[Server][packet[f].id] = reg.pending[Server][packet[f].id]
      BY <1>7, <2>1, <2>3
    <3> QED
      BY <1>9, <1>10, <2>1, <3>1 DEF Linked, Entry
  <2> QED
    BY <2>2, <2>3
<1>13. InUse(reg', Server) = InUse(reg, Server)
  BY <1>4, <1>7, <1>8 DEF InUse
<1>14. NoLeak'
  <2> SUFFICES ASSUME NEW j \in InUse(reg', Server), NEW f \in Calls,
                      reg'.pending[Server][j].call = f
               PROVE  Held(f)' /\ packet'[f].id = j
    BY DEF NoLeak
  <2>1. j \in InUse(reg, Server) /\ reg.pending[Server][j].call = f
    BY <1>4, <1>7, <1>8, <1>13 DEF InUse
  <2>2. Held(f) /\ packet[f].id = j
    BY <2>1 DEF NoLeak
  <2> QED
    BY <1>1, <1>10, <2>2
<1>15. WithinLimit'
  BY <1>13 DEF WithinLimit
<1>16. QueuedOnce'
  BY <1>1 DEF QueuedOnce
<1>17. DroppedAlone' /\ EndedTellsAll'
  BY <1>1, <1>10 DEF DroppedAlone, EndedTellsAll
<1> QED
  BY <1>11, <1>12, <1>14, <1>15, <1>16, <1>17

-----------------------------------------------------------------------------
(* The registry closes: the driver ends, close is called or the client is  *)
(* dropped.                                                                *)

LEMMA ShutActions ==
    ASSUME Core, End \/ (\E k \in Closers : CloseBegin(k)) \/ DropClient
    PROVE  Core'
<1> USE DEF Core, driverVars
<1> DEFINE Shuts ==
        /\ ShutDown
        /\ UNCHANGED <<pc, packet, expired, queue, current, written>>
        /\ \A k \in Closers : closer[k] = closer'[k] \/ closer[k] = "idle"
        /\ closer' \in [Closers -> {"idle", "queueing", "waiting", "done"}]
        /\ \/ UNCHANGED driver
           \/ driver = "stopped" /\ driver' = "ended"
        /\ \/ UNCHANGED dropped
           \/ dropped' = TRUE /\ \A c \in Calls : ~Waits(c)
<1>1. Shuts
  <2>1. CASE End
    BY <2>1 DEF End, TypeOK
  <2>2. ASSUME NEW k \in Closers, CloseBegin(k) PROVE Shuts
    BY <2>2 DEF CloseBegin, TypeOK
  <2>3. CASE DropClient
    BY <2>3 DEF DropClient, TypeOK
  <2> QED
    BY <2>1, <2>2, <2>3
<1>2. \A d \in Calls : (Waits(d)' <=> Waits(d)) /\ (Held(d)' <=> Held(d))
  BY <1>1 DEF Waits, Held
<1>3. /\ reg' \in Registries(Packets) /\ mailbox' \in [Calls -> Mail \cup {None}]
      /\ \A c \in Calls : Waits(c) => mailbox'[c] # None
      /\ Leases'
  BY <1>1, <1>2, ShutStep
<1>4. TypeOK'
  BY <1>1, <1>3 DEF TypeOK, ReceiverGone
<1>5. QueuedOnce'
  BY <1>1 DEF QueuedOnce
<1>6. DroppedAlone'
  BY <1>1, <1>2 DEF DroppedAlone
<1>7. EndedTellsAll'
  BY <1>1, <1>3 DEF EndedTellsAll, Waits
<1> QED
  BY <1>3, <1>4, <1>5, <1>6, <1>7
LEMMA CloseEnqueueStep ==
    ASSUME Core, NEW k \in Closers, CloseEnqueue(k)
    PROVE  Core'
<1> USE DEF Core
<1>1. /\ closer[k] = "queueing" /\ ~ReceiverGone /\ Len(queue) < Capacity
      /\ queue' = Append(queue, Close(k)) /\ closer' = [closer EXCEPT ![k] = "waiting"]
      /\ UNCHANGED <<pc, packet, expired, mailbox, driver, current, written, reg, dropped>>
  BY DEF CloseEnqueue, callVars
<1>2. Close(k) \notin Range(queue) /\ Close(k) \in Commands /\ queue \in Seq(Commands)
  BY <1>1, CommandsDiffer DEF QueuedOnce, TypeOK
<1>3. /\ queue' \in Seq(Commands) /\ Len(queue') = Len(queue) + 1
      /\ Range(queue') = Range(queue) \cup {Close(k)} /\ Distinct(queue')
  BY <1>1, <1>2, Appended DEF QueuedOnce
<1>4. closer'[k] = "waiting" /\ \A l \in Closers \ {k} : closer'[l] = closer[l]
  BY <1>1 DEF TypeOK
<1>5. \A d \in Calls : Send(d) \in Range(queue') <=> Send(d) \in Range(queue)
  BY <1>3, CommandsDiffer
<1>6. \A d \in Calls : (Waits(d)' <=> Waits(d)) /\ (Held(d)' <=> Held(d))
  BY <1>1, <1>5 DEF Waits, Held
<1>7. TypeOK'
  <2>1. Len(queue') <= Capacity
    BY <1>1, <1>2, <1>3, CapacityType
  <2>2. closer' \in [Closers -> {"idle", "queueing", "waiting", "done"}]
    BY <1>1 DEF TypeOK
  <2> QED
    BY <1>1, <1>3, <2>1, <2>2 DEF TypeOK, ReceiverGone
<1>8. Leases'
  BY <1>1, <1>6, SameLeases
<1>9. QueuedOnce'
  <2>1. \A d \in Calls :
            (Send(d) \in Range(queue') \/ current' = Send(d)) => pc'[d] \in {"waiting", "done"}
    BY <1>1, <1>5 DEF QueuedOnce
  <2>2. \A l \in Closers : Close(l) \in Range(queue') => closer'[l] \in {"waiting", "done"}
    BY <1>3, <1>4, CommandsDiffer DEF QueuedOnce
  <2> QED
    BY <1>3, <2>1, <2>2 DEF QueuedOnce
<1>10. DroppedAlone' /\ EndedTellsAll'
  BY <1>1, <1>6 DEF DroppedAlone, EndedTellsAll
<1> QED
  BY <1>7, <1>8, <1>9, <1>10

-----------------------------------------------------------------------------
(* The invariant, and what follows from it.                                *)

LEMMA WrittenStep ==
    ASSUME IInv, [Next]_vars
    PROVE  WrittenSealed'
<1> USE DEF IInv, callVars, driverVars
<1>1. ASSUME NEW c \in Calls, Register(c) PROVE WrittenSealed'
  <2>1. /\ packet' = [packet EXCEPT ![c] = Seal(c, FreeId(reg, Server))]
        /\ UNCHANGED written /\ Refusal(reg, Server) = None
    BY <1>1 DEF Register
  <2>2. InUse(reg, Server) # Ids
    BY <2>1, NotRefused
  <2>3. FreeId(reg, Server) \in Ids
    BY <2>2, FreeIdIsFree, RadsecClientAssumption DEF Core, TypeOK
  <2>4. Seal(c, FreeId(reg, Server)) \in Packets
    BY <2>3 DEF Seal, Packets
  <2> QED
    BY <2>1, <2>4 DEF WrittenSealed, Core, TypeOK
<1>2. ASSUME NEW c \in Calls, WriteDone(c) PROVE WrittenSealed'
  <2>1. Held(c) /\ UNCHANGED packet /\ written' = written \cup {c}
    BY <1>2 DEF WriteDone, Held
  <2> QED
    BY <2>1 DEF WrittenSealed, Core, Leases, Linked
<1>3. ASSUME UNCHANGED <<packet, written>> PROVE WrittenSealed'
  BY <1>3 DEF WrittenSealed
<1>4. ASSUME NEW c \in Calls, Refuse(c) \/ CallStep(c) \/ Cancel(c)
      PROVE  UNCHANGED <<packet, written>>
  BY <1>4 DEF Refuse, CallStep, Cancel, Enqueue, EnqueueFails, Receive, TimeOut, Expire, Finish
<1>5. ASSUME NEW c \in Calls, NEW code \in ReplyCodes, NEW ma \in {"valid", "absent"},
             Deliver(c, code, ma)
      PROVE  UNCHANGED <<packet, written>>
  BY <1>5 DEF Deliver
<1>6. ASSUME \/ TakeCommand \/ NakDone \/ Stop \/ End \/ Aborted
             \/ DynamicRequest \/ DropClient \/ UNCHANGED vars
      PROVE  UNCHANGED <<packet, written>>
  BY <1>6 DEF TakeCommand, TakeSend, TakeClose, NakDone, Stop, End, Aborted, DynamicRequest,
              DropClient, vars
<1>7. ASSUME NEW k \in Closers, CloseBegin(k) \/ CloserStep(k) \/ CloseGivesUp(k)
      PROVE  UNCHANGED <<packet, written>>
  BY <1>7 DEF CloseBegin, CloserStep, CloseEnqueue, CloseReturns, CloseGivesUp
<1> QED
  BY <1>1, <1>2, <1>3, <1>4, <1>5, <1>6, <1>7 DEF Next, DriverStep

LEMMA InitInv == Init => IInv
<1> SUFFICES ASSUME Init PROVE IInv
  OBVIOUS
<1> USE RadsecClientAssumption DEF Init
<1>1. reg \in Registries(Packets) /\ \A i \in Ids : reg.pending[Server][i] = None
  BY ExchangeAssumption DEF EmptyRegistry, Registries, Ids
<1>2. TypeOK
  <2>1. queue \in Seq(Commands) /\ Len(queue) <= Capacity
    BY CapacityType
  <2>2. /\ pc \in [Calls -> {"idle", "queueing", "waiting", "done"}]
        /\ closer \in [Closers -> {"idle", "queueing", "waiting", "done"}]
    OBVIOUS
  <2> QED
    BY <1>1, <2>1, <2>2 DEF TypeOK, ReceiverGone
<1>3. \A c \in Calls : ~Held(c) /\ ~Waits(c)
  BY CommandsDiffer DEF Held, Waits, Range
<1>4. Leases
  <2>1. InUse(reg, Server) = {}
    BY <1>1 DEF InUse
  <2> QED
    BY <1>3, <2>1, FS_EmptySet, ExchangeAssumption DEF Leases, Linked, NoLeak, WithinLimit
<1>5. QueuedOnce
  BY CommandsDiffer DEF QueuedOnce, Distinct, Range
<1>6. DroppedAlone /\ EndedTellsAll /\ WrittenSealed
  BY DEF DroppedAlone, EndedTellsAll, WrittenSealed
<1> QED
  BY <1>2, <1>4, <1>5, <1>6 DEF IInv, Core

LEMMA StepInv == IInv /\ [Next]_vars => IInv'
<1> SUFFICES ASSUME IInv, [Next]_vars PROVE IInv'
  OBVIOUS
<1>1. WrittenSealed'
  BY WrittenStep
<1>2. Core /\ WrittenSealed
  BY DEF IInv
<1>3. Core'
  <2>1. ASSUME NEW c \in Calls, Register(c) \/ Refuse(c) \/ CallStep(c) \/ Cancel(c)
        PROVE  Core'
    <3>1. CASE Register(c)
      BY <1>2, <3>1, RegisterStep
    <3>2. CASE Refuse(c) \/ Expire(c)
      BY <1>2, <3>2, QuietActions
    <3>3. CASE Enqueue(c)
      BY <1>2, <3>3, EnqueueStep
    <3>4. CASE EnqueueFails(c) \/ Receive(c) \/ TimeOut(c) \/ Cancel(c)
      <4>1. Waits(c) /\ Finish(c)
        BY <3>4 DEF EnqueueFails, Receive, TimeOut, Cancel, Waits
      <4> QED
        BY <1>2, <4>1, FinishStep
    <3> QED
      BY <2>1, <3>1, <3>2, <3>3, <3>4 DEF CallStep
  <2>2. ASSUME NEW c \in Calls, NEW code \in ReplyCodes, NEW ma \in {"valid", "absent"},
               Deliver(c, code, ma)
        PROVE  Core'
    BY <1>2, <2>2, DeliverStep
  <2>3. CASE TakeCommand
    BY <1>2, <2>3, DriverDropActions, TakeCloseStep DEF TakeCommand
  <2>4. CASE DriverStep \/ Stop
    <3>1. CASE NakDone
      BY <1>2, <3>1, QuietActions
    <3>2. CASE End
      BY <1>2, <3>2, ShutActions
    <3>3. CASE (\E c \in Calls : WriteDone(c)) \/ Stop \/ Aborted
      BY <1>2, <3>3, DriverDropActions
    <3> QED
      BY <2>4, <3>1, <3>2, <3>3 DEF DriverStep
  <2>5. ASSUME NEW k \in Closers, CloseBegin(k) \/ CloserStep(k) \/ CloseGivesUp(k)
        PROVE  Core'
    BY <1>2, <2>5, ShutActions, CloseEnqueueStep, QuietActions DEF CloserStep
  <2>6. CASE DropClient
    BY <1>2, <2>6, ShutActions
  <2>7. CASE DynamicRequest \/ UNCHANGED vars
    BY <1>2, <2>7, QuietActions
  <2> QED
    BY <2>1, <2>2, <2>3, <2>4, <2>5, <2>6, <2>7 DEF Next
<1> QED
  BY <1>1, <1>3 DEF IInv

\* The invariant of the client holds in every state it can reach, whatever
\* calls, close calls, the server and the runtime do.
THEOREM Invariance == Spec => []IInv
<1> QED
  BY InitInv, StepInv, PTL DEF Spec
\* LeasesSound: identifiers in use are exactly those of held leases, no two of
\* which share one, and the channel of send (radsec.rs) has room for every call
\* that holds one, since a call queues one command and the limit on identifiers
\* is also the capacity of the channel.
THEOREM LeasesSoundHolds == Spec => []LeasesSound
<1>1. IInv => LeasesSound
  <2> SUFFICES ASSUME IInv PROVE LeasesSound
    OBVIOUS
  <2> USE DEF IInv, Core, Leases
  <2>1. LeasesExact
    <3>1. ASSUME NEW c \in Calls, NEW d \in Calls, Held(c), Held(d), c # d
          PROVE  packet[c].id # packet[d].id
      BY <3>1 DEF Linked, Entry
    <3>2. ASSUME NEW i \in Ids, reg.pending[Server][i] # None
          PROVE  \E c \in Calls : Held(c) /\ packet[c].id = i
      <4>1. reg.pending[Server][i].call \in Calls /\ i \in InUse(reg, Server)
        BY <3>2, RadsecClientAssumption DEF TypeOK, Registries, Entries, InUse
      <4> QED
        BY <4>1 DEF NoLeak
    <3>3. ASSUME NEW i \in Ids, NEW c \in Calls, Held(c), packet[c].id = i
          PROVE  reg.pending[Server][i] # None
      BY <3>3 DEF Linked, Entry
    <3> QED
      BY <3>1, <3>2, <3>3 DEF LeasesExact
  <2>2. RoomForEveryCall
    <3> DEFINE queued == {c \in Calls : Send(c) \in Range(queue)}
               queueing == {c \in Calls : pc[c] = "queueing"}
               used == InUse(reg, Server)
               f == [c \in queued \cup queueing |-> packet[c].id]
    <3>1. queued \cap queueing = {}
      BY DEF QueuedOnce
    <3>2. \A c \in queued \cup queueing : c \in Calls /\ Held(c)
      BY DEF Held, Waits
    <3>3. \A c \in queued \cup queueing : f[c] \in used
      BY <3>2, HeldTypes DEF Linked, Entry, InUse
    <3>4. \A c, d \in queued \cup queueing : f[c] = f[d] => c = d
      BY <2>1, <3>2 DEF LeasesExact
    <3> HIDE DEF queued, queueing, used
    <3>5. f \in Injection(queued \cup queueing, used)
      BY <3>3, <3>4 DEF Injection, IsInjective
    <3> HIDE DEF f
    <3>6. IsFiniteSet(used) /\ Cardinality(used) \in Nat /\ Cardinality(used) <= Limit
      BY InUseFinite DEF used, WithinLimit
    <3>7. /\ IsFiniteSet(queued \cup queueing)
          /\ Cardinality(queued \cup queueing) <= Cardinality(used)
      BY <3>5, <3>6, FS_Injection
    <3>8. IsFiniteSet(queued) /\ IsFiniteSet(queueing)
      BY <3>7, FS_Subset
    <3>9. Cardinality(queued \cup queueing) = Cardinality(queued) + Cardinality(queueing)
      <4>1. Cardinality(queued \cup queueing)
                = Cardinality(queued) + Cardinality(queueing) - Cardinality({})
        BY <3>1, <3>8, FS_Union
      <4>2. Cardinality(queued) \in Nat /\ Cardinality(queueing) \in Nat
        BY <3>8, FS_CardinalityType
      <4> QED
        BY <4>1, <4>2, FS_EmptySet
    <3>10. Cardinality(used) <= IdCount
      <4>1. IsFiniteSet(Ids) /\ Cardinality(Ids) = IdCount
        BY ExchangeAssumption, FS_Interval DEF Ids
      <4>2. used \subseteq Ids
        BY DEF used, InUse
      <4> QED
        BY <4>1, <4>2, FS_Subset
    <3>11. Cardinality(used) <= Capacity
      BY <3>6, <3>10, ExchangeAssumption DEF Capacity
    <3>12. Cardinality(queued) + Cardinality(queueing) <= Capacity
      <4>1. Cardinality(queued \cup queueing) \in Nat
        BY <3>7, FS_CardinalityType
      <4> QED
        BY <3>6, <3>7, <3>9, <3>11, <4>1, CapacityType
    <3> QED
      BY <3>12 DEF RoomForEveryCall, QueuedOnce, Distinct, queued, queueing
  <2> QED
    BY <2>1, <2>2 DEF LeasesSound
<1> QED
  BY <1>1, Invariance, PTL

\* EndedTellsAll: once run_connection's task (radsec.rs) has ended, by itself or
\* aborted, no call waits for an answer that nobody will give.
THEOREM EndedTellsAllHolds == Spec => []EndedTellsAll
<1>1. IInv => EndedTellsAll
  BY DEF IInv, Core
<1> QED
  BY <1>1, Invariance, PTL

-----------------------------------------------------------------------------
(* The methods on top of a TLS tunnel.                                     *)

\* The tunnel's record and its parts.
TunType(u) ==
    /\ u \in [tls : {u.tls}, re : {u.re}, tx : {u.tx}, mtu : {u.mtu}, done : {u.done},
              msg : {u.msg}, err : {u.err}]
    /\ u.tls \in [v : {u.tls.v}, k : {u.tls.k}, in : {u.tls.in}, out : {u.tls.out},
                  written : {u.tls.written}]
    /\ u.tls.v \in DOMAIN ServerLen /\ u.tls.k \in 0 .. Len(PeerLen)
    /\ u.tls.out \in Seq(Nat) /\ u.tls.written \in Nat
    /\ u.tx \in [bytes : {u.tx.bytes}, offset : {u.tx.offset}]
    /\ u.tx.bytes \in Seq(Nat) /\ u.tx.offset \in 0 .. Len(u.tx.bytes)
    /\ u.tx.offset = Len(u.tx.bytes) => u.tx.bytes = <<>>
    /\ u.mtu \in Nat \ {0} /\ u.done \in BOOLEAN

\* What is pending and what the engine has yet to hand over continue the
\* stream after its first n bytes.
Flow(u, n) ==
    /\ \A i \in 1 .. Len(u.tx.bytes) : u.tx.bytes[i] + u.tx.offset = n + i
    /\ \A i \in 1 .. Len(u.tls.out) :
          u.tls.out[i] + u.tx.offset = n + Len(u.tx.bytes) + i
    /\ u.tls.written + u.tx.offset = n + Len(u.tx.bytes) + Len(u.tls.out)

Upto(s, n) == \A i \in 1 .. Len(s) : s[i] <= n
Above(s, n) == \A i \in 1 .. Len(s) : s[i] > n

\* The payload of the frame that was sent last.
Last == IF said.k = "continue" THEN Tun!Parse(said.msg).payload ELSE <<>>

\* The stream: what was sent, is pending, and is to come; and where the
\* conversation stands when the engine has output that is not pending yet.
StreamInv ==
    /\ method \in {"TLS", "TTLS", "PEAP"} /\ TunType(tun)
    /\ heard \in Nat /\ orderly \in BOOLEAN
    /\ at \in {"idle", "drive", "drain", "flush", "inner", "conclude"}
    /\ said.k \in {"continue", "success", "failure", "error"}
    /\ at # "idle" => said.k = "continue"
    /\ orderly => Flow(tun, heard)
    /\ method = "TLS" => orderly
    /\ (at = "idle" /\ said.k = "continue") \/ at = "drive" => tun.tls.out = <<>>
    /\ at \in {"inner", "conclude"} => tun.tx.bytes = <<>>

\* The states of EAP-TLS, and what it has sent when it succeeds.
EapTlsInv ==
    /\ DOMAIN own = DOMAIN Tun!NewMethod
    /\ method = "TLS" =>
        /\ at \in {"idle", "drive", "flush"}
        /\ at = "idle" /\ said.k = "continue" =>
              \/ own.st = "AwaitingFragmentAck" /\ Tun!HasPendingTx(tun)
              \/ own.st = "AwaitingFinalAck" /\ ~Tun!HasPendingTx(tun) /\ tun.done
              \/ own.st = "Handshaking" /\ ~Tun!HasPendingTx(tun)
        /\ at \in {"drive", "flush"} => own.st = "Handshaking" /\ tun.tx.bytes = <<>>
        /\ at = "flush" /\ tun.msg = None => tun.tls.out = <<>>
        /\ said.k = "success" => tun.done /\ tun.tx.bytes = <<>> /\ tun.tls.out = <<>>

\* The inner methods: a verdict is of what they have verified.
VerdictInv ==
    /\ DOMAIN own = DOMAIN Tun!NewMethod /\ DOMAIN own.inner = DOMAIN Tun!NewInner
    /\ method # "TLS" =>
        /\ own.term # None => tun.done
        /\ own.term = "success" => Tun!SecretOf(own.authed) # None
        /\ said.k = "success" => own.term = "success" /\ tun.tx.bytes = <<>> /\ tun.tls.out = <<>>
    /\ method = "PEAP" =>
        /\ own.rx # <<>> \/ own.started => tun.done
        /\ own.term # None => own.started
        /\ own.inner.state = "AwaitingSuccessAck" => Tun!SecretOf(own.inner.authed) # None
        /\ own.term = "success" =>
              /\ own.inner.state = "AwaitingSuccessAck" /\ own.authed = own.inner.authed
              /\ own.last.typ = "TLV"

\* Once the handshake is done with f bytes written, the last frame, l, what is
\* pending and what is to come are of the handshake or came after it.  Inside,
\* where nothing is pending, what is to come came after it.
Flown(l, u, f, inside) ==
    /\ f \in Nat /\ l \in Seq(Nat)
    /\ Upto(l, u.tls.written) /\ Upto(u.tx.bytes, u.tls.written) /\ Upto(u.tls.out, u.tls.written)
    /\ u.done =>
        /\ f <= u.tls.written
        /\ \/ inside /\ (Upto(l, f) \/ Above(l, f)) /\ Above(u.tls.out, f)
           \/ ~inside /\ Upto(l, f) /\ Upto(u.tx.bytes, f) /\ Upto(u.tls.out, f)
           \/ ~inside /\ Above(l, f) /\ Above(u.tx.bytes, f) /\ Above(u.tls.out, f)

FlightInv == Flown(Last, tun, shook, at \in {"inner", "conclude"})

TunInv == StreamInv /\ EapTlsInv /\ VerdictInv /\ FlightInv

\* SuccessEarned but for what the peer is: everything that was written is out,
\* and heard if it was in order.
Earned ==
    said.k = "success" =>
        /\ tun.done /\ ~Tun!HasPendingTx(tun) /\ tun.tls.out = <<>>
        /\ orderly => heard = tun.tls.written
        /\ method # "TLS" => own.term = "success" /\ Tun!SecretOf(own.authed) # None
        /\ method = "PEAP" => own.inner.state = "AwaitingSuccessAck" /\ own.authed = own.inner.authed

\* The order of the stream is lost only where a refill finds a message of which
\* some fragments are out, and never in EAP-TLS.
LostOnlyByRefill ==
    [][orderly /\ ~orderly' => method # "TLS" /\ tun.tx.offset > 0]_Tun!vars

\* The stream that the operations of a tunnel leave.

\* u is t after n bytes more were written.
Longer(t, n) == t.tls.out \o [j \in 1 .. n |-> t.tls.written + j]
Wrote(t, u, n) ==
    /\ u.tx = t.tx /\ u.mtu = t.mtu /\ u.msg = t.msg
    /\ u.tls.out = Longer(t, n)
    /\ u.tls.written = t.tls.written + n

LEMMA Count ==
    ASSUME NEW n \in Nat, NEW w \in Nat
    PROVE  LET s == [i \in 1 .. n |-> w + i]
           IN s \in Seq(Nat) /\ Len(s) = n /\ (n = 0 => s = <<>>)
OBVIOUS

\* Records, field by field.
LEMMA EngineSets ==
    ASSUME NEW v, NEW k, NEW i, NEW o, NEW w, NEW x, NEW y,
           NEW l \in [v : {v}, k : {k}, in : {i}, out : {o}, written : {w}]
    PROVE  /\ [l EXCEPT !.out = x, !.written = y]
                    \in [v : {v}, k : {k}, in : {i}, out : {x}, written : {y}]
           /\ [l EXCEPT !.in = x] \in [v : {v}, k : {k}, in : {x}, out : {o}, written : {w}]
           /\ [l EXCEPT !.out = x] \in [v : {v}, k : {k}, in : {i}, out : {x}, written : {w}]
           /\ [l EXCEPT !.k = x, !.in = y] \in [v : {v}, k : {x}, in : {y}, out : {o}, written : {w}]
OBVIOUS

LEMMA TunnelSets ==
    ASSUME NEW l, NEW r, NEW x, NEW n, NEW d, NEW g, NEW e, NEW p, NEW q, NEW z,
           NEW t \in [tls : {l}, re : {r}, tx : {x}, mtu : {n}, done : {d}, msg : {g}, err : {e}]
    PROVE  /\ [t EXCEPT !.tls = p]
                \in [tls : {p}, re : {r}, tx : {x}, mtu : {n}, done : {d}, msg : {g}, err : {e}]
           /\ [t EXCEPT !.tx = p]
                \in [tls : {l}, re : {r}, tx : {p}, mtu : {n}, done : {d}, msg : {g}, err : {e}]
           /\ [t EXCEPT !.tx = p, !.tls = q]
                \in [tls : {q}, re : {r}, tx : {p}, mtu : {n}, done : {d}, msg : {g}, err : {e}]
           /\ [t EXCEPT !.tls = p, !.done = q]
                \in [tls : {p}, re : {r}, tx : {x}, mtu : {n}, done : {q}, msg : {g}, err : {e}]
           /\ [t EXCEPT !.re = p, !.msg = q, !.err = z]
                \in [tls : {l}, re : {p}, tx : {x}, mtu : {n}, done : {d}, msg : {q}, err : {z}]
OBVIOUS

\* A tunnel with another engine, that has written n bytes more.
LEMMA EngineMoves ==
    ASSUME NEW t, TunType(t), NEW u, NEW n \in Nat, NEW k \in 0 .. Len(PeerLen), NEW i, NEW d \in BOOLEAN,
           NEW l \in [v : {t.tls.v}, k : {k}, in : {i},
                      out : {Longer(t, n)},
                      written : {t.tls.written + n}],
           u \in [tls : {l}, re : {t.re}, tx : {t.tx}, mtu : {t.mtu}, done : {d}, msg : {t.msg},
                  err : {t.err}]
    PROVE  TunType(u) /\ Wrote(t, u, n) /\ u.tls = l /\ u.done = d /\ u.err = t.err
<1> DEFINE s == [j \in 1 .. n |-> t.tls.written + j]
           o == Longer(t, n)
<1>1. s \in Seq(Nat) /\ o \in Seq(Nat) /\ t.tls.written + n \in Nat
  BY Count, ConcatProperties DEF TunType, Longer
<1> HIDE DEF o, s
<1>2. u.tls = l /\ u.tx = t.tx /\ u.mtu = t.mtu /\ u.done = d /\ u.msg = t.msg /\ u.re = t.re /\ u.err = t.err
  OBVIOUS
<1>3. l.v = t.tls.v /\ l.k = k /\ l.in = i /\ l.out = o /\ l.written = t.tls.written + n
  BY DEF o
<1>4. Wrote(t, u, n)
  BY <1>2, <1>3 DEF Wrote, o
<1>5. u \in [tls : {u.tls}, re : {u.re}, tx : {u.tx}, mtu : {u.mtu}, done : {u.done},
             msg : {u.msg}, err : {u.err}]
  BY <1>2
<1>6. u.tls \in [v : {u.tls.v}, k : {u.tls.k}, in : {u.tls.in}, out : {u.tls.out},
                 written : {u.tls.written}]
  BY <1>2, <1>3 DEF o
<1>7. TunType(u)
  BY <1>1, <1>2, <1>3, <1>5, <1>6 DEF TunType
<1> QED
  BY <1>2, <1>4, <1>7

LEMMA WritesTls ==
    ASSUME NEW t, TunType(t), NEW n,
           NEW k, NEW i, NEW l \in [v : {t.tls.v}, k : {k}, in : {i}, out : {t.tls.out},
                                    written : {t.tls.written}]
    PROVE  Tun!Write(l, n) \in [v : {t.tls.v}, k : {k}, in : {i},
                                out : {Longer(t, n)},
                                written : {t.tls.written + n}]
<1> DEFINE x == Longer(t, n)
<1>0. l.out = t.tls.out /\ l.written = t.tls.written
  OBVIOUS
<1>1. Tun!Write(l, n) = [l EXCEPT !.out = x, !.written = t.tls.written + n]
  BY <1>0 DEF Tun!Write, Longer
<1>2. [l EXCEPT !.out = x, !.written = t.tls.written + n]
        \in [v : {t.tls.v}, k : {k}, in : {i}, out : {x}, written : {t.tls.written + n}]
  OBVIOUS
<1> QED
  BY <1>1, <1>2, Zenon

LEMMA EmptyEnd ==
    ASSUME NEW s \in Seq(Nat), NEW w
    PROVE  s \o [j \in 1 .. 0 |-> w + j] = s
<1>1. [j \in 1 .. 0 |-> w + j] = <<>>
  OBVIOUS
<1> QED
  BY <1>1, ConcatEmptySeq

\* write_app_data: a record after what is there.
LEMMA AppDataIs ==
    ASSUME NEW t, TunType(t), NEW n \in Nat
    PROVE  LET u == Tun!WriteAppData(t, n)
           IN TunType(u) /\ Wrote(t, u, n) /\ u.done = t.done
<1> DEFINE l == Tun!Write(t.tls, n)
           u == Tun!WriteAppData(t, n)
<1>1. l \in [v : {t.tls.v}, k : {t.tls.k}, in : {t.tls.in},
             out : {Longer(t, n)}, written : {t.tls.written + n}]
  <2>1. t.tls \in [v : {t.tls.v}, k : {t.tls.k}, in : {t.tls.in}, out : {t.tls.out},
                   written : {t.tls.written}]
    BY DEF TunType
  <2> QED
    BY <2>1, WritesTls
<1>2. u = [t EXCEPT !.tls = l]
  BY DEF Tun!WriteAppData
<1> HIDE DEF l
<1>3. [t EXCEPT !.tls = l] \in [tls : {l}, re : {t.re}, tx : {t.tx}, mtu : {t.mtu}, done : {t.done}, msg : {t.msg},
             err : {t.err}]
  BY TunnelSets, Zenon DEF TunType
<1>4. t.tls.k \in 0 .. Len(PeerLen) /\ t.done \in BOOLEAN
  BY DEF TunType
<1> HIDE DEF u
<1>5. u \in [tls : {l}, re : {t.re}, tx : {t.tx}, mtu : {t.mtu}, done : {t.done}, msg : {t.msg},
             err : {t.err}]
  BY <1>2, <1>3, Zenon
<1> DEFINE k == t.tls.k
           i == t.tls.in
           d == t.done
<1>6. /\ k \in 0 .. Len(PeerLen) /\ d \in BOOLEAN
      /\ l \in [v : {t.tls.v}, k : {k}, in : {i}, out : {Longer(t, n)}, written : {t.tls.written + n}]
      /\ u \in [tls : {l}, re : {t.re}, tx : {t.tx}, mtu : {t.mtu}, done : {d}, msg : {t.msg},
                err : {t.err}]
  BY <1>1, <1>4, <1>5
<1> HIDE DEF k, i, d
<1>7. TunType(u) /\ Wrote(t, u, n) /\ u.done = d
  BY <1>6, EngineMoves
<1> QED
  BY <1>7 DEF u, d

\* ingest_peer_frame leaves the stream alone.
LEMMA IngestedIs ==
    ASSUME NEW t, TunType(t), NEW td
    PROVE  LET u == Tun!IngestPeerFrame(t, td)
           IN TunType(u) /\ u.tls = t.tls /\ u.tx = t.tx /\ u.done = t.done /\ u.mtu = t.mtu
<1> DEFINE in == Tun!Ingest(t.re, td)
           u == Tun!IngestPeerFrame(t, td)
<1>1. u = [t EXCEPT !.re = in.r, !.msg = in.msg, !.err = in.err]
  BY DEF Tun!IngestPeerFrame
<1>2. u \in [tls : {t.tls}, re : {in.r}, tx : {t.tx}, mtu : {t.mtu}, done : {t.done}, msg : {in.msg},
             err : {in.err}]
  <2>1. [t EXCEPT !.re = in.r, !.msg = in.msg, !.err = in.err]
          \in [tls : {t.tls}, re : {in.r}, tx : {t.tx}, mtu : {t.mtu}, done : {t.done}, msg : {in.msg},
               err : {in.err}]
    BY TunnelSets DEF TunType
  <2> QED
    BY <1>1, <2>1, Zenon
<1> HIDE DEF u, in
<1>3. u.tls = t.tls /\ u.tx = t.tx /\ u.done = t.done /\ u.mtu = t.mtu
  BY <1>2
<1>4. u \in [tls : {u.tls}, re : {u.re}, tx : {u.tx}, mtu : {u.mtu}, done : {u.done},
             msg : {u.msg}, err : {u.err}]
  BY <1>2
<1>5. TunType(u)
  BY <1>3, <1>4 DEF TunType
<1> QED
  BY <1>3, <1>5 DEF u

\* drain_decrypted, too.
LEMMA DrainedIs ==
    ASSUME NEW t, TunType(t), ~Tun!Undecryptable(t)
    PROVE  LET u == Tun!Drained(t)
           IN TunType(u) /\ Wrote(t, u, 0) /\ u.done = t.done
<1> DEFINE u == Tun!Drained(t)
           l == [t.tls EXCEPT !.in = <<>>]
<1>1. u = [t EXCEPT !.tls = l]
  BY DEF Tun!Drained
<1>2. l \in [v : {t.tls.v}, k : {t.tls.k}, in : {<<>>}, out : {t.tls.out}, written : {t.tls.written}]
  BY EngineSets, Zenon DEF TunType
<1>3. t.tls.out = Longer(t, 0) /\ t.tls.written = t.tls.written + 0
  BY EmptyEnd DEF TunType, Longer
<1> HIDE DEF l
<1>4. l \in [v : {t.tls.v}, k : {t.tls.k}, in : {<<>>},
             out : {Longer(t, 0)}, written : {t.tls.written + 0}]
  BY <1>2, <1>3
<1>5. u \in [tls : {l}, re : {t.re}, tx : {t.tx}, mtu : {t.mtu}, done : {t.done}, msg : {t.msg},
             err : {t.err}]
  <2>1. [t EXCEPT !.tls = l]
          \in [tls : {l}, re : {t.re}, tx : {t.tx}, mtu : {t.mtu}, done : {t.done}, msg : {t.msg},
               err : {t.err}]
    BY TunnelSets, Zenon DEF TunType
  <2> QED
    BY <1>1, <2>1, Zenon
<1>6. t.tls.k \in 0 .. Len(PeerLen) /\ t.done \in BOOLEAN /\ 0 \in Nat
  BY DEF TunType
<1> HIDE DEF u
<1>7. TunType(u) /\ Wrote(t, u, 0) /\ u.done = t.done
  BY <1>4, <1>5, <1>6, EngineMoves
<1> QED
  BY <1>7 DEF u

\* feed_tls and drive_handshake.
LEMMA DrivenIs ==
    ASSUME Tun!TunnelAssumption, NEW t, TunType(t), ~Tun!FeedAndDrive(t).err
    PROVE  LET u == Tun!FeedAndDrive(t)
           IN /\ TunType(u) /\ \E n \in Nat : Wrote(t, u, n) /\ (t.done => n = 0)
              /\ t.done => u.done
              /\ t.msg = None => u = t
<1> DEFINE u == Tun!FeedAndDrive(t)
           l == t.tls
           fed == [l EXCEPT !.in = l.in \o t.msg]
           p == Tun!Process(fed)
<1>0. /\ l.k \in 0 .. Len(PeerLen) /\ t.done \in BOOLEAN /\ l.v \in DOMAIN ServerLen
      /\ t \in [tls : {l}, re : {t.re}, tx : {t.tx}, mtu : {t.mtu}, done : {t.done}, msg : {t.msg}, err : {t.err}]
      /\ l \in [v : {l.v}, k : {l.k}, in : {l.in}, out : {l.out}, written : {l.written}]
  BY DEF TunType
<1>1. l.out = Longer(t, 0) /\ l.written = l.written + 0
  BY EmptyEnd DEF TunType, Longer
<1>2. fed \in [v : {l.v}, k : {l.k}, in : {l.in \o t.msg}, out : {l.out}, written : {l.written}]
  BY <1>0, EngineSets, Zenon
<1>3. CASE t.err \/ t.msg = None
  <2>1. u = t
    BY <1>3 DEF Tun!FeedAndDrive
  <2>2. Wrote(t, t, 0)
    BY <1>1 DEF Wrote
  <2> QED
    BY <2>1, <2>2
<1>4. CASE ~(t.err \/ t.msg = None) /\ t.done
  <2>1. u = [t EXCEPT !.tls = fed]
    BY <1>4 DEF Tun!FeedAndDrive
  <2> HIDE DEF fed, u, l
  <2>2. [t EXCEPT !.tls = fed]
            \in [tls : {fed}, re : {t.re}, tx : {t.tx}, mtu : {t.mtu}, done : {t.done}, msg : {t.msg}, err : {t.err}]
    BY <1>0, TunnelSets, Zenon
  <2>3. u \in [tls : {fed}, re : {t.re}, tx : {t.tx}, mtu : {t.mtu}, done : {t.done}, msg : {t.msg}, err : {t.err}]
    BY <2>1, <2>2, Zenon
  <2>4. fed \in [v : {t.tls.v}, k : {l.k}, in : {l.in \o t.msg}, out : {Longer(t, 0)}, written : {t.tls.written + 0}]
    BY <1>1, <1>2 DEF l
  <2>5. TunType(u) /\ Wrote(t, u, 0) /\ u.done = t.done
    BY <1>0, <2>3, <2>4, EngineMoves
  <2> QED
    BY <1>4, <2>5 DEF u
<1>5. CASE ~(t.err \/ t.msg = None) /\ ~t.done
  <2>1. ~Tun!Fatal(fed)
    <3>1. SUFFICES ASSUME Tun!Fatal(fed) PROVE FALSE
      OBVIOUS
    <3>2. u = [t EXCEPT !.err = TRUE]
      BY <1>5, <3>1 DEF Tun!FeedAndDrive, Tun!Failed
    <3>3. [t EXCEPT !.err = TRUE].err
      BY <1>0
    <3> QED
      BY <3>2, <3>3
  <2>2. u = [t EXCEPT !.tls = p, !.done = Tun!Established(p)]
    BY <1>5, <2>1 DEF Tun!FeedAndDrive
  <2> DEFINE d == Tun!Established(p)
  <2>3. d \in BOOLEAN
    BY DEF Tun!Established
  <2>4. PICK n \in Nat, k \in 0 .. Len(PeerLen) :
            p \in [v : {t.tls.v}, k : {k}, in : {p.in}, out : {Longer(t, n)}, written : {t.tls.written + n}]
    <3>1. CASE p = fed
      <4>1. p.in = l.in \o t.msg
        BY <1>2, <3>1
      <4>2. p \in [v : {t.tls.v}, k : {l.k}, in : {p.in}, out : {Longer(t, 0)}, written : {t.tls.written + 0}]
        BY <1>1, <1>2, <3>1, <4>1
      <4> QED
        BY <1>0, <4>2
    <3>2. CASE p # fed
      <4> DEFINE k == l.k + 1
                 n == ServerLen[l.v][k]
                 i == Tun!Drop(fed.in, PeerLen[k])
                 q == [fed EXCEPT !.k = k, !.in = i]
      <4>1. fed.k = l.k /\ fed.v = l.v
        BY <1>2
      <4>2. p = Tun!Write(q, n) /\ l.k # Len(PeerLen)
        BY <3>2, <4>1 DEF Tun!Process, Tun!Established
      <4>3. k \in 1 .. Len(PeerLen) /\ n \in Nat
        <5>1. PeerLen \in Seq(Nat \ {0}) /\ ServerLen[l.v] \in Seq(Nat) /\ Len(ServerLen[l.v]) = Len(PeerLen)
          BY <1>0 DEF Tun!TunnelAssumption
        <5>2. Len(PeerLen) \in Nat
          BY <5>1, LenProperties
        <5>3. k \in 1 .. Len(PeerLen)
          BY <1>0, <4>2, <5>2
        <5> QED
          BY <5>1, <5>3, ElementOfSeq
      <4>4. q \in [v : {l.v}, k : {k}, in : {i}, out : {l.out}, written : {l.written}]
        <5> HIDE DEF i, fed
        <5> QED
          BY <1>2, EngineSets, Zenon
      <4> HIDE DEF q, i
      <4>5. Tun!Write(q, n) \in [v : {t.tls.v}, k : {k}, in : {i}, out : {Longer(t, n)}, written : {t.tls.written + n}]
        BY <4>4, WritesTls
      <4>6. k \in 0 .. Len(PeerLen)
        BY <1>0, <4>3
      <4>7. p.in = i
        BY <4>2, <4>5
      <4> QED
        BY <4>2, <4>3, <4>5, <4>6, <4>7, Zenon
    <3> QED
      BY <3>1, <3>2
  <2> HIDE DEF p, u, d, l
  <2>5. [t EXCEPT !.tls = p, !.done = d]
            \in [tls : {p}, re : {t.re}, tx : {t.tx}, mtu : {t.mtu}, done : {d}, msg : {t.msg}, err : {t.err}]
    BY <1>0, TunnelSets, Zenon
  <2>6. u \in [tls : {p}, re : {t.re}, tx : {t.tx}, mtu : {t.mtu}, done : {d}, msg : {t.msg}, err : {t.err}]
    BY <2>2, <2>5, Zenon DEF d
  <2>7. TunType(u) /\ Wrote(t, u, n)
    BY <2>3, <2>4, <2>6, EngineMoves
  <2> QED
    BY <1>5, <2>7 DEF u
<1> QED
  BY <1>3, <1>4, <1>5

\* refill_pending_tx.
LEMMA RefilledIs ==
    ASSUME NEW t, TunType(t)
    PROVE  LET u == Tun!RefillPendingTx(t)
           IN /\ TunType(u) /\ u.done = t.done /\ u.msg = t.msg /\ u.mtu = t.mtu
              /\ u.tx.bytes = t.tx.bytes \o t.tls.out /\ u.tx.offset = 0
              /\ u.tls.out = <<>> /\ u.tls.written = t.tls.written
<1> DEFINE u == Tun!RefillPendingTx(t)
           b == t.tx.bytes \o t.tls.out
           x == [bytes |-> b, offset |-> 0]
           l == [t.tls EXCEPT !.out = <<>>]
<1>1. u = [t EXCEPT !.tx = x, !.tls = l]
  BY DEF Tun!RefillPendingTx
<1>2. l \in [v : {t.tls.v}, k : {t.tls.k}, in : {t.tls.in}, out : {<<>>}, written : {t.tls.written}]
  BY EngineSets, Zenon DEF TunType
<1>3. b \in Seq(Nat) /\ <<>> \in Seq(Nat) /\ Len(b) \in Nat
  <2>1. t.tx.bytes \in Seq(Nat) /\ t.tls.out \in Seq(Nat)
    BY DEF TunType
  <2>2. b \in Seq(Nat)
    BY <2>1, ConcatProperties
  <2> HIDE DEF b
  <2> QED
    BY <2>2, LenProperties
<1>4. Len(b) = 0 => b = <<>>
  BY <1>3, EmptySeq
<1> HIDE DEF b, l
<1>5. x.bytes = b /\ x.offset = 0 /\ x \in [bytes : {x.bytes}, offset : {x.offset}]
  OBVIOUS
<1> HIDE DEF x
<1>6. [t EXCEPT !.tx = x, !.tls = l]
            \in [tls : {l}, re : {t.re}, tx : {x}, mtu : {t.mtu}, done : {t.done}, msg : {t.msg}, err : {t.err}]
  BY TunnelSets, Zenon DEF TunType
<1> HIDE DEF u
<1>7. u \in [tls : {l}, re : {t.re}, tx : {x}, mtu : {t.mtu}, done : {t.done}, msg : {t.msg}, err : {t.err}]
  BY <1>1, <1>6, Zenon
<1>8. u.tls = l /\ u.tx = x /\ u.mtu = t.mtu /\ u.done = t.done /\ u.msg = t.msg
  BY <1>7
<1>9. u \in [tls : {u.tls}, re : {u.re}, tx : {u.tx}, mtu : {u.mtu}, done : {u.done},
             msg : {u.msg}, err : {u.err}]
  BY <1>7
<1>10. /\ l.v = t.tls.v /\ l.k = t.tls.k /\ l.out = <<>> /\ l.written = t.tls.written
       /\ l \in [v : {l.v}, k : {l.k}, in : {l.in}, out : {l.out}, written : {l.written}]
  BY <1>2
<1>11. TunType(u)
  BY <1>3, <1>4, <1>5, <1>8, <1>9, <1>10 DEF TunType
<1> QED
  BY <1>5, <1>8, <1>10, <1>11 DEF u, b

\* A sequence with one element in front.
LEMMA Headed ==
    ASSUME NEW S, NEW b \in S, NEW s \in Seq(S)
    PROVE  LET t == <<b>> \o s
           IN t \in Seq(S) /\ t # <<>> /\ t[1] = b /\ Tail(t) = s
<1> DEFINE t == <<b>> \o s
<1>0. Len(s) \in Nat
  BY LenProperties
<1>1. <<b>> \in Seq(S) /\ Len(<<b>>) = 1 /\ <<b>>[1] = b
  OBVIOUS
<1>2. /\ t \in Seq(S) /\ Len(t) = 1 + Len(s)
      /\ \A i \in 1 .. 1 + Len(s) : t[i] = IF i <= 1 THEN <<b>>[i] ELSE s[i - 1]
  BY <1>1, ConcatProperties
<1> HIDE DEF t
<1>3. t # <<>> /\ t[1] = b
  BY <1>0, <1>1, <1>2
<1>4. Tail(t) \in Seq(S) /\ Len(Tail(t)) = Len(s) /\ \A i \in 1 .. Len(s) : Tail(t)[i] = t[i + 1]
  BY <1>0, <1>2, <1>3, HeadTailProperties
<1>5. \A i \in 1 .. Len(s) : Tail(t)[i] = s[i]
  BY <1>0, <1>2, <1>4
<1>6. Tail(t) = s
  BY <1>4, <1>5, SeqEqual
<1> QED
  BY <1>2, <1>3, <1>6 DEF t

\* What is dropped is what was in front.
LEMMA Dropped ==
    ASSUME NEW S, NEW h \in Seq(S), NEW s \in Seq(S)
    PROVE  Tun!Drop(h \o s, Len(h)) = s
<1> DEFINE t == h \o s
           k == Len(h)
           n == Len(s)
           d == SubSeq(t, k + 1, Len(t))
<1>1. k \in Nat /\ n \in Nat
  BY LenProperties
<1>2. /\ t \in Seq(S) /\ Len(t) = k + n
      /\ \A i \in 1 .. k + n : t[i] = IF i <= k THEN h[i] ELSE s[i - k]
  BY ConcatProperties
<1> HIDE DEF t, k, n
<1>3. \A i \in k + 1 .. k + n : t[i] \in S
  BY <1>1, <1>2, ElementOfSeq
<1>4. /\ SubSeq(t, k + 1, k + n) \in Seq(S)
      /\ Len(SubSeq(t, k + 1, k + n)) = IF k + 1 <= k + n THEN (k + n) - (k + 1) + 1 ELSE 0
      /\ \A i \in 1 .. (k + n) - (k + 1) + 1 : SubSeq(t, k + 1, k + n)[i] = t[(k + 1) + i - 1]
  <2>1. k + 1 \in Int /\ k + n \in Int
    BY <1>1
  <2> QED
    BY <1>3, <2>1, SubSeqProperties
<1>5. d \in Seq(S) /\ Len(d) = n
  BY <1>1, <1>2, <1>4
<1>6. ASSUME NEW i \in 1 .. n PROVE d[i] = s[i]
  <2>1. i \in 1 .. (k + n) - (k + 1) + 1 /\ (k + 1) + i - 1 = k + i /\ k + i \in 1 .. k + n
    BY <1>1
  <2>2. d[i] = t[k + i]
    BY <1>2, <1>4, <2>1
  <2> QED
    BY <1>1, <1>2, <2>1, <2>2
<1> HIDE DEF d
<1>7. d = s
  BY <1>5, <1>6, SeqEqual DEF n
<1> QED
  BY <1>7 DEF Tun!Drop, d, t, k

\* The payload of a frame is read as it was written, whatever its length.
LEMMA PayloadThrough ==
    ASSUME NEW x \in {0, 64}, NEW total, total # None => total \in Nat, NEW payload \in Seq(Nat)
    PROVE  Tun!Parse(Tun!Encode(x, total, payload)).payload = payload
<1> DEFINE td == Tun!Encode(x, total, payload)
<1>0. /\ Tun!ClearBit(x, Tun!LBit) = x /\ Tun!SetBit(x, Tun!LBit) = x + 128
      /\ ~Tun!HasBit(x, Tun!LBit) /\ Tun!HasBit(x + 128, Tun!LBit)
  BY DEF Tun!ClearBit, Tun!SetBit, Tun!HasBit, Tun!LBit
<1>1. CASE total = None
  <2>1. td = <<x>> \o payload
    <3>1. td = (<<x>> \o <<>>) \o payload
      BY <1>0, <1>1 DEF Tun!Encode
    <3>2. <<x>> \o <<>> = <<x>>
      BY ConcatEmptySeq
    <3> QED
      BY <3>1, <3>2
  <2>2. <<x>> \o payload # <<>> /\ (<<x>> \o payload)[1] = x /\ Tail(<<x>> \o payload) = payload
    <3>1. x \in Nat
      OBVIOUS
    <3> QED
      BY <3>1, Headed
  <2> HIDE DEF td
  <2>3. Tun!Parse(td) = [flags |-> x, total |-> None, payload |-> payload]
    BY <1>0, <2>1, <2>2 DEF Tun!Parse
  <2> QED
    BY <2>3 DEF td
<1>2. CASE total # None
  <2> DEFINE w == Tun!ToBE32(total)
             rest == w \o payload
  <2>1. w \in Seq(Nat) /\ Len(w) = 4
    <3>1. total \in Nat
      BY <1>2
    <3>2. /\ (total \div 16777216) % 256 \in Nat /\ (total \div 65536) % 256 \in Nat
          /\ (total \div 256) % 256 \in Nat /\ total % 256 \in Nat
      BY <3>1
    <3> QED
      BY <3>2 DEF Tun!ToBE32
  <2> HIDE DEF w
  <2>2. x + 128 \in Nat /\ <<x + 128>> \in Seq(Nat)
    OBVIOUS
  <2>3. td = <<x + 128>> \o rest
    <3>1. td = (<<x + 128>> \o w) \o payload
      BY <1>0, <1>2 DEF Tun!Encode, w
    <3> DEFINE h == <<x + 128>>
    <3> HIDE DEF h
    <3>2. h \in Seq(Nat) /\ w \in Seq(Nat) /\ payload \in Seq(Nat)
      BY <2>1, <2>2 DEF h
    <3>3. (h \o w) \o payload = h \o (w \o payload)
      BY <3>2, ConcatAssociative
    <3> QED
      BY <3>1, <3>3 DEF h
  <2>4. rest \in Seq(Nat) /\ Len(rest) = 4 + Len(payload) /\ Len(payload) \in Nat
    <3>1. Len(payload) \in Nat
      BY LenProperties
    <3>2. w \o payload \in Seq(Nat) /\ Len(w \o payload) = Len(w) + Len(payload)
      <4>1. w \in Seq(Nat) /\ payload \in Seq(Nat)
        BY <2>1
      <4> HIDE DEF rest, td
      <4> QED
        BY <4>1, ConcatProperties, Zenon
    <3> HIDE DEF rest
    <3> QED
      BY <2>1, <3>1, <3>2 DEF rest
  <2>5. Tun!Drop(rest, 4) = payload
    BY <2>1, Dropped
  <2> HIDE DEF td, rest
  <2>6. td # <<>> /\ td[1] = x + 128 /\ Tail(td) = rest
    BY <2>2, <2>3, <2>4, Headed
  <2>7. ~(Len(rest) < 4)
    BY <2>4
  <2>8. Tun!Parse(td) = [flags |-> x + 128, total |-> Tun!FromBE32(rest), payload |-> payload]
    BY <1>0, <2>5, <2>6, <2>7, Zenon DEF Tun!Parse
  <2> QED
    BY <2>8 DEF td
<1> QED
  BY <1>1, <1>2

\* p is the next part of what is pending in u, and e what is left.
Cut(u, p, e) ==
    /\ p \in Seq(Nat) /\ Len(p) > 0 /\ u.tx.offset + Len(p) <= Len(u.tx.bytes)
    /\ \A i \in 1 .. Len(p) : p[i] = u.tx.bytes[u.tx.offset + i]
    /\ e.tls = u.tls /\ e.done = u.done /\ e.msg = u.msg /\ e.mtu = u.mtu
    /\ IF u.tx.offset + Len(p) < Len(u.tx.bytes)
       THEN e.tx.bytes = u.tx.bytes /\ e.tx.offset = u.tx.offset + Len(p)
       ELSE e.tx.bytes = <<>> /\ e.tx.offset = 0

\* emit_next_outbound_fragment.
LEMMA EmittedIs ==
    ASSUME NEW u, TunType(u), Tun!HasPendingTx(u)
    PROVE  TunType(Tun!Emitted(u)) /\ Cut(u, Tun!Parse(Tun!Fragment(u)).payload, Tun!Emitted(u))
<1> DEFINE bytes == u.tx.bytes
           o == u.tx.offset
           n == Len(bytes)
           take == Tun!AtMost(n - o, u.mtu)
           p == SubSeq(bytes, o + 1, o + take)
           e == Tun!Emitted(u)
           x == Tun!AfterEmit(u.tx, u.mtu)
<1>1. /\ bytes \in Seq(Nat) /\ n \in Nat /\ o \in 0 .. n /\ u.mtu \in Nat \ {0} /\ o < n
      /\ \A i \in 1 .. n : bytes[i] \in Nat
  <2>1. bytes \in Seq(Nat) /\ o \in 0 .. Len(bytes) /\ u.mtu \in Nat \ {0}
    BY DEF TunType
  <2>2. n \in Nat
    BY <2>1, LenProperties
  <2>3. o < n
    BY DEF Tun!HasPendingTx, Tun!HasPending
  <2> QED
    BY <2>1, <2>2, <2>3, ElementOfSeq
<1> HIDE DEF bytes, o, n
<1>2. take \in Nat \ {0} /\ o + take <= n
  BY <1>1 DEF Tun!AtMost
<1> HIDE DEF take
<1>3. p \in Seq(Nat) /\ Len(p) = take /\ \A i \in 1 .. take : p[i] = bytes[o + i]
  <2>1. o + 1 \in Int /\ o + take \in Int /\ \A i \in o + 1 .. o + take : bytes[i] \in Nat
    BY <1>1, <1>2
  <2>2. /\ p \in Seq(Nat) /\ Len(p) = IF o + 1 <= o + take THEN (o + take) - (o + 1) + 1 ELSE 0
        /\ \A i \in 1 .. (o + take) - (o + 1) + 1 : p[i] = bytes[(o + 1) + i - 1]
    BY <2>1, SubSeqProperties
  <2> HIDE DEF p
  <2> QED
    BY <1>1, <1>2, <2>2
<1>4. Tun!Parse(Tun!Fragment(u)).payload = p
  <2> DEFINE f == IF o + take < n THEN 64 ELSE 0
             total == IF o = 0 /\ n > u.mtu THEN n ELSE None
  <2>1. Tun!Fragment(u) = Tun!Encode(f, total, p)
    BY DEF Tun!Fragment, Tun!EmitFrame, Tun!MBit, take, n, o, bytes
  <2>2. f \in {0, 64} /\ (total # None => total \in Nat)
    BY <1>1
  <2> HIDE DEF f, total, p
  <2> QED
    BY <1>3, <2>1, <2>2, PayloadThrough
<1>5. /\ x \in [bytes : {x.bytes}, offset : {x.offset}]
      /\ IF o + take < n THEN x.bytes = bytes /\ x.offset = o + take ELSE x.bytes = <<>> /\ x.offset = 0
  <2>1. u.tx \in [bytes : {bytes}, offset : {o}]
    BY DEF TunType, bytes, o
  <2>2. x = IF o + take < n THEN [u.tx EXCEPT !.offset = o + take] ELSE [bytes |-> <<>>, offset |-> 0]
    BY DEF Tun!AfterEmit, take, n, o, bytes
  <2> HIDE DEF x
  <2>3. CASE o + take < n
    <3>1. [u.tx EXCEPT !.offset = o + take] \in [bytes : {bytes}, offset : {o + take}]
      BY <2>1
    <3>2. x \in [bytes : {bytes}, offset : {o + take}]
      BY <2>2, <2>3, <3>1
    <3> QED
      BY <2>3, <3>2
  <2>4. CASE ~(o + take < n)
    BY <2>2, <2>4
  <2> QED
    BY <2>3, <2>4
<1>6. e = [u EXCEPT !.tx = x]
  BY DEF Tun!Emitted
<1> HIDE DEF x, e
<1>7. [u EXCEPT !.tx = x]
        \in [tls : {u.tls}, re : {u.re}, tx : {x}, mtu : {u.mtu}, done : {u.done}, msg : {u.msg}, err : {u.err}]
  BY TunnelSets, Zenon DEF TunType
<1>8. e \in [tls : {u.tls}, re : {u.re}, tx : {x}, mtu : {u.mtu}, done : {u.done}, msg : {u.msg}, err : {u.err}]
  BY <1>6, <1>7, Zenon
<1>9. /\ e.tls = u.tls /\ e.tx = x /\ e.mtu = u.mtu /\ e.done = u.done /\ e.msg = u.msg
      /\ e \in [tls : {e.tls}, re : {e.re}, tx : {e.tx}, mtu : {e.mtu}, done : {e.done},
                msg : {e.msg}, err : {e.err}]
  BY <1>8
<1>10. x.bytes \in Seq(Nat) /\ x.offset \in 0 .. Len(x.bytes) /\ (x.offset = Len(x.bytes) => x.bytes = <<>>)
  <2>1. CASE o + take < n
    <3>1. x.bytes = bytes /\ x.offset = o + take
      BY <1>5, <2>1
    <3>2. Len(x.bytes) = n
      BY <3>1 DEF n
    <3> QED
      BY <1>1, <1>2, <2>1, <3>1, <3>2
  <2>2. CASE ~(o + take < n)
    <3>1. x.bytes = <<>> /\ x.offset = 0
      BY <1>5, <2>2
    <3>2. <<>> \in Seq(Nat) /\ Len(<<>>) = 0
      OBVIOUS
    <3> QED
      BY <3>1, <3>2
  <2> QED
    BY <2>1, <2>2
<1>11. TunType(e)
  BY <1>5, <1>9, <1>10 DEF TunType
<1> HIDE DEF p
<1>12. Cut(u, p, e)
  <2>1. e.tx.bytes = x.bytes /\ e.tx.offset = x.offset
    BY <1>9
  <2> QED
    BY <1>1, <1>2, <1>3, <1>5, <1>9, <2>1 DEF Cut, bytes, o, n
<1> QED
  BY <1>4, <1>11, <1>12 DEF e

\* The order of the stream, over these operations.
LEMMA FlowWrote ==
    ASSUME NEW t, TunType(t), NEW u, TunType(u), NEW n \in Nat, Wrote(t, u, n), NEW g \in Nat, Flow(t, g)
    PROVE  Flow(u, g)
<1> DEFINE s == [j \in 1 .. n |-> t.tls.written + j]
           o == t.tls.out
           k == Len(o)
<1>1. /\ t.tls.written \in Nat /\ s \in Seq(Nat) /\ Len(s) = n /\ o \in Seq(Nat) /\ k \in Nat
      /\ t.tx.bytes \in Seq(Nat) /\ Len(t.tx.bytes) \in Nat /\ t.tx.offset \in Nat
  <2>1. t.tls.written \in Nat /\ o \in Seq(Nat) /\ t.tx.bytes \in Seq(Nat) /\ t.tx.offset \in 0 .. Len(t.tx.bytes)
    BY DEF TunType
  <2>2. Len(o) \in Nat /\ Len(t.tx.bytes) \in Nat
    BY <2>1, LenProperties
  <2>3. s \in Seq(Nat) /\ Len(s) = n
    BY <2>1, Count
  <2> QED
    BY <2>1, <2>2, <2>3
<1>2. \A j \in 1 .. n : s[j] = t.tls.written + j
  OBVIOUS
<1> HIDE DEF s, o, k
<1>3. Len(o \o s) = k + n /\ \A i \in 1 .. k + n : (o \o s)[i] = IF i <= k THEN o[i] ELSE s[i - k]
  BY <1>1, ConcatProperties DEF k
<1>4. u.tls.out = o \o s /\ u.tx = t.tx /\ u.tls.written = t.tls.written + n
  BY DEF Wrote, Longer, s, o
<1>5. \A i \in 1 .. k : o[i] + t.tx.offset = g + Len(t.tx.bytes) + i
  BY DEF Flow, k, o
<1>6. t.tls.written + t.tx.offset = g + Len(t.tx.bytes) + k
  BY DEF Flow, k, o
<1>7. ASSUME NEW i \in 1 .. k + n
      PROVE  (o \o s)[i] + t.tx.offset = g + Len(t.tx.bytes) + i
  <2>1. CASE i <= k
    <3>1. (o \o s)[i] = o[i]
      BY <1>3, <2>1
    <3>2. i \in 1 .. k
      BY <1>1, <2>1
    <3> QED
      BY <1>5, <3>1, <3>2
  <2>2. CASE ~(i <= k)
    <3>1. i - k \in 1 .. n
      BY <1>1, <2>2
    <3>2. (o \o s)[i] = s[i - k]
      BY <1>1, <1>3, <2>2
    <3>3. s[i - k] = t.tls.written + (i - k)
      BY <1>2, <3>1
    <3> DEFINE w == t.tls.written
               f == t.tx.offset
               b == Len(t.tx.bytes)
               y == (o \o s)[i]
    <3>4. y = w + (i - k) /\ w + f = g + b + k
      BY <1>6, <3>2, <3>3
    <3>5. w \in Nat /\ f \in Nat /\ b \in Nat /\ k \in Nat /\ i \in Int /\ n \in Nat
      BY <1>1
    <3> HIDE DEF w, f, b, y
    <3>6. y + f = g + b + i
      BY <3>4, <3>5
    <3> QED
      BY <3>6 DEF y, f, b
  <2> QED
    BY <2>1, <2>2
<1>8. Len(u.tls.out) = k + n
  BY <1>3, <1>4
<1>9. u.tls.written + u.tx.offset = g + Len(u.tx.bytes) + (k + n)
  <2> DEFINE w == t.tls.written
             f == t.tx.offset
             b == Len(t.tx.bytes)
  <2>1. w \in Nat /\ f \in Nat /\ b \in Nat /\ k \in Nat /\ w + f = g + b + k
    BY <1>1, <1>6
  <2> HIDE DEF w, f, b
  <2>2. (w + n) + f = g + b + (k + n)
    BY <2>1
  <2> QED
    BY <1>4, <2>2 DEF w, f, b
<1>10. \A i \in 1 .. Len(u.tx.bytes) : u.tx.bytes[i] + u.tx.offset = g + i
  BY <1>4 DEF Flow
<1>11. \A i \in 1 .. k + n : u.tls.out[i] + u.tx.offset = g + Len(u.tx.bytes) + i
  BY <1>4, <1>7
<1> QED
  BY <1>8, <1>9, <1>10, <1>11 DEF Flow

LEMMA JoinedIs ==
    ASSUME NEW s \in Seq(Nat), NEW r \in Seq(Nat)
    PROVE  /\ Len(s) \in Nat /\ Len(r) \in Nat /\ Len(s \o r) = Len(s) + Len(r)
           /\ \A i \in 1 .. Len(s) + Len(r) : (s \o r)[i] = IF i <= Len(s) THEN s[i] ELSE r[i - Len(s)]
<1>1. Len(s) \in Nat /\ Len(r) \in Nat
  BY LenProperties
<1> QED
  BY <1>1, ConcatProperties

\* A refill is in order when no fragment of what is pending is out.
LEMMA FlowRefilled ==
    ASSUME NEW t, TunType(t), t.tx.offset = 0, NEW g \in Nat, Flow(t, g)
    PROVE  Flow(Tun!RefillPendingTx(t), g)
<1> DEFINE u == Tun!RefillPendingTx(t)
           s == t.tx.bytes
           r == t.tls.out
<1>1. u.tx.bytes = s \o r /\ u.tx.offset = 0 /\ u.tls.out = <<>> /\ u.tls.written = t.tls.written
  BY RefilledIs
<1>2. /\ Len(s) \in Nat /\ Len(r) \in Nat /\ Len(s \o r) = Len(s) + Len(r)
      /\ \A i \in 1 .. Len(s) + Len(r) : (s \o r)[i] = IF i <= Len(s) THEN s[i] ELSE r[i - Len(s)]
      /\ \A i \in 1 .. Len(s) : s[i] \in Nat
      /\ \A i \in 1 .. Len(r) : r[i] \in Nat
  <2>1. s \in Seq(Nat) /\ r \in Seq(Nat)
    BY DEF TunType
  <2> QED
    BY <2>1, JoinedIs, ElementOfSeq
<1>3. /\ \A i \in 1 .. Len(s) : s[i] = g + i
      /\ \A i \in 1 .. Len(r) : r[i] = g + Len(s) + i
      /\ t.tls.written = g + Len(s) + Len(r)
  <2>1. t.tls.written \in Nat
    BY DEF TunType
  <2>2. /\ \A i \in 1 .. Len(s) : s[i] + 0 = g + i
        /\ \A i \in 1 .. Len(r) : r[i] + 0 = g + Len(s) + i
        /\ t.tls.written + 0 = g + Len(s) + Len(r)
    BY DEF Flow
  <2> HIDE DEF s, r
  <2> QED
    BY <1>2, <2>1, <2>2
<1> HIDE DEF u, s, r
<1>4. ASSUME NEW i \in 1 .. Len(s) + Len(r) PROVE (s \o r)[i] = g + i
  <2>1. CASE i <= Len(s)
    BY <1>2, <1>3, <2>1
  <2>2. CASE ~(i <= Len(s))
    <3>1. i - Len(s) \in 1 .. Len(r)
      BY <1>2, <2>2
    <3> QED
      BY <1>2, <1>3, <2>2, <3>1
  <2> QED
    BY <2>1, <2>2
<1>5. Len(u.tls.out) = 0 /\ Len(u.tx.bytes) = Len(s) + Len(r)
  BY <1>1, <1>2
<1>6. Flow(u, g)
  BY <1>1, <1>2, <1>3, <1>4, <1>5 DEF Flow
<1> QED
  BY <1>6 DEF u

\* A fragment of a stream that is in order continues it.
LEMMA FlowCut ==
    ASSUME NEW u, TunType(u), NEW e, TunType(e), NEW p, Cut(u, p, e), NEW g \in Nat, Flow(u, g)
    PROVE  /\ p = [i \in 1 .. Len(p) |-> g + i]
           /\ g + Len(p) \in Nat /\ Flow(e, g + Len(p))
<1>1. /\ Len(p) \in Nat /\ p \in Seq(Nat) /\ Len(u.tx.bytes) \in Nat /\ u.tx.offset \in 0 .. Len(u.tx.bytes)
      /\ u.tls.written \in Nat /\ Len(u.tls.out) \in Nat
      /\ \A i \in 1 .. Len(u.tls.out) : u.tls.out[i] \in Nat
      /\ \A i \in 1 .. Len(u.tx.bytes) : u.tx.bytes[i] \in Nat
  <2>1. /\ p \in Seq(Nat) /\ u.tx.bytes \in Seq(Nat) /\ u.tx.offset \in 0 .. Len(u.tx.bytes)
        /\ u.tls.written \in Nat /\ u.tls.out \in Seq(Nat)
    BY DEF Cut, TunType
  <2> QED
    BY <2>1, LenProperties, ElementOfSeq
<1> DEFINE n == Len(p)
           o == u.tx.offset
           b == u.tx.bytes
           k == Len(b)
           q == Len(u.tls.out)
           w == u.tls.written
<1>2. /\ o + n <= k /\ \A i \in 1 .. n : p[i] = b[o + i]
      /\ e.tls = u.tls
      /\ IF o + n < k THEN e.tx.bytes = b /\ e.tx.offset = o + n ELSE e.tx.bytes = <<>> /\ e.tx.offset = 0
  BY DEF Cut
<1>3. /\ \A i \in 1 .. k : b[i] + o = g + i
      /\ \A i \in 1 .. q : u.tls.out[i] + o = g + k + i
      /\ w + o = g + k + q
  BY DEF Flow
<1> HIDE DEF n, o, b, k, q, w
<1>4. n \in Nat /\ k \in Nat /\ o \in 0 .. k /\ w \in Nat /\ q \in Nat
      /\ (\A i \in 1 .. k : b[i] \in Nat) /\ \A i \in 1 .. q : u.tls.out[i] \in Nat
  BY <1>1 DEF n, o, b, k, q, w
<1>5. \A i \in 1 .. n : p[i] = g + i
  <2> SUFFICES ASSUME NEW i \in 1 .. n PROVE p[i] = g + i
    OBVIOUS
  <2>1. o + i \in 1 .. k
    BY <1>2, <1>4
  <2>2. p[i] = b[o + i] /\ b[o + i] + o = g + (o + i) /\ b[o + i] \in Nat
    BY <1>2, <1>3, <1>4, <2>1
  <2> QED
    BY <1>4, <2>2
<1>6. p = [i \in 1 .. n |-> g + i]
  <2> DEFINE f == [i \in 1 .. n |-> g + i]
  <2>1. f \in Seq(Nat) /\ Len(f) = n /\ \A i \in 1 .. n : f[i] = g + i
    BY <1>4, Count
  <2> HIDE DEF f
  <2>2. p = f
    BY <1>1, <1>5, <2>1, SeqEqual DEF n
  <2> QED
    BY <2>2 DEF f
<1>7. Flow(e, g + n)
  <2>0. e.tls.out = u.tls.out /\ e.tls.written = w /\ Len(e.tls.out) = q
    BY <1>2 DEF w, q
  <2>1. CASE o + n < k
    <3>1. e.tx.bytes = b /\ e.tx.offset = o + n /\ Len(e.tx.bytes) = k
      BY <1>2, <2>1 DEF k
    <3>2. \A i \in 1 .. k : b[i] + (o + n) = (g + n) + i
      BY <1>3, <1>4
    <3>3. \A i \in 1 .. q : u.tls.out[i] + (o + n) = (g + n) + k + i
      BY <1>3, <1>4
    <3>4. w + (o + n) = (g + n) + k + q
      BY <1>3, <1>4
    <3> QED
      BY <2>0, <3>1, <3>2, <3>3, <3>4 DEF Flow
  <2>2. CASE ~(o + n < k)
    <3>1. e.tx.bytes = <<>> /\ e.tx.offset = 0 /\ Len(e.tx.bytes) = 0
      BY <1>2, <2>2
    <3>2. o + n = k
      BY <1>2, <1>4, <2>2
    <3>3. \A i \in 1 .. q : u.tls.out[i] + 0 = (g + n) + 0 + i
      BY <1>3, <1>4, <3>2
    <3>4. w + 0 = (g + n) + 0 + q
      BY <1>3, <1>4, <3>2
    <3> QED
      BY <2>0, <3>1, <3>3, <3>4 DEF Flow
  <2> QED
    BY <2>1, <2>2
<1> QED
  BY <1>4, <1>6, <1>7 DEF n

\* A refill that finds fragments out sends the first of them again.
LEMMA FlowBroken ==
    ASSUME NEW t, TunType(t), t.tx.offset > 0, NEW g \in Nat, Flow(t, g), NEW p, NEW e,
           Cut(Tun!RefillPendingTx(t), p, e)
    PROVE  p # [i \in 1 .. Len(p) |-> g + i]
<1> DEFINE u == Tun!RefillPendingTx(t)
           s == t.tx.bytes
           r == t.tls.out
<1>1. u.tx.bytes = s \o r /\ u.tx.offset = 0
  BY RefilledIs
<1>2. /\ s \in Seq(Nat) /\ r \in Seq(Nat) /\ Len(s) \in Nat /\ Len(r) \in Nat
      /\ t.tx.offset \in 0 .. Len(s)
  BY LenProperties DEF TunType
<1>3. 1 \in 1 .. Len(s) /\ s[1] \in Nat
  <2>1. 1 \in 1 .. Len(s)
    BY <1>2
  <2> QED
    BY <1>2, <2>1, ElementOfSeq
<1>4. (s \o r)[1] = s[1]
  <2>1. \A i \in 1 .. Len(s) + Len(r) : (s \o r)[i] = IF i <= Len(s) THEN s[i] ELSE r[i - Len(s)]
    BY <1>2, JoinedIs
  <2> HIDE DEF s, r
  <2>2. 1 \in 1 .. Len(s) + Len(r) /\ 1 <= Len(s)
    BY <1>2, <1>3
  <2> QED
    BY <2>1, <2>2
<1>5. s[1] + t.tx.offset = g + 1
  BY <1>3 DEF Flow
<1>6. p[1] = (s \o r)[0 + 1] /\ 1 \in 1 .. Len(p)
  <2>1. p \in Seq(Nat) /\ Len(p) > 0 /\ \A i \in 1 .. Len(p) : p[i] = u.tx.bytes[u.tx.offset + i]
    BY DEF Cut
  <2>2. Len(p) \in Nat
    BY <2>1, LenProperties
  <2> HIDE DEF u, s, r
  <2>3. 1 \in 1 .. Len(p)
    BY <2>1, <2>2
  <2>4. p[1] = u.tx.bytes[u.tx.offset + 1]
    BY <2>1, <2>3
  <2> QED
    BY <1>1, <2>3, <2>4
<1> HIDE DEF u, s, r
<1>7. p[1] < g + 1
  BY <1>2, <1>3, <1>4, <1>5, <1>6
<1> SUFFICES ASSUME p = [i \in 1 .. Len(p) |-> g + i] PROVE FALSE
  OBVIOUS
<1>8. [i \in 1 .. Len(p) |-> g + i][1] = g + 1
  BY <1>6
<1>9. p[1] = g + 1
  BY <1>8
<1> QED
  BY <1>2, <1>3, <1>4, <1>6, <1>7, <1>9

\* What the history makes of a step.
LEMMA Quiet ==
    ASSUME Tun!Observe, ~(at' = "idle" /\ said'.k = "continue")
    PROVE  orderly' = orderly /\ heard' = heard
BY DEF Tun!Observe

\* p is the payload that goes out.
LEMMA Observed ==
    ASSUME Tun!Observe, at' = "idle", said'.k = "continue", NEW p, p = Tun!Parse(said'.msg).payload
    PROVE  /\ orderly' = (orderly /\ p = [i \in 1 .. Len(p) |-> heard + i])
           /\ heard' = IF p = [i \in 1 .. Len(p) |-> heard + i] THEN heard + Len(p) ELSE heard
BY DEF Tun!Observe

\* A fragment of u is sent: in order, if u is.
LEMMA Ships ==
    ASSUME Tun!Observe, NEW u, TunType(u), Tun!HasPendingTx(u), Tun!Ship(u),
           heard \in Nat, orderly \in BOOLEAN,
           orderly => \/ Flow(u, heard)
                      \/ \A p, e : Cut(u, p, e) => p # [i \in 1 .. Len(p) |-> heard + i]
    PROVE  /\ TunType(tun') /\ at' = "idle" /\ said'.k = "continue" /\ tun' = Tun!Emitted(u)
           /\ Cut(u, Tun!Parse(said'.msg).payload, tun')
           /\ heard' \in Nat /\ orderly' \in BOOLEAN
           /\ orderly' => orderly /\ Flow(tun', heard')
           /\ orderly /\ Flow(u, heard) => orderly'
<1> DEFINE p == Tun!Parse(said'.msg).payload
<1>1. at' = "idle" /\ said'.k = "continue" /\ said'.msg = Tun!Fragment(u) /\ tun' = Tun!Emitted(u)
  BY DEF Tun!Ship, Tun!Return, Tun!Continue
<1>2. TunType(tun') /\ Cut(u, p, tun')
  BY <1>1, EmittedIs
<1>3. /\ orderly' = (orderly /\ p = [i \in 1 .. Len(p) |-> heard + i])
      /\ heard' = IF p = [i \in 1 .. Len(p) |-> heard + i] THEN heard + Len(p) ELSE heard
  BY <1>1, Observed
<1>4. Len(p) \in Nat
  BY <1>2, LenProperties DEF Cut
<1> HIDE DEF p
<1> DEFINE w == [i \in 1 .. Len(p) |-> heard + i]
<1> HIDE DEF w
<1>5. CASE orderly /\ Flow(u, heard)
  <2>1. p = w /\ Flow(tun', heard + Len(p)) /\ heard + Len(p) \in Nat
    BY <1>2, <1>5, FlowCut DEF w
  <2> QED
    BY <1>1, <1>2, <1>3, <1>5, <2>1 DEF w, p
<1>6. CASE orderly /\ ~Flow(u, heard)
  <2>1. p # w
    BY <1>2, <1>6 DEF w
  <2> QED
    BY <1>1, <1>2, <1>3, <1>6, <2>1 DEF w, p
<1>7. CASE ~orderly
  BY <1>1, <1>2, <1>3, <1>4, <1>7 DEF w, p
<1> QED
  BY <1>5, <1>6, <1>7

LEMMA AckIs == Tun!Parse(Tun!AckFrame).payload = <<>>
<1>1. <<0>> # <<>> /\ <<0>>[1] = 0 /\ Tail(<<0>>) = <<>>
  OBVIOUS
<1>2. ~Tun!HasBit(0, Tun!LBit)
  BY DEF Tun!HasBit, Tun!LBit
<1>3. Tun!Parse(<<0>>) = [flags |-> 0, total |-> None, payload |-> <<>>]
  BY <1>1, <1>2 DEF Tun!Parse
<1> QED
  BY <1>3 DEF Tun!AckFrame

LEMMA Acks ==
    ASSUME Tun!Observe, Tun!Return(Tun!Continue(Tun!AckFrame)), heard \in Nat, orderly \in BOOLEAN
    PROVE  /\ at' = "idle" /\ said'.k = "continue" /\ Tun!Parse(said'.msg).payload = <<>>
           /\ orderly' = orderly /\ heard' = heard
<1>1. at' = "idle" /\ said'.k = "continue" /\ said'.msg = Tun!AckFrame
  BY DEF Tun!Return, Tun!Continue
<1>2. Tun!Parse(said'.msg).payload = <<>>
  BY <1>1, AckIs
<1>3. <<>> = [i \in 1 .. Len(<<>>) |-> heard + i] /\ Len(<<>>) = 0
  OBVIOUS
<1>4. /\ orderly' = (orderly /\ <<>> = [i \in 1 .. Len(<<>>) |-> heard + i])
      /\ heard' = IF <<>> = [i \in 1 .. Len(<<>>) |-> heard + i] THEN heard + Len(<<>>) ELSE heard
  BY <1>1, <1>2, Observed
<1> QED
  BY <1>1, <1>2, <1>3, <1>4

\* The steps, whoever takes them.
LEMMA TunSplits ==
    ASSUME Tun!Next
    PROVE  /\ Tun!Observe
           /\ \/ \E td : Tun!Receive(td) \/ Tun!EapTlsAck(td)
              \/ Tun!Drive \/ Tun!Drain \/ Tun!Flush \/ Tun!JudgeAvps \/ Tun!StartInner
              \/ Tun!InnerPacket \/ Tun!InnerIdle \/ Tun!Conclude
<1>1. CASE Tun!Honest
  <2>1. \E td : Tun!PeerSends(td)
    BY <1>1 DEF Tun!Honest, Tun!Fragments
  <2> QED
    BY <2>1 DEF Tun!PeerSends, Tun!Next
<1>2. CASE Tun!FreeRound
  <2>1. \E td : Tun!PeerSends(td)
    BY <1>2 DEF Tun!FreeRound
  <2> QED
    BY <2>1 DEF Tun!PeerSends, Tun!Next
<1>3. CASE Tun!Serve
  BY <1>3 DEF Tun!Serve, Tun!Stage, Tun!Next
<1> QED
  BY <1>1, <1>2, <1>3 DEF Tun!Next

LEMMA MethodFields ==
    /\ DOMAIN Tun!NewMethod = {"st", "rx", "term", "authed", "inner", "started", "peerId", "reqId",
                               "awaiting", "tlvId", "last"}
    /\ DOMAIN Tun!NewInner = {"state", "user", "chal", "id", "authed"}
BY DEF Tun!NewMethod, Tun!NewInner

-----------------------------------------------------------------------------
\* What a step keeps of the stream.
StreamKept ==
    StreamInv' /\ EapTlsInv' /\ (orderly /\ ~orderly' => method # "TLS" /\ tun.tx.offset > 0)

LEMMA NoPending ==
    ASSUME NEW u, TunType(u), ~Tun!HasPendingTx(u)
    PROVE  u.tx.bytes = <<>> /\ u.tx.offset = 0
<1>1. u.tx.bytes \in Seq(Nat) /\ u.tx.offset \in 0 .. Len(u.tx.bytes)
      /\ (u.tx.offset = Len(u.tx.bytes) => u.tx.bytes = <<>>)
  BY DEF TunType
<1>2. Len(u.tx.bytes) \in Nat
  BY <1>1, LenProperties
<1>3. ~(u.tx.offset < Len(u.tx.bytes))
  BY DEF Tun!HasPendingTx, Tun!HasPending
<1>4. u.tx.offset = Len(u.tx.bytes)
  BY <1>1, <1>2, <1>3
<1>5. u.tx.bytes = <<>> /\ Len(<<>>) = 0
  BY <1>1, <1>4
<1> QED
  BY <1>4, <1>5

LEMMA EmptyTx ==
    ASSUME NEW u, TunType(u), u.tx.bytes = <<>>
    PROVE  u.tx.offset = 0 /\ ~Tun!HasPendingTx(u)
<1>1. u.tx.offset \in 0 .. Len(u.tx.bytes) /\ Len(<<>>) = 0
  BY DEF TunType
<1>2. u.tx.offset \in 0 .. 0
  BY <1>1
<1>3. u.tx.offset = 0
  BY <1>2
<1> QED
  BY <1>1, <1>3 DEF Tun!HasPendingTx, Tun!HasPending

\* A step that ends the conversation and leaves the tunnel alone.
LEMMA StreamEnds ==
    ASSUME StreamInv, EapTlsInv, Tun!Observe, UNCHANGED <<method, tun>>, DOMAIN own' = DOMAIN own,
           at' = "idle", said'.k \in {"success", "failure", "error"},
           said'.k = "success" =>
              method = "TLS" /\ tun.done /\ tun.tx.bytes = <<>> /\ tun.tls.out = <<>>
    PROVE  StreamKept
<1>1. orderly' = orderly /\ heard' = heard
  BY Quiet
<1>2. StreamInv'
  BY <1>1 DEF StreamInv, TunType, Flow
<1>3. EapTlsInv'
  BY DEF EapTlsInv
<1> QED
  BY <1>1, <1>2, <1>3 DEF StreamKept

LEMMA ReceiveKeeps ==
    ASSUME StreamInv, EapTlsInv, Tun!Observe, NEW td, Tun!Receive(td)
    PROVE  StreamKept
<1> DEFINE u == Tun!IngestPeerFrame(tun, td)
<1>0. at = "idle" /\ said.k = "continue" /\ UNCHANGED <<method, own>>
  BY DEF Tun!Receive
<1>1. CASE u.err
  <2>1. UNCHANGED tun /\ at' = "idle" /\ said'.k = "error"
    BY <1>1 DEF Tun!Receive, Tun!Return, Tun!Error
  <2> QED
    BY <1>0, <2>1, StreamEnds
<1>2. CASE ~u.err
  <2>1. tun' = u /\ at' = "drive" /\ UNCHANGED said
    BY <1>2 DEF Tun!Receive, Tun!Proceed
  <2>2. TunType(u) /\ u.tls = tun.tls /\ u.tx = tun.tx
    BY IngestedIs DEF StreamInv
  <2>3. orderly' = orderly /\ heard' = heard
    BY <2>1, Quiet
  <2>4. TunType(tun) /\ tun.tls.out = <<>> /\ (method = "TLS" => orderly) /\ (orderly => Flow(tun, heard))
    BY <1>0 DEF StreamInv
  <2> HIDE DEF u
  <2>5. StreamInv'
    <3>1. orderly => Flow(tun', heard)
      BY <2>1, <2>2, <2>4 DEF Flow
    <3> QED
      BY <1>0, <2>1, <2>2, <2>3, <2>4, <3>1 DEF StreamInv
  <2>6. ASSUME method = "TLS" PROVE own.st = "Handshaking" /\ tun.tx.bytes = <<>>
    <3>1. ~(own.st \in {"AwaitingFragmentAck", "AwaitingFinalAck"})
      BY <2>6 DEF Tun!Receive, Tun!AwaitsAck
    <3>2. own.st = "Handshaking" /\ ~Tun!HasPendingTx(tun)
      BY <1>0, <2>6, <3>1 DEF EapTlsInv
    <3> QED
      BY <2>4, <3>2, NoPending
  <2>7. EapTlsInv'
    BY <1>0, <2>1, <2>2, <2>6 DEF EapTlsInv
  <2> QED
    BY <2>3, <2>5, <2>7 DEF StreamKept
<1> QED
  BY <1>1, <1>2

LEMMA EapTlsAckKeeps ==
    ASSUME StreamInv, EapTlsInv, Tun!Observe, NEW td, Tun!EapTlsAck(td)
    PROVE  StreamKept
<1> DEFINE f == Tun!Parse(td)
           end == IF f = Tun!Malformed THEN Tun!Error
                  ELSE IF ~Tun!IsAck(f) THEN Tun!Failure
                  ELSE IF tun.tls.in # <<>> THEN Tun!Error ELSE Tun!Success
           goes == f # Tun!Malformed /\ Tun!IsAck(f) /\ own.st = "AwaitingFragmentAck"
<1>0. /\ at = "idle" /\ said.k = "continue" /\ method = "TLS" /\ UNCHANGED method
      /\ own.st \in {"AwaitingFragmentAck", "AwaitingFinalAck"}
  BY DEF Tun!EapTlsAck, Tun!AwaitsAck
<1>1. IF goes THEN Tun!Ship(tun) /\ own' = [own EXCEPT !.st = Tun!EapTlsState(Tun!Emitted(tun))]
      ELSE Tun!Return(end) /\ own' = [own EXCEPT !.st = "Finished"] /\ UNCHANGED tun
  BY DEF Tun!EapTlsAck
<1>2. /\ TunType(tun) /\ tun.tls.out = <<>> /\ orderly /\ Flow(tun, heard) /\ heard \in Nat
  BY <1>0 DEF StreamInv
<1>3. "st" \in DOMAIN own
  BY MethodFields DEF EapTlsInv
<1> HIDE DEF f, end, goes
<1>4. CASE goes
  <2>1. Tun!HasPendingTx(tun)
    BY <1>0, <1>4 DEF goes, EapTlsInv
  <2>2. Tun!Ship(tun) /\ own' = [own EXCEPT !.st = Tun!EapTlsState(Tun!Emitted(tun))]
    BY <1>1, <1>4
  <2>3. /\ TunType(tun') /\ at' = "idle" /\ said'.k = "continue" /\ tun' = Tun!Emitted(tun)
        /\ Cut(tun, Tun!Parse(said'.msg).payload, tun')
        /\ heard' \in Nat /\ orderly' \in BOOLEAN
        /\ orderly' => orderly /\ Flow(tun', heard')
        /\ orderly /\ Flow(tun, heard) => orderly'
    BY <1>2, <2>1, <2>2, Ships
  <2>4. tun'.tls = tun.tls
    BY <2>3 DEF Cut
  <2>5. StreamInv' /\ orderly'
    BY <1>0, <1>2, <2>3, <2>4 DEF StreamInv
  <2>6. DOMAIN own' = DOMAIN own /\ own'.st = Tun!EapTlsState(tun')
    BY <1>3, <2>2, <2>3
  <2>7. EapTlsInv'
    BY <1>0, <2>3, <2>6 DEF EapTlsInv, Tun!EapTlsState
  <2> QED
    BY <2>5, <2>7 DEF StreamKept
<1>5. CASE ~goes
  <2>1. at' = "idle" /\ said' = end /\ UNCHANGED tun /\ DOMAIN own' = DOMAIN own
    BY <1>1, <1>5 DEF Tun!Return
  <2>2. said'.k \in {"success", "failure", "error"}
    BY <2>1 DEF end, Tun!Error, Tun!Failure, Tun!Success
  <2>3. ASSUME said'.k = "success" PROVE tun.done /\ tun.tx.bytes = <<>>
    <3>1. f # Tun!Malformed /\ Tun!IsAck(f)
      BY <2>1, <2>3 DEF end, Tun!Error, Tun!Failure
    <3>2. own.st # "AwaitingFragmentAck"
      BY <1>5, <3>1 DEF goes
    <3>3. tun.done /\ ~Tun!HasPendingTx(tun)
      BY <1>0, <3>2 DEF EapTlsInv
    <3> QED
      BY <1>2, <3>3, NoPending
  <2> QED
    BY <1>0, <1>2, <2>1, <2>2, <2>3, StreamEnds
<1> QED
  BY <1>4, <1>5

LEMMA DriveKeeps ==
    ASSUME Tun!TunnelAssumption, StreamInv, EapTlsInv, Tun!Observe, Tun!Drive
    PROVE  StreamKept
<1> DEFINE u == Tun!FeedAndDrive(tun)
           just == u.done /\ ~tun.done
           bad == u.err \/ (method = "TLS" /\ just /\ u.tls.in # <<>>)
           w == IF just /\ method # "TTLS" /\ tun.tls.v = "1.3" THEN Tun!WriteAppData(u, RecordLen) ELSE u
<1>0. at = "drive" /\ UNCHANGED <<method, own>>
  BY DEF Tun!Drive
<1>1. IF bad THEN Tun!Return(Tun!Error) /\ UNCHANGED tun
      ELSE tun' = w /\ Tun!Proceed(IF method = "TLS" THEN "flush" ELSE "drain")
  BY DEF Tun!Drive
<1>2. CASE bad
  <2>1. UNCHANGED tun /\ at' = "idle" /\ said'.k = "error"
    BY <1>1, <1>2 DEF Tun!Return, Tun!Error
  <2> QED
    BY <1>0, <2>1, StreamEnds
<1>3. CASE ~bad
  <2>1. tun' = w /\ at' = (IF method = "TLS" THEN "flush" ELSE "drain") /\ UNCHANGED said
    BY <1>1, <1>3 DEF Tun!Proceed
  <2>2. orderly' = orderly /\ heard' = heard
    BY <2>1, Quiet
  <2>3. /\ TunType(tun) /\ tun.tls.out = <<>> /\ (method = "TLS" => orderly) /\ (orderly => Flow(tun, heard))
        /\ heard \in Nat /\ said.k = "continue"
    BY <1>0 DEF StreamInv
  <2>4. TunType(u) /\ (\E n \in Nat : Wrote(tun, u, n)) /\ (tun.msg = None => u = tun)
    <3>1. ~u.err
      BY <1>3
    <3> QED
      BY <2>3, <3>1, DrivenIs
  <2>5. orderly => Flow(u, heard)
    BY <2>3, <2>4, FlowWrote
  <2>6. u.tx = tun.tx /\ u.msg = tun.msg
    BY <2>4 DEF Wrote
  <2>7. TunType(w) /\ w.tx = tun.tx /\ w.msg = tun.msg /\ (orderly => Flow(w, heard))
        /\ (tun.msg = None => w = tun)
    <3>1. CASE just /\ method # "TTLS" /\ tun.tls.v = "1.3"
      <4>1. RecordLen \in Nat
        BY DEF Tun!TunnelAssumption
      <4>2. w = Tun!WriteAppData(u, RecordLen)
        BY <3>1
      <4>3. TunType(w) /\ Wrote(u, w, RecordLen)
        BY <2>4, <4>1, <4>2, AppDataIs
      <4>4. orderly => Flow(w, heard)
        BY <2>3, <2>4, <2>5, <4>1, <4>3, FlowWrote
      <4>5. tun.msg # None
        BY <2>4, <3>1
      <4>6. w.tx = u.tx /\ w.msg = u.msg
        BY <4>3 DEF Wrote
      <4> QED
        BY <2>6, <4>3, <4>4, <4>5, <4>6
    <3>2. CASE ~(just /\ method # "TTLS" /\ tun.tls.v = "1.3")
      <4>1. w = u
        BY <3>2
      <4> QED
        BY <2>4, <2>5, <2>6, <4>1
    <3> QED
      BY <3>1, <3>2
  <2> HIDE DEF w, u
  <2>8. StreamInv'
    BY <1>0, <2>1, <2>2, <2>3, <2>7 DEF StreamInv
  <2>9. EapTlsInv'
    BY <1>0, <2>1, <2>3, <2>7 DEF EapTlsInv
  <2> QED
    BY <2>2, <2>8, <2>9 DEF StreamKept
<1> QED
  BY <1>2, <1>3

\* A step within a round that sends nothing, and may write something.
LEMMA StreamGoes ==
    ASSUME StreamInv, EapTlsInv, Tun!Observe, UNCHANGED <<method, said>>, method # "TLS", at # "idle",
           at' \in {"flush", "inner", "conclude"}, at' # "flush" => tun.tx.bytes = <<>>,
           DOMAIN own' = DOMAIN own, TunType(tun'), NEW n \in Nat, Wrote(tun, tun', n)
    PROVE  StreamKept
<1>1. orderly' = orderly /\ heard' = heard
  BY Quiet
<1>2. TunType(tun) /\ heard \in Nat /\ (orderly => Flow(tun, heard)) /\ said.k = "continue"
  BY DEF StreamInv
<1>3. orderly => Flow(tun', heard)
  BY <1>2, FlowWrote
<1>4. tun'.tx = tun.tx
  BY DEF Wrote
<1>5. StreamInv'
  BY <1>1, <1>2, <1>3, <1>4 DEF StreamInv
<1>6. EapTlsInv'
  BY DEF EapTlsInv
<1> QED
  BY <1>1, <1>5, <1>6 DEF StreamKept

LEMMA WroteNothing ==
    ASSUME NEW t, TunType(t)
    PROVE  Wrote(t, t, 0)
BY EmptyEnd DEF TunType, Longer, Wrote

LEMMA DrainKeeps ==
    ASSUME StreamInv, EapTlsInv, Tun!Observe, Tun!Drain
    PROVE  StreamKept
<1>0. at = "drain" /\ UNCHANGED method /\ method # "TLS" /\ TunType(tun)
  BY DEF Tun!Drain, EapTlsInv, StreamInv
<1>1. CASE tun.done /\ Tun!Undecryptable(tun)
  <2>1. UNCHANGED <<tun, own>> /\ at' = "idle" /\ said'.k = "error"
    BY <1>1 DEF Tun!Drain, Tun!Return, Tun!Error
  <2> QED
    BY <1>0, <2>1, StreamEnds
<1>2. CASE ~(tun.done /\ Tun!Undecryptable(tun))
  <2>1. /\ tun' = IF tun.done THEN Tun!Drained(tun) ELSE tun
        /\ at' = "flush" /\ UNCHANGED said
        /\ own' = IF tun.done THEN [own EXCEPT !.rx = own.rx \o Tun!Decrypted(tun)] ELSE own
    BY <1>2 DEF Tun!Drain, Tun!Proceed
  <2>2. TunType(tun') /\ Wrote(tun, tun', 0)
    BY <1>0, <1>2, <2>1, DrainedIs, WroteNothing
  <2>3. DOMAIN own' = DOMAIN own
    BY <2>1
  <2> QED
    BY <1>0, <2>1, <2>2, <2>3, StreamGoes
<1> QED
  BY <1>1, <1>2

LEMMA FlushKeeps ==
    ASSUME StreamInv, EapTlsInv, Tun!Observe, Tun!Flush
    PROVE  StreamKept
<1> DEFINE u == IF method = "TLS" /\ tun.msg = None THEN tun ELSE Tun!RefillPendingTx(tun)
<1>0. /\ at = "flush" /\ UNCHANGED method /\ TunType(tun) /\ said.k = "continue"
      /\ heard \in Nat /\ orderly \in BOOLEAN /\ (orderly => Flow(tun, heard))
      /\ method = "TLS" => orderly /\ own.st = "Handshaking" /\ tun.tx.bytes = <<>>
      /\ method = "TLS" /\ tun.msg = None => tun.tls.out = <<>>
  BY DEF Tun!Flush, EapTlsInv, StreamInv
<1>1. IF Tun!HasPendingTx(u)
      THEN /\ Tun!Ship(u)
           /\ own' = IF method = "TLS" THEN [own EXCEPT !.st = Tun!EapTlsState(Tun!Emitted(u))] ELSE own
      ELSE /\ tun' = u
           /\ IF method = "TLS" THEN Tun!Return(Tun!Continue(Tun!AckFrame)) ELSE Tun!Proceed("inner")
           /\ UNCHANGED own
  BY DEF Tun!Flush
<1>2. TunType(u) /\ u.tls.out = <<>> /\ u.done = tun.done
  BY <1>0, RefilledIs
<1>3. orderly /\ tun.tx.offset = 0 => Flow(u, heard)
  BY <1>0, FlowRefilled
<1>4. method = "TLS" => tun.tx.offset = 0
  BY <1>0, EmptyTx
<1>5. orderly /\ tun.tx.offset # 0 => \A p, e : Cut(u, p, e) => p # [i \in 1 .. Len(p) |-> heard + i]
  <2> SUFFICES ASSUME orderly, tun.tx.offset # 0, NEW p, NEW e, Cut(u, p, e)
               PROVE  p # [i \in 1 .. Len(p) |-> heard + i]
    OBVIOUS
  <2>1. tun.tx.offset \in 0 .. Len(tun.tx.bytes)
    BY <1>0 DEF TunType
  <2>2. tun.tx.offset > 0
    BY <2>1
  <2>3. u = Tun!RefillPendingTx(tun)
    BY <1>4
  <2>4. Cut(Tun!RefillPendingTx(tun), p, e)
    BY <2>3
  <2> QED
    BY <1>0, <2>2, <2>4, FlowBroken
<1>6. tun.tx.offset # 0 => tun.tx.offset > 0
  <2>1. tun.tx.offset \in 0 .. Len(tun.tx.bytes)
    BY <1>0 DEF TunType
  <2> QED
    BY <2>1
<1> HIDE DEF u
<1>7. CASE Tun!HasPendingTx(u)
  <2>1. /\ Tun!Ship(u)
        /\ own' = IF method = "TLS" THEN [own EXCEPT !.st = Tun!EapTlsState(Tun!Emitted(u))] ELSE own
    BY <1>1, <1>7
  <2>2. orderly => \/ Flow(u, heard)
                   \/ \A p, e : Cut(u, p, e) => p # [i \in 1 .. Len(p) |-> heard + i]
    BY <1>3, <1>5
  <2>3. /\ TunType(tun') /\ at' = "idle" /\ said'.k = "continue" /\ tun' = Tun!Emitted(u)
        /\ Cut(u, Tun!Parse(said'.msg).payload, tun')
        /\ heard' \in Nat /\ orderly' \in BOOLEAN
        /\ orderly' => orderly /\ Flow(tun', heard')
        /\ orderly /\ Flow(u, heard) => orderly'
    BY <1>0, <1>2, <1>7, <2>1, <2>2, Ships
  <2>4. orderly /\ ~orderly' => method # "TLS" /\ tun.tx.offset > 0
    BY <1>0, <1>3, <1>4, <1>6, <2>3
  <2>5. tun'.tls.out = <<>>
    BY <1>2, <2>3 DEF Cut
  <2>6. StreamInv'
    BY <1>0, <2>3, <2>4, <2>5 DEF StreamInv
  <2>7. DOMAIN own' = DOMAIN own /\ (method = "TLS" => own'.st = Tun!EapTlsState(tun'))
    <3>1. "st" \in DOMAIN own
      BY MethodFields DEF EapTlsInv
    <3> QED
      BY <2>1, <2>3, <3>1
  <2>8. EapTlsInv'
    BY <1>0, <2>3, <2>7 DEF EapTlsInv, Tun!EapTlsState
  <2> QED
    BY <2>4, <2>6, <2>8 DEF StreamKept
<1>8. CASE ~Tun!HasPendingTx(u)
  <2>1. /\ tun' = u /\ UNCHANGED own
        /\ IF method = "TLS" THEN Tun!Return(Tun!Continue(Tun!AckFrame)) ELSE Tun!Proceed("inner")
    BY <1>1, <1>8
  <2>2. u.tx.bytes = <<>>
    BY <1>2, <1>8, NoPending
  <2>3. orderly => Flow(u, heard)
    <3>1. SUFFICES ASSUME orderly, tun.tx.offset # 0 PROVE FALSE
      BY <1>3
    <3>2. u = Tun!RefillPendingTx(tun)
      BY <1>4, <3>1 DEF u
    <3>3. tun.tx.bytes \o tun.tls.out = <<>>
      BY <1>0, <2>2, <3>2, RefilledIs
    <3>4. tun.tx.bytes \in Seq(Nat) /\ tun.tls.out \in Seq(Nat) /\ tun.tx.offset \in 0 .. Len(tun.tx.bytes)
      BY <1>0 DEF TunType
    <3>5. /\ Len(tun.tx.bytes) \in Nat /\ Len(tun.tls.out) \in Nat
          /\ Len(tun.tx.bytes \o tun.tls.out) = Len(tun.tx.bytes) + Len(tun.tls.out)
      BY <3>4, JoinedIs
    <3>6. Len(<<>>) = 0
      OBVIOUS
    <3>7. Len(tun.tx.bytes) = 0
      BY <3>3, <3>5, <3>6
    <3> QED
      BY <3>1, <3>4, <3>7
  <2>4. CASE method = "TLS"
    <3>1. /\ at' = "idle" /\ said'.k = "continue" /\ orderly' = orderly /\ heard' = heard
      BY <1>0, <2>1, <2>4, Acks
    <3>2. StreamInv'
      BY <1>0, <1>2, <2>1, <2>3, <2>4, <3>1 DEF StreamInv
    <3>3. EapTlsInv'
      BY <1>0, <1>8, <2>1, <2>4, <3>1 DEF EapTlsInv
    <3> QED
      BY <3>1, <3>2, <3>3 DEF StreamKept
  <2>5. CASE method # "TLS"
    <3>1. at' = "inner" /\ UNCHANGED said
      BY <2>1, <2>5 DEF Tun!Proceed
    <3>2. orderly' = orderly /\ heard' = heard
      BY <3>1, Quiet
    <3>3. StreamInv'
      BY <1>0, <1>2, <2>1, <2>2, <2>3, <2>5, <3>1, <3>2 DEF StreamInv
    <3>4. EapTlsInv'
      BY <1>0, <2>1, <2>5 DEF EapTlsInv
    <3> QED
      BY <3>2, <3>3, <3>4 DEF StreamKept
  <2> QED
    BY <2>4, <2>5
<1> QED
  BY <1>7, <1>8

LEMMA JudgeAvpsKeeps ==
    ASSUME StreamInv, EapTlsInv, Tun!Observe, Tun!JudgeAvps
    PROVE  StreamKept
<1>0. at = "inner" /\ UNCHANGED <<method, tun>> /\ method # "TLS" /\ TunType(tun) /\ tun.tx.bytes = <<>>
  BY DEF Tun!JudgeAvps, StreamInv
<1>1. DOMAIN own' = DOMAIN own
  BY DEF Tun!JudgeAvps
<1>2. \/ at' = "idle" /\ said'.k = "error"
      \/ at' = "conclude" /\ UNCHANGED said
  BY DEF Tun!JudgeAvps, Tun!Return, Tun!Error, Tun!Proceed
<1>3. CASE at' = "idle" /\ said'.k = "error"
  BY <1>0, <1>1, <1>3, StreamEnds
<1>4. CASE at' = "conclude" /\ UNCHANGED said
  <2>1. TunType(tun') /\ Wrote(tun, tun', 0)
    BY <1>0, WroteNothing
  <2> QED
    BY <1>0, <1>1, <1>4, <2>1, StreamGoes
<1> QED
  BY <1>2, <1>3, <1>4

\* A message of the inner method.
LEMMA WriteInnerKeeps ==
    ASSUME Tun!TunnelAssumption, StreamInv, EapTlsInv, Tun!Observe, UNCHANGED <<method, at, said>>,
           at = "inner", method # "TLS", NEW n, DOMAIN n = DOMAIN own, NEW msg, Tun!WriteInner(n, msg)
    PROVE  StreamKept
<1>1. TunType(tun) /\ tun.tx.bytes = <<>> /\ RecordLen \in Nat
  BY DEF StreamInv, Tun!TunnelAssumption
<1>2. tun' = Tun!WriteAppData(tun, RecordLen) /\ own' = [n EXCEPT !.reqId = msg.id, !.last = msg]
  BY DEF Tun!WriteInner
<1>3. TunType(tun') /\ Wrote(tun, tun', RecordLen)
  BY <1>1, <1>2, AppDataIs
<1>4. DOMAIN own' = DOMAIN own
  BY <1>2
<1> QED
  BY <1>1, <1>3, <1>4, StreamGoes

LEMMA StartInnerKeeps ==
    ASSUME Tun!TunnelAssumption, StreamInv, EapTlsInv, Tun!Observe, Tun!StartInner
    PROVE  StreamKept
<1> DEFINE r == Tun!InnerStart(own.inner)
           n == [own EXCEPT !.started = TRUE, !.inner = r.m]
<1>1. at = "inner" /\ method = "PEAP" /\ UNCHANGED <<method, at, said>> /\ Tun!WriteInner(n, r.out.msg)
  BY DEF Tun!StartInner
<1> HIDE DEF r
<1>2. DOMAIN n = DOMAIN own
  OBVIOUS
<1> QED
  BY <1>1, <1>2, WriteInnerKeeps

LEMMA InnerPacketKeeps ==
    ASSUME Tun!TunnelAssumption, StreamInv, EapTlsInv, Tun!Observe, Tun!InnerPacket
    PROVE  StreamKept
<1> DEFINE pkt == Tun!Packet
           n == [own EXCEPT !.rx = Tun!Unread, !.peerId = pkt.id]
           r == Tun!InnerStep(own.inner, pkt, 1)
           o == [n EXCEPT !.inner = r.m, !.authed = r.m.authed]
<1>0. at = "inner" /\ method = "PEAP" /\ UNCHANGED method /\ TunType(tun) /\ tun.tx.bytes = <<>>
  BY DEF Tun!InnerPacket, StreamInv
<1>1. \/ own' = [n EXCEPT !.awaiting = ~Tun!ResultAcked(pkt)] /\ Tun!Proceed("conclude") /\ UNCHANGED tun
      \/ own' = n /\ Tun!Proceed("conclude") /\ UNCHANGED tun
      \/ Tun!Return(Tun!Error) /\ UNCHANGED <<tun, own>>
      \/ (Tun!WriteInner(o, r.out.msg) \/ Tun!SendResultTlv(o, r.out.k)) /\ UNCHANGED <<at, said>>
  BY DEF Tun!InnerPacket
<1> HIDE DEF pkt, r
<1>2. DOMAIN n = DOMAIN own /\ DOMAIN o = DOMAIN own
  OBVIOUS
<1> HIDE DEF n, o
<1>3. CASE Tun!Proceed("conclude") /\ UNCHANGED tun /\ DOMAIN own' = DOMAIN n
  <2>1. at' = "conclude" /\ UNCHANGED said
    BY <1>3 DEF Tun!Proceed
  <2>2. TunType(tun') /\ Wrote(tun, tun', 0)
    BY <1>0, <1>3, WroteNothing
  <2> QED
    BY <1>0, <1>2, <1>3, <2>1, <2>2, StreamGoes
<1>4. CASE Tun!Return(Tun!Error) /\ UNCHANGED <<tun, own>>
  <2>1. at' = "idle" /\ said'.k = "error"
    BY <1>4 DEF Tun!Return, Tun!Error
  <2> QED
    BY <1>0, <1>4, <2>1, StreamEnds
<1>5. CASE Tun!WriteInner(o, r.out.msg) /\ UNCHANGED <<at, said>>
  BY <1>0, <1>2, <1>5, WriteInnerKeeps
<1>6. CASE Tun!SendResultTlv(o, r.out.k) /\ UNCHANGED <<at, said>>
  <2> DEFINE id == Tun!NextId(o.peerId)
             v == [o EXCEPT !.term = r.out.k, !.tlvId = id, !.awaiting = TRUE]
  <2>1. Tun!WriteInner(v, [id |-> id, typ |-> "TLV", op |-> None, chal |-> None])
    BY <1>6 DEF Tun!SendResultTlv
  <2> HIDE DEF id
  <2>2. DOMAIN v = DOMAIN own
    BY <1>2
  <2> HIDE DEF v
  <2> QED
    BY <1>0, <1>6, <2>1, <2>2, WriteInnerKeeps
<1>7. own' = [n EXCEPT !.awaiting = ~Tun!ResultAcked(pkt)] \/ own' = n => DOMAIN own' = DOMAIN n
  OBVIOUS
<1> QED
  BY <1>1, <1>3, <1>4, <1>5, <1>6, <1>7

LEMMA InnerIdleKeeps ==
    ASSUME StreamInv, EapTlsInv, Tun!Observe, Tun!InnerIdle
    PROVE  StreamKept
<1>1. /\ at = "inner" /\ method = "PEAP" /\ at' = "conclude" /\ UNCHANGED <<method, tun, own, said>>
      /\ TunType(tun) /\ tun.tx.bytes = <<>>
  BY DEF Tun!InnerIdle, Tun!Proceed, StreamInv
<1>2. TunType(tun') /\ Wrote(tun, tun', 0)
  BY <1>1, WroteNothing
<1> QED
  BY <1>1, <1>2, StreamGoes

LEMMA ConcludeKeeps ==
    ASSUME StreamInv, EapTlsInv, Tun!Observe, Tun!Conclude
    PROVE  StreamKept
<1> DEFINE u == Tun!RefillPendingTx(tun)
           o == IF own.term = None \/ own.awaiting THEN Tun!Continue(Tun!AckFrame)
                ELSE IF own.term = "success" THEN Tun!Success ELSE Tun!Failure
<1>0. /\ at = "conclude" /\ UNCHANGED <<method, own>> /\ method # "TLS" /\ TunType(tun)
      /\ tun.tx.bytes = <<>> /\ heard \in Nat /\ orderly \in BOOLEAN /\ (orderly => Flow(tun, heard))
  BY DEF Tun!Conclude, StreamInv, EapTlsInv
<1>1. IF Tun!HasPendingTx(u) THEN Tun!Ship(u) ELSE tun' = u /\ Tun!Return(o)
  BY DEF Tun!Conclude
<1>2. TunType(u) /\ u.tls.out = <<>> /\ (orderly => Flow(u, heard))
  BY <1>0, EmptyTx, RefilledIs, FlowRefilled
<1> HIDE DEF u
<1>3. CASE Tun!HasPendingTx(u)
  <2>1. /\ TunType(tun') /\ at' = "idle" /\ said'.k = "continue"
        /\ Cut(u, Tun!Parse(said'.msg).payload, tun')
        /\ heard' \in Nat /\ orderly' \in BOOLEAN
        /\ orderly' => orderly /\ Flow(tun', heard')
        /\ orderly /\ Flow(u, heard) => orderly'
    BY <1>0, <1>1, <1>2, <1>3, Ships
  <2>2. tun'.tls.out = <<>>
    BY <1>2, <2>1 DEF Cut
  <2>3. StreamInv'
    BY <1>0, <2>1, <2>2 DEF StreamInv
  <2>4. EapTlsInv'
    BY <1>0 DEF EapTlsInv
  <2> QED
    BY <1>0, <1>2, <2>1, <2>3, <2>4 DEF StreamKept
<1>4. CASE ~Tun!HasPendingTx(u)
  <2>1. tun' = u /\ at' = "idle" /\ said' = o
    BY <1>1, <1>4 DEF Tun!Return
  <2>2. said'.k \in {"continue", "success", "failure"}
    BY <2>1 DEF Tun!Continue, Tun!Success, Tun!Failure
  <2>3. orderly' = orderly /\ heard' = heard
    <3>1. CASE own.term = None \/ own.awaiting
      <4>1. Tun!Return(Tun!Continue(Tun!AckFrame))
        BY <1>1, <1>4, <3>1
      <4> QED
        BY <1>0, <4>1, Acks
    <3>2. CASE ~(own.term = None \/ own.awaiting)
      <4>1. said'.k \in {"success", "failure"}
        BY <2>1, <3>2 DEF Tun!Success, Tun!Failure
      <4> QED
        BY <4>1, Quiet
    <3> QED
      BY <3>1, <3>2
  <2>4. StreamInv'
    BY <1>0, <1>2, <2>1, <2>2, <2>3 DEF StreamInv
  <2>5. EapTlsInv'
    BY <1>0 DEF EapTlsInv
  <2> QED
    BY <2>3, <2>4, <2>5 DEF StreamKept
<1> QED
  BY <1>3, <1>4

\* Every step keeps the stream.
LEMMA StreamSteps ==
    ASSUME Tun!TunnelAssumption, StreamInv, EapTlsInv, [Tun!Next]_Tun!vars
    PROVE  StreamKept
<1>1. CASE Tun!Next
  BY <1>1, TunSplits, ReceiveKeeps, EapTlsAckKeeps, DriveKeeps, DrainKeeps, FlushKeeps, JudgeAvpsKeeps,
     StartInnerKeeps, InnerPacketKeeps, InnerIdleKeeps, ConcludeKeeps
<1>2. CASE UNCHANGED Tun!vars
  <2>1. UNCHANGED <<method, tun, own, at, said, heard, orderly>>
    BY <1>2 DEF Tun!vars, Tun!methodVars
  <2>2. StreamInv'
    BY <2>1 DEF StreamInv, TunType, Flow
  <2>3. EapTlsInv'
    BY <2>1 DEF EapTlsInv
  <2> QED
    BY <2>1, <2>2, <2>3 DEF StreamKept
<1> QED
  BY <1>1, <1>2

LEMMA NewTunnelIs ==
    ASSUME Tun!TunnelAssumption, NEW v \in DOMAIN ServerLen, NEW n \in Nat \ {0}
    PROVE  LET u == Tun!NewTunnel(v, n)
           IN /\ TunType(u) /\ Flow(u, 0) /\ u.tx.bytes = <<>> /\ u.tls.out = <<>> /\ ~u.done
              /\ u.tls.written = 0 /\ ~Tun!HasPendingTx(u)
<1> DEFINE u == Tun!NewTunnel(v, n)
<1>1. /\ u.tls = [v |-> v, k |-> 0, in |-> <<>>, out |-> <<>>, written |-> 0]
      /\ u.tx = [bytes |-> <<>>, offset |-> 0] /\ u.mtu = n /\ u.done = FALSE
      /\ u \in [tls : {u.tls}, re : {u.re}, tx : {u.tx}, mtu : {u.mtu}, done : {u.done},
                msg : {u.msg}, err : {u.err}]
  BY DEF Tun!NewTunnel, Tun!NewTls
<1>2. <<>> \in Seq(Nat) /\ Len(<<>>) = 0 /\ 0 \in 0 .. Len(PeerLen)
  <2>1. Len(PeerLen) \in Nat
    BY LenProperties DEF Tun!TunnelAssumption
  <2> QED
    BY <2>1
<1> HIDE DEF u
<1>3. TunType(u)
  <2>1. /\ u.tls.v = v /\ u.tls.k = 0 /\ u.tls.out = <<>> /\ u.tls.written = 0
        /\ u.tx.bytes = <<>> /\ u.tx.offset = 0 /\ 0 \in 0 .. Len(<<>>)
    BY <1>1, <1>2
  <2>2. /\ u.tls \in [v : {u.tls.v}, k : {u.tls.k}, in : {u.tls.in}, out : {u.tls.out},
                      written : {u.tls.written}]
        /\ u.tx \in [bytes : {u.tx.bytes}, offset : {u.tx.offset}]
    BY <1>1
  <2>3. u.mtu \in Nat \ {0} /\ u.done \in BOOLEAN
    BY <1>1
  <2>4. u.tls.v \in DOMAIN ServerLen /\ u.tls.k \in 0 .. Len(PeerLen) /\ u.tls.written \in Nat
    BY <1>2, <2>1
  <2>5. u.tls.out \in Seq(Nat) /\ u.tx.bytes \in Seq(Nat) /\ u.tx.offset \in 0 .. Len(u.tx.bytes)
    BY <1>2, <2>1
  <2> QED
    BY <1>1, <2>1, <2>2, <2>3, <2>4, <2>5, Zenon DEF TunType
<1>4. Flow(u, 0)
  BY <1>1, <1>2 DEF Flow
<1>5. ~Tun!HasPendingTx(u)
  BY <1>1, <1>2 DEF Tun!HasPendingTx, Tun!HasPending
<1> QED
  BY <1>1, <1>3, <1>4, <1>5 DEF u

LEMMA StreamBegins ==
    ASSUME Tun!TunnelAssumption, Tun!ConversationAssumption, Tun!Init
    PROVE  StreamInv /\ EapTlsInv
<1>1. PICK k \in Kinds, v \in DOMAIN ServerLen, z \in Mtus : Tun!MethodInit(k, v, z)
  BY DEF Tun!Init
<1>2. k \in {"TLS", "TTLS", "PEAP"} /\ z \in Nat \ {0}
  BY DEF Tun!ConversationAssumption
<1>3. /\ method = k /\ tun = Tun!NewTunnel(v, z) /\ own = Tun!NewMethod /\ at = "idle"
      /\ said.k = "continue" /\ heard = 0 /\ orderly = TRUE
  BY <1>1 DEF Tun!MethodInit, Tun!Init, Tun!Continue
<1>4. TunType(tun) /\ Flow(tun, 0) /\ tun.tx.bytes = <<>> /\ tun.tls.out = <<>> /\ ~Tun!HasPendingTx(tun)
  BY <1>2, <1>3, NewTunnelIs
<1>5. StreamInv
  BY <1>2, <1>3, <1>4 DEF StreamInv
<1>6. own.st = "Handshaking"
  BY <1>3 DEF Tun!NewMethod
<1>7. EapTlsInv
  BY <1>3, <1>4, <1>6 DEF EapTlsInv
<1> QED
  BY <1>5, <1>7

\* The verdicts.  done is never taken back.
LEMMA VerdictStays ==
    ASSUME VerdictInv, UNCHANGED <<method, own>>, tun.done => tun'.done,
           said'.k = "success" /\ method # "TLS" =>
              own.term = "success" /\ tun'.tx.bytes = <<>> /\ tun'.tls.out = <<>>
    PROVE  VerdictInv'
BY DEF VerdictInv

\* EAP-TLS has none.
LEMMA VerdictOfTls ==
    ASSUME VerdictInv, UNCHANGED method, method = "TLS", NEW s, own' = own \/ own' = [own EXCEPT !.st = s]
    PROVE  VerdictInv'
<1>1. DOMAIN own = DOMAIN Tun!NewMethod /\ "inner" \in DOMAIN own
  BY MethodFields DEF VerdictInv
<1>2. DOMAIN own' = DOMAIN own /\ own'.inner = own.inner
  BY <1>1
<1> QED
  BY <1>1, <1>2 DEF VerdictInv

\* PapInner::process accepts only a user that has a secret.
LEMMA PapIs ==
    ASSUME NEW avps
    PROVE  LET v == Tun!PapProcess(avps)
           IN v.out.k = "success" => Tun!SecretOf(v.authed) # None
BY DEF Tun!PapProcess, Tun!Success, Tun!Failure

\* A step of the inner method succeeds only after it has verified a response, and
\* keeps what it has verified.
LEMMA InnerIs ==
    ASSUME NEW v, DOMAIN v = DOMAIN Tun!NewInner, NEW pkt, NEW fresh,
           v.state = "AwaitingSuccessAck" => Tun!SecretOf(v.authed) # None
    PROVE  LET r == Tun!InnerStep(v, pkt, fresh)
           IN /\ DOMAIN r.m = DOMAIN v
              /\ r.m.state = "AwaitingSuccessAck" => Tun!SecretOf(r.m.authed) # None
              /\ r.out.k \in {"continue", "success", "failure", "error"}
              /\ r.out.k = "success" => r.m.state = "AwaitingSuccessAck"
<1> DEFINE r == Tun!InnerStep(v, pkt, fresh)
           next == Tun!NextId(v.id)
<1>0. DOMAIN v = {"state", "user", "chal", "id", "authed"}
  BY MethodFields
<1>1. \/ /\ r.m = v /\ r.out.k \in {"success", "failure", "error"}
         /\ r.out.k = "success" => v.state = "AwaitingSuccessAck"
      \/ /\ r.m = [v EXCEPT !.state = "AwaitingChallengeResponse", !.user = pkt.body,
                            !.chal = fresh, !.id = next]
         /\ r.out.k = "continue"
      \/ /\ r.m = [v EXCEPT !.state = "AwaitingSuccessAck", !.id = next, !.authed = v.user]
         /\ r.out.k = "continue" /\ Tun!SecretOf(v.user) # None
      \/ r.m = [v EXCEPT !.state = "AwaitingFailureAck", !.id = next] /\ r.out.k = "continue"
  <2>0. /\ Tun!Success.k = "success" /\ Tun!Failure.k = "failure" /\ Tun!Error.k = "error"
        /\ \A op, chal : Tun!Mschap(v, op, chal).k = "continue"
    BY DEF Tun!Success, Tun!Failure, Tun!Error, Tun!Mschap, Tun!Continue
  <2>1. CASE pkt = Garbled \/ pkt.code # "Response"
    <3>1. r = Tun!Result(v, Tun!Error)
      BY <2>1 DEF Tun!InnerStep
    <3> QED
      BY <2>0, <3>1 DEF Tun!Result
  <2>2. CASE ~(pkt = Garbled \/ pkt.code # "Response") /\ v.state = "AwaitingIdentity" /\ pkt.typ = "Identity"
    BY <2>0, <2>2 DEF Tun!InnerStep, Tun!Result
  <2>3. CASE ~(pkt = Garbled \/ pkt.code # "Response") /\ v.state = "AwaitingChallengeResponse" /\ pkt.typ = "MSCHAPv2"
    <3>1. r = Tun!InnerVerify(v, pkt)
      BY <2>3 DEF Tun!InnerStep
    <3> QED
      BY <2>0, <3>1 DEF Tun!InnerVerify, Tun!Result, Tun!Proves
  <2>4. CASE /\ ~(pkt = Garbled \/ pkt.code # "Response")
             /\ v.state \in {"AwaitingSuccessAck", "AwaitingFailureAck"} /\ pkt.typ = "MSCHAPv2"
    <3>1. r = Tun!InnerAck(v, pkt)
      BY <2>4 DEF Tun!InnerStep
    <3> QED
      BY <2>0, <2>4, <3>1 DEF Tun!InnerAck, Tun!Result
  <2>5. CASE /\ ~(pkt = Garbled \/ pkt.code # "Response")
             /\ ~(v.state = "AwaitingIdentity" /\ pkt.typ = "Identity")
             /\ ~(v.state = "AwaitingChallengeResponse" /\ pkt.typ = "MSCHAPv2")
             /\ ~(v.state \in {"AwaitingSuccessAck", "AwaitingFailureAck"} /\ pkt.typ = "MSCHAPv2")
    <3>1. r = Tun!Result(v, Tun!Error)
      BY <2>5 DEF Tun!InnerStep
    <3> QED
      BY <2>0, <3>1 DEF Tun!Result
  <2> QED
    BY <2>1, <2>2, <2>3, <2>4, <2>5, Zenon
<1> HIDE DEF r, next
<1>2. /\ DOMAIN r.m = DOMAIN v
      /\ r.m.state = "AwaitingSuccessAck" => Tun!SecretOf(r.m.authed) # None
      /\ r.out.k \in {"continue", "success", "failure", "error"}
      /\ r.out.k = "success" => r.m.state = "AwaitingSuccessAck"
  BY <1>0, <1>1
<1> QED
  BY <1>2 DEF r

\* The inner state of PEAP, and the verdict that goes with it.
PeapStands(o, done) ==
    /\ DOMAIN o = DOMAIN Tun!NewMethod /\ DOMAIN o.inner = DOMAIN Tun!NewInner
    /\ o.rx # <<>> \/ o.started => done
    /\ o.term # None => o.started
    /\ o.inner.state = "AwaitingSuccessAck" => Tun!SecretOf(o.inner.authed) # None
    /\ o.term = "success" =>
          o.inner.state = "AwaitingSuccessAck" /\ o.authed = o.inner.authed /\ o.last.typ = "TLV"

LEMMA VerdictOfPeap ==
    ASSUME method = "PEAP", UNCHANGED method
    PROVE  /\ VerdictInv => PeapStands(own, tun.done)
           /\ PeapStands(own', tun'.done) /\ said'.k # "success" => VerdictInv'
BY DEF VerdictInv, PeapStands

LEMMA OwnSets ==
    ASSUME NEW o, DOMAIN o = {"st", "rx", "term", "authed", "inner", "started", "peerId", "reqId",
                              "awaiting", "tlvId", "last"}, NEW x, NEW y, NEW z
    PROVE  /\ LET p == [o EXCEPT !.reqId = x, !.last = y]
              IN /\ DOMAIN p = DOMAIN o /\ p.last = y
                 /\ p.rx = o.rx /\ p.term = o.term /\ p.authed = o.authed /\ p.inner = o.inner
                 /\ p.started = o.started
           /\ LET p == [o EXCEPT !.started = x, !.inner = y]
              IN /\ DOMAIN p = DOMAIN o /\ p.started = x /\ p.inner = y
                 /\ p.rx = o.rx /\ p.term = o.term /\ p.authed = o.authed /\ p.last = o.last
           /\ LET p == [o EXCEPT !.rx = x, !.peerId = y]
              IN /\ DOMAIN p = DOMAIN o /\ p.rx = x
                 /\ p.term = o.term /\ p.authed = o.authed /\ p.inner = o.inner
                 /\ p.started = o.started /\ p.last = o.last
           /\ LET p == [o EXCEPT !.inner = x, !.authed = y]
              IN /\ DOMAIN p = DOMAIN o /\ p.inner = x /\ p.authed = y
                 /\ p.rx = o.rx /\ p.term = o.term /\ p.started = o.started /\ p.last = o.last
           /\ LET p == [o EXCEPT !.term = x, !.tlvId = y, !.awaiting = z]
              IN /\ DOMAIN p = DOMAIN o /\ p.term = x
                 /\ p.rx = o.rx /\ p.authed = o.authed /\ p.inner = o.inner
                 /\ p.started = o.started /\ p.last = o.last
           /\ LET p == [o EXCEPT !.awaiting = x]
              IN /\ DOMAIN p = DOMAIN o /\ p.rx = o.rx /\ p.term = o.term /\ p.authed = o.authed
                 /\ p.inner = o.inner /\ p.started = o.started /\ p.last = o.last
           /\ LET p == [o EXCEPT !.rx = x]
              IN /\ DOMAIN p = DOMAIN o /\ p.rx = x /\ p.term = o.term /\ p.authed = o.authed
                 /\ p.inner = o.inner /\ p.started = o.started /\ p.last = o.last
           /\ LET p == [o EXCEPT !.rx = x, !.term = y, !.authed = z]
              IN DOMAIN p = DOMAIN o /\ p.term = y /\ p.authed = z /\ p.inner = o.inner
OBVIOUS

LEMMA DrainVerdict ==
    ASSUME StreamInv, EapTlsInv, VerdictInv, Tun!Drain
    PROVE  VerdictInv'
<1>0. /\ at = "drain" /\ UNCHANGED method /\ method # "TLS" /\ TunType(tun) /\ said.k = "continue"
      /\ DOMAIN own = {"st", "rx", "term", "authed", "inner", "started", "peerId", "reqId",
                       "awaiting", "tlvId", "last"}
  BY MethodFields DEF Tun!Drain, EapTlsInv, StreamInv
<1>1. said'.k # "success"
  BY <1>0 DEF Tun!Drain, Tun!Return, Tun!Error, Tun!Proceed
<1>2. CASE UNCHANGED <<tun, own>>
  BY <1>0, <1>1, <1>2, VerdictStays
<1>3. CASE tun.done /\ ~Tun!Undecryptable(tun)
  <2> DEFINE x == own.rx \o Tun!Decrypted(tun)
  <2>1. tun' = Tun!Drained(tun) /\ own' = [own EXCEPT !.rx = x]
    BY <1>3 DEF Tun!Drain
  <2>2. tun'.done
    BY <1>0, <1>3, <2>1, DrainedIs
  <2> HIDE DEF x
  <2>3. /\ DOMAIN own' = DOMAIN own /\ own'.rx = x /\ own'.term = own.term /\ own'.authed = own.authed
        /\ own'.inner = own.inner /\ own'.started = own.started /\ own'.last = own.last
    BY <1>0, <2>1, OwnSets
  <2> QED
    BY <1>0, <1>1, <2>2, <2>3 DEF VerdictInv
<1> QED
  BY <1>2, <1>3 DEF Tun!Drain

LEMMA JudgeAvpsVerdict ==
    ASSUME StreamInv, VerdictInv, Tun!JudgeAvps
    PROVE  VerdictInv'
<1>0. /\ at = "inner" /\ UNCHANGED <<method, tun>> /\ method = "TTLS" /\ said.k = "continue"
      /\ DOMAIN own = {"st", "rx", "term", "authed", "inner", "started", "peerId", "reqId",
                       "awaiting", "tlvId", "last"}
  BY MethodFields DEF Tun!JudgeAvps, StreamInv, VerdictInv
<1>1. said'.k # "success"
  BY <1>0 DEF Tun!JudgeAvps, Tun!Return, Tun!Error, Tun!Proceed
<1>2. CASE UNCHANGED own
  BY <1>0, <1>1, <1>2, VerdictStays
<1>3. CASE ~UNCHANGED own
  <2> DEFINE lists == [i \in DOMAIN own.rx |-> PeerAvps[own.rx[i]]]
             v == Tun!PapProcess(Tun!FlattenSeq(lists))
  <2>1. tun.done /\ own' = [own EXCEPT !.rx = <<>>, !.term = v.out.k, !.authed = v.authed]
    BY <1>3 DEF Tun!JudgeAvps
  <2>2. v.out.k = "success" => Tun!SecretOf(v.authed) # None
    BY PapIs
  <2> HIDE DEF v
  <2>3. DOMAIN own' = DOMAIN own /\ own'.term = v.out.k /\ own'.authed = v.authed /\ own'.inner = own.inner
    BY <1>0, <2>1, OwnSets
  <2> QED
    BY <1>0, <1>1, <2>1, <2>2, <2>3 DEF VerdictInv
<1> QED
  BY <1>2, <1>3

\* write_inner
LEMMA WriteInnerVerdict ==
    ASSUME Tun!TunnelAssumption, StreamInv, method = "PEAP", UNCHANGED <<method, said>>, at = "inner",
           tun.done, NEW n, NEW msg, Tun!WriteInner(n, msg),
           PeapStands([n EXCEPT !.reqId = msg.id, !.last = msg], TRUE)
    PROVE  VerdictInv'
<1>1. TunType(tun) /\ RecordLen \in Nat /\ said.k = "continue"
  BY DEF StreamInv, Tun!TunnelAssumption
<1>2. tun' = Tun!WriteAppData(tun, RecordLen) /\ own' = [n EXCEPT !.reqId = msg.id, !.last = msg]
  BY DEF Tun!WriteInner
<1>3. tun'.done
  BY <1>1, <1>2, AppDataIs
<1>4. PeapStands(own', tun'.done)
  BY <1>2, <1>3 DEF PeapStands
<1> QED
  BY <1>1, <1>4, VerdictOfPeap

LEMMA StartInnerVerdict ==
    ASSUME Tun!TunnelAssumption, Tun!ConversationAssumption, StreamInv, VerdictInv, Tun!StartInner
    PROVE  VerdictInv'
<1> DEFINE r == Tun!InnerStart(own.inner)
           n == [own EXCEPT !.started = TRUE, !.inner = r.m]
           o == [n EXCEPT !.reqId = r.out.msg.id, !.last = r.out.msg]
<1>1. /\ at = "inner" /\ method = "PEAP" /\ UNCHANGED <<method, at, said>> /\ Tun!WriteInner(n, r.out.msg)
      /\ tun.done /\ ~own.started
  BY DEF Tun!StartInner
<1>2. PeapStands(own, tun.done)
  BY <1>1, VerdictOfPeap
<1>3. /\ DOMAIN r.m = DOMAIN own.inner /\ r.m.state = own.inner.state /\ r.m.authed = own.inner.authed
  <2>1. DOMAIN own.inner = {"state", "user", "chal", "id", "authed"}
    BY <1>2, MethodFields DEF PeapStands
  <2>2. r.m = [own.inner EXCEPT !.id = Tun!NextId(own.inner.id)]
    BY DEF Tun!InnerStart, Tun!Result
  <2> QED
    BY <2>1, <2>2
<1> HIDE DEF r
<1>4. DOMAIN own = {"st", "rx", "term", "authed", "inner", "started", "peerId", "reqId",
                    "awaiting", "tlvId", "last"}
  BY <1>2, MethodFields DEF PeapStands
<1>5. /\ DOMAIN n = DOMAIN own /\ n.started = TRUE /\ n.inner = r.m
      /\ n.rx = own.rx /\ n.term = own.term /\ n.authed = own.authed /\ n.last = own.last
  BY <1>4, OwnSets
<1> HIDE DEF n
<1>6. /\ DOMAIN o = DOMAIN n /\ o.started = TRUE /\ o.inner = r.m /\ o.term = own.term
  BY <1>4, <1>5, OwnSets
<1> HIDE DEF o
<1>7. own.term = None
  BY <1>1, <1>2 DEF PeapStands
<1>8. PeapStands(o, TRUE)
  <2>1. own.term # "success"
    BY <1>7 DEF Tun!ConversationAssumption
  <2> QED
    BY <1>2, <1>3, <1>5, <1>6, <1>7, <2>1 DEF PeapStands
<1> QED
  BY <1>1, <1>8, WriteInnerVerdict DEF o

LEMMA InnerPacketVerdict ==
    ASSUME Tun!TunnelAssumption, Tun!ConversationAssumption, StreamInv, VerdictInv, Tun!InnerPacket
    PROVE  VerdictInv'
<1> DEFINE pkt == Tun!Packet
           x == Tun!Unread
           n == [own EXCEPT !.rx = x, !.peerId = pkt.id]
           r == Tun!InnerStep(own.inner, pkt, 1)
           o == [n EXCEPT !.inner = r.m, !.authed = r.m.authed]
<1>0. at = "inner" /\ method = "PEAP" /\ UNCHANGED method /\ said.k = "continue"
  BY DEF Tun!InnerPacket, StreamInv
<1>1. PeapStands(own, tun.done)
  BY <1>0, VerdictOfPeap
<1>2. tun.done /\ own.started
  <2>1. own.rx # <<>> /\ (tun.done => own.started)
    BY DEF Tun!InnerPacket
  <2> QED
    BY <1>1, <2>1 DEF PeapStands
<1>3. \/ own' = [n EXCEPT !.awaiting = ~Tun!ResultAcked(pkt)] /\ Tun!Proceed("conclude") /\ UNCHANGED tun
      \/ own' = n /\ Tun!Proceed("conclude") /\ UNCHANGED tun
      \/ Tun!Return(Tun!Error) /\ UNCHANGED <<tun, own>>
      \/ own.term = None /\ r.out.k = "continue" /\ Tun!WriteInner(o, r.out.msg) /\ UNCHANGED <<at, said>>
      \/ /\ own.term = None /\ r.out.k \notin {"continue", "error"} /\ Tun!SendResultTlv(o, r.out.k)
         /\ UNCHANGED <<at, said>>
  BY DEF Tun!InnerPacket
<1>4. /\ DOMAIN own.inner = DOMAIN Tun!NewInner
      /\ DOMAIN own = {"st", "rx", "term", "authed", "inner", "started", "peerId", "reqId",
                       "awaiting", "tlvId", "last"}
      /\ DOMAIN own = DOMAIN Tun!NewMethod
  BY <1>1, MethodFields DEF PeapStands
<1>5. /\ DOMAIN r.m = DOMAIN own.inner
      /\ r.m.state = "AwaitingSuccessAck" => Tun!SecretOf(r.m.authed) # None
      /\ r.out.k \in {"continue", "success", "failure", "error"}
      /\ r.out.k = "success" => r.m.state = "AwaitingSuccessAck"
  BY <1>1, <1>4, InnerIs DEF PeapStands
<1> HIDE DEF pkt, x, r
<1>6. /\ DOMAIN n = DOMAIN own /\ n.rx = x /\ n.term = own.term /\ n.authed = own.authed
      /\ n.inner = own.inner /\ n.started = own.started /\ n.last = own.last
  BY <1>4, OwnSets
<1> HIDE DEF n
<1>7. /\ DOMAIN o = DOMAIN own /\ o.inner = r.m /\ o.authed = r.m.authed
      /\ o.rx = x /\ o.term = own.term /\ o.started = own.started /\ o.last = own.last
  BY <1>4, <1>6, OwnSets
<1> HIDE DEF o
<1>8. CASE own' = [n EXCEPT !.awaiting = ~Tun!ResultAcked(pkt)] /\ Tun!Proceed("conclude") /\ UNCHANGED tun
  <2> DEFINE a == ~Tun!ResultAcked(pkt)
             p == [n EXCEPT !.awaiting = a]
  <2> HIDE DEF a
  <2>1. /\ DOMAIN p = DOMAIN own /\ p.rx = x /\ p.term = own.term /\ p.authed = own.authed
        /\ p.inner = own.inner /\ p.started = own.started /\ p.last = own.last
    BY <1>4, <1>6, OwnSets
  <2>2. own' = p /\ said'.k # "success" /\ tun'.done
    BY <1>0, <1>2, <1>8 DEF Tun!Proceed, a
  <2> HIDE DEF p
  <2>3. PeapStands(own', tun'.done)
    BY <1>1, <1>2, <2>1, <2>2 DEF PeapStands
  <2> QED
    BY <1>0, <2>2, <2>3, VerdictOfPeap
<1>9. CASE own' = n /\ Tun!Proceed("conclude") /\ UNCHANGED tun
  <2>1. said'.k # "success" /\ tun'.done
    BY <1>0, <1>2, <1>9 DEF Tun!Proceed
  <2>2. PeapStands(own', tun'.done)
    BY <1>1, <1>2, <1>6, <1>9, <2>1 DEF PeapStands
  <2> QED
    BY <1>0, <2>1, <2>2, VerdictOfPeap
<1>10. CASE Tun!Return(Tun!Error) /\ UNCHANGED <<tun, own>>
  <2>1. said'.k = "error"
    BY <1>10 DEF Tun!Return, Tun!Error
  <2> QED
    BY <1>0, <1>10, <2>1, VerdictStays
<1>11. CASE own.term = None /\ Tun!WriteInner(o, r.out.msg) /\ UNCHANGED <<at, said>>
  <2> DEFINE g == r.out.msg
             p == [o EXCEPT !.reqId = g.id, !.last = g]
  <2>0. Tun!WriteInner(o, g)
    BY <1>11
  <2> HIDE DEF g
  <2>1. DOMAIN p = DOMAIN own /\ p.term = own.term /\ p.inner = r.m /\ p.started = own.started
    BY <1>4, <1>7, OwnSets
  <2> HIDE DEF p
  <2>2. p.term # "success"
    BY <1>11, <2>1 DEF Tun!ConversationAssumption
  <2>3. PeapStands(p, TRUE)
    BY <1>2, <1>4, <1>5, <1>11, <2>1, <2>2 DEF PeapStands
  <2> QED
    BY <1>0, <1>2, <1>11, <2>0, <2>3, WriteInnerVerdict DEF p
<1>12. CASE /\ own.term = None /\ r.out.k \notin {"continue", "error"} /\ Tun!SendResultTlv(o, r.out.k)
            /\ UNCHANGED <<at, said>>
  <2> DEFINE id == Tun!NextId(o.peerId)
             v == [o EXCEPT !.term = r.out.k, !.tlvId = id, !.awaiting = TRUE]
             g == [id |-> id, typ |-> "TLV", op |-> None, chal |-> None]
             p == [v EXCEPT !.reqId = g.id, !.last = g]
  <2>1. Tun!WriteInner(v, g)
    BY <1>12 DEF Tun!SendResultTlv
  <2>2. g.typ = "TLV"
    OBVIOUS
  <2> HIDE DEF id, g
  <2>3. /\ DOMAIN v = DOMAIN own /\ v.term = r.out.k
        /\ v.rx = o.rx /\ v.authed = o.authed /\ v.inner = o.inner
        /\ v.started = o.started /\ v.last = o.last
    BY <1>4, <1>7, OwnSets
  <2> HIDE DEF v
  <2>4. /\ DOMAIN p = DOMAIN own /\ p.term = r.out.k /\ p.inner = r.m /\ p.authed = r.m.authed
        /\ p.started = own.started /\ p.last = g
    <3>1. /\ DOMAIN p = DOMAIN v /\ p.term = v.term /\ p.inner = v.inner /\ p.authed = v.authed
          /\ p.started = v.started /\ p.last = g
      BY <1>4, <2>3, OwnSets
    <3> HIDE DEF p
    <3> QED
      BY <1>7, <2>3, <3>1
  <2> HIDE DEF p
  <2>5. PeapStands(p, TRUE)
    BY <1>2, <1>4, <1>5, <2>2, <2>4 DEF PeapStands
  <2> QED
    BY <1>0, <1>2, <1>12, <2>1, <2>5, WriteInnerVerdict DEF p
<1> QED
  BY <1>3, <1>8, <1>9, <1>10, <1>11, <1>12

LEMMA DriveDone ==
    ASSUME Tun!TunnelAssumption, StreamInv, Tun!Drive
    PROVE  (tun.done => tun'.done) /\ said'.k # "success" /\ UNCHANGED <<method, own>>
<1> DEFINE u == Tun!FeedAndDrive(tun)
           just == u.done /\ ~tun.done
           bad == u.err \/ (method = "TLS" /\ just /\ u.tls.in # <<>>)
           w == IF just /\ method # "TTLS" /\ tun.tls.v = "1.3" THEN Tun!WriteAppData(u, RecordLen) ELSE u
<1>0. at = "drive" /\ said.k = "continue" /\ TunType(tun) /\ UNCHANGED <<method, own>>
  BY DEF Tun!Drive, StreamInv
<1>1. IF bad THEN Tun!Return(Tun!Error) /\ UNCHANGED tun
      ELSE tun' = w /\ Tun!Proceed(IF method = "TLS" THEN "flush" ELSE "drain")
  BY DEF Tun!Drive
<1>2. said'.k # "success"
  BY <1>0, <1>1 DEF Tun!Return, Tun!Error, Tun!Proceed
<1>3. ASSUME tun.done, ~bad PROVE tun'.done
  <2>1. u.done
    BY <1>0, <1>3, DrivenIs
  <2>2. tun' = u
    BY <1>1, <1>3
  <2> QED
    BY <2>1, <2>2
<1> QED
  BY <1>0, <1>1, <1>2, <1>3

LEMMA FlushVerdict ==
    ASSUME StreamInv, VerdictInv, Tun!Flush
    PROVE  VerdictInv'
<1> DEFINE u == IF method = "TLS" /\ tun.msg = None THEN tun ELSE Tun!RefillPendingTx(tun)
<1>0. at = "flush" /\ UNCHANGED method /\ TunType(tun) /\ said.k = "continue"
  BY DEF Tun!Flush, StreamInv
<1>1. CASE method = "TLS"
  <2>1. own' = own \/ \E s : own' = [own EXCEPT !.st = s]
    BY <1>1 DEF Tun!Flush
  <2> QED
    BY <1>0, <1>1, <2>1, VerdictOfTls
<1>2. CASE method # "TLS"
  <2>1. TunType(u) /\ u.done = tun.done
    BY <1>0, <1>2, RefilledIs
  <2>2. UNCHANGED own /\ said'.k = "continue" /\ (tun' = u \/ (tun' = Tun!Emitted(u) /\ Tun!HasPendingTx(u)))
    BY <1>0, <1>2 DEF Tun!Flush, Tun!Ship, Tun!Return, Tun!Continue, Tun!Proceed
  <2> HIDE DEF u
  <2>3. tun'.done = tun.done
    BY <2>1, <2>2, EmittedIs DEF Cut
  <2> QED
    BY <1>0, <2>2, <2>3, VerdictStays
<1> QED
  BY <1>1, <1>2

LEMMA ConcludeVerdict ==
    ASSUME StreamInv, EapTlsInv, VerdictInv, Tun!Conclude
    PROVE  VerdictInv'
<1> DEFINE u == Tun!RefillPendingTx(tun)
           o == IF own.term = None \/ own.awaiting THEN Tun!Continue(Tun!AckFrame)
                ELSE IF own.term = "success" THEN Tun!Success ELSE Tun!Failure
<1>0. at = "conclude" /\ UNCHANGED <<method, own>> /\ method # "TLS" /\ TunType(tun)
  BY DEF Tun!Conclude, StreamInv, EapTlsInv
<1>1. IF Tun!HasPendingTx(u) THEN Tun!Ship(u) ELSE tun' = u /\ Tun!Return(o)
  BY DEF Tun!Conclude
<1>2. TunType(u) /\ u.tls.out = <<>> /\ u.done = tun.done
  BY <1>0, RefilledIs
<1> HIDE DEF u
<1>3. CASE Tun!HasPendingTx(u)
  <2>1. said'.k = "continue" /\ tun' = Tun!Emitted(u)
    BY <1>1, <1>3 DEF Tun!Ship, Tun!Return, Tun!Continue
  <2>2. tun'.done = tun.done
    BY <1>2, <1>3, <2>1, EmittedIs DEF Cut
  <2> QED
    BY <1>0, <2>1, <2>2, VerdictStays
<1>4. CASE ~Tun!HasPendingTx(u)
  <2>1. tun' = u /\ said' = o
    BY <1>1, <1>4 DEF Tun!Return
  <2>2. said'.k = "success" => own.term = "success"
    BY <2>1 DEF Tun!Continue, Tun!Success, Tun!Failure
  <2>3. u.tx.bytes = <<>>
    BY <1>2, <1>4, NoPending
  <2> QED
    BY <1>0, <1>2, <2>1, <2>2, <2>3, VerdictStays
<1> QED
  BY <1>3, <1>4

\* Every step keeps what the verdicts stand on.
LEMMA VerdictSteps ==
    ASSUME Tun!TunnelAssumption, Tun!ConversationAssumption, StreamInv, EapTlsInv, VerdictInv,
           [Tun!Next]_Tun!vars
    PROVE  VerdictInv'
<1>1. ASSUME NEW td, Tun!Receive(td) PROVE VerdictInv'
  <2> DEFINE u == Tun!IngestPeerFrame(tun, td)
  <2>1. TunType(tun) /\ said.k = "continue" /\ UNCHANGED <<method, own>>
    BY <1>1 DEF Tun!Receive, StreamInv
  <2>2. u.done = tun.done
    BY <2>1, IngestedIs
  <2>3. said'.k # "success" /\ (UNCHANGED tun \/ tun' = u)
    BY <1>1, <2>1 DEF Tun!Receive, Tun!Return, Tun!Error, Tun!Proceed
  <2> HIDE DEF u
  <2> QED
    BY <2>1, <2>2, <2>3, VerdictStays
<1>2. ASSUME NEW td, Tun!EapTlsAck(td) PROVE VerdictInv'
  <2>1. method = "TLS" /\ UNCHANGED method /\ \E s : own' = [own EXCEPT !.st = s]
    BY <1>2 DEF Tun!EapTlsAck, Tun!AwaitsAck
  <2> QED
    BY <2>1, VerdictOfTls
<1>3. CASE Tun!Drive
  BY <1>3, DriveDone, VerdictStays
<1>4. CASE Tun!InnerIdle
  <2>1. UNCHANGED <<method, own, tun, said>> /\ said.k = "continue"
    BY <1>4 DEF Tun!InnerIdle, Tun!Proceed, StreamInv
  <2> QED
    BY <2>1, VerdictStays
<1>5. CASE UNCHANGED Tun!vars
  <2>1. UNCHANGED <<method, tun, own, said>>
    BY <1>5 DEF Tun!vars, Tun!methodVars
  <2> QED
    BY <2>1 DEF VerdictInv
<1> QED
  BY <1>1, <1>2, <1>3, <1>4, <1>5, TunSplits, DrainVerdict, FlushVerdict, JudgeAvpsVerdict,
     StartInnerVerdict, InnerPacketVerdict, ConcludeVerdict

-----------------------------------------------------------------------------
\* The flights: what the operations make of the bytes of the handshake and
\* those after it.
LEMMA NoBytes == \A n : Upto(<<>>, n) /\ Above(<<>>, n)
<1>1. Len(<<>>) = 0 /\ 1 .. 0 = {}
  OBVIOUS
<1> QED
  BY <1>1 DEF Upto, Above

LEMMA JoinedBounds ==
    ASSUME NEW s \in Seq(Nat), NEW r \in Seq(Nat), NEW n \in Nat
    PROVE  /\ Upto(s, n) /\ Upto(r, n) => Upto(s \o r, n)
           /\ Above(s, n) /\ Above(r, n) => Above(s \o r, n)
<1>1. /\ Len(s) \in Nat /\ Len(r) \in Nat /\ Len(s \o r) = Len(s) + Len(r)
      /\ \A i \in 1 .. Len(s) + Len(r) : (s \o r)[i] = IF i <= Len(s) THEN s[i] ELSE r[i - Len(s)]
  BY JoinedIs
<1>2. ASSUME NEW i \in 1 .. Len(s) + Len(r)
      PROVE  \/ i \in 1 .. Len(s) /\ (s \o r)[i] = s[i]
             \/ i - Len(s) \in 1 .. Len(r) /\ (s \o r)[i] = r[i - Len(s)]
  BY <1>1
<1>3. ASSUME Upto(s, n), Upto(r, n), NEW i \in 1 .. Len(s) + Len(r) PROVE (s \o r)[i] <= n
  BY <1>2, <1>3 DEF Upto
<1>4. ASSUME Above(s, n), Above(r, n), NEW i \in 1 .. Len(s) + Len(r) PROVE (s \o r)[i] > n
  BY <1>2, <1>4 DEF Above
<1> QED
  BY <1>1, <1>3, <1>4 DEF Upto, Above

\* What is written now comes after what was.
LEMMA CountBounds ==
    ASSUME NEW n \in Nat, NEW w \in Nat, NEW f \in Nat, f <= w
    PROVE  LET s == [j \in 1 .. n |-> w + j]
           IN Upto(s, w + n) /\ Above(s, f)
<1> DEFINE s == [j \in 1 .. n |-> w + j]
<1>1. s \in Seq(Nat) /\ Len(s) = n /\ \A j \in 1 .. n : s[j] = w + j
  BY Count
<1> HIDE DEF s
<1>2. Upto(s, w + n) /\ Above(s, f)
  BY <1>1 DEF Upto, Above
<1> QED
  BY <1>2 DEF s

LEMMA UptoMore ==
    ASSUME NEW s \in Seq(Nat), NEW w \in Nat, NEW n \in Nat, Upto(s, w)
    PROVE  Upto(s, w + n)
<1>1. \A i \in 1 .. Len(s) : s[i] \in Nat
  BY ElementOfSeq
<1> QED
  BY <1>1 DEF Upto

\* More is written.
LEMMA FlownWrote ==
    ASSUME NEW t, TunType(t), NEW u, TunType(u), NEW n \in Nat, Wrote(t, u, n),
           NEW l, NEW f, NEW inside, Flown(l, t, f, inside)
    PROVE  /\ ~u.done \/ (inside /\ t.done) \/ (n = 0 /\ u.done = t.done) => Flown(l, u, f, inside)
           /\ ~inside => Flown(l, u, u.tls.written, FALSE)
<1> DEFINE w == t.tls.written
           s == [j \in 1 .. n |-> w + j]
           o == t.tls.out
<1>1. /\ w \in Nat /\ o \in Seq(Nat) /\ s \in Seq(Nat) /\ t.tx.bytes \in Seq(Nat) /\ l \in Seq(Nat)
      /\ f \in Nat /\ w <= w
  <2>1. w \in Nat /\ o \in Seq(Nat) /\ t.tx.bytes \in Seq(Nat) /\ l \in Seq(Nat) /\ f \in Nat
    BY DEF TunType, Flown
  <2>2. s \in Seq(Nat)
    BY <2>1, Count
  <2> QED
    BY <2>1, <2>2
<1>2. u.tx = t.tx /\ u.tls.out = o \o s /\ u.tls.written = w + n
  BY DEF Wrote, Longer
<1>3. Upto(s, w + n) /\ (f <= w => Above(s, f))
  BY <1>1, CountBounds
<1> HIDE DEF s
<1>4. Upto(l, w + n) /\ Upto(t.tx.bytes, w + n) /\ Upto(o, w + n)
  BY <1>1, UptoMore DEF Flown
<1>5. w + n \in Nat /\ f \in Nat
  BY <1>1
<1>6. Upto(o \o s, w + n)
  BY <1>1, <1>3, <1>4, <1>5, JoinedBounds
<1>7. ASSUME ~inside PROVE Flown(l, u, u.tls.written, FALSE)
  <2>1. u.tls.written <= u.tls.written
    BY <1>2, <1>5
  <2> QED
    BY <1>1, <1>2, <1>4, <1>5, <1>6, <2>1 DEF Flown
<1>8. ASSUME ~u.done PROVE Flown(l, u, f, inside)
  BY <1>1, <1>2, <1>4, <1>6, <1>8 DEF Flown
<1>9. ASSUME inside, t.done PROVE Flown(l, u, f, inside)
  <2>1. f <= w /\ (Upto(l, f) \/ Above(l, f)) /\ Above(o, f)
    BY <1>9 DEF Flown
  <2>2. Above(o \o s, f)
    BY <1>1, <1>3, <2>1, JoinedBounds
  <2>3. f <= w + n
    BY <1>1, <2>1
  <2> QED
    BY <1>1, <1>2, <1>4, <1>6, <1>9, <2>1, <2>2, <2>3 DEF Flown
<1>10. ASSUME n = 0, u.done = t.done PROVE Flown(l, u, f, inside)
  <2>1. o \o s = o
    BY <1>1, <1>10, EmptyEnd DEF s
  <2>2. w + n = w
    BY <1>1, <1>10
  <2> QED
    BY <1>2, <1>10, <2>1, <2>2 DEF Flown
<1> QED
  BY <1>7, <1>8, <1>9, <1>10

\* A refill, before the inner method and after it.
LEMMA FlownRefilled ==
    ASSUME NEW t, TunType(t), NEW l, NEW f
    PROVE  LET u == Tun!RefillPendingTx(t)
           IN /\ Flown(l, t, f, FALSE) => Flown(l, u, f, FALSE)
              /\ Flown(l, t, f, TRUE) /\ t.tx.bytes = <<>> => Flown(<<>>, u, f, FALSE)
<1> DEFINE u == Tun!RefillPendingTx(t)
           s == t.tx.bytes
           r == t.tls.out
<1>1. u.tx.bytes = s \o r /\ u.tls.out = <<>> /\ u.tls.written = t.tls.written /\ u.done = t.done
  BY RefilledIs
<1>2. s \in Seq(Nat) /\ r \in Seq(Nat) /\ t.tls.written \in Nat
  BY DEF TunType
<1>3. <<>> \in Seq(Nat)
  OBVIOUS
<1> HIDE DEF u, s, r
<1>4. ASSUME Flown(l, t, f, FALSE) PROVE Flown(l, u, f, FALSE)
  <2>1. f \in Nat /\ Upto(s \o r, t.tls.written)
    BY <1>2, <1>4, JoinedBounds DEF Flown, s, r
  <2>2. CASE ~t.done
    BY <1>1, <1>4, <2>1, <2>2, NoBytes DEF Flown
  <2>3. CASE Upto(l, f) /\ Upto(s, f) /\ Upto(r, f) /\ f <= t.tls.written
    <3>1. Upto(s \o r, f)
      BY <1>2, <2>1, <2>3, JoinedBounds
    <3> QED
      BY <1>1, <1>4, <2>1, <2>3, <3>1, NoBytes DEF Flown
  <2>4. CASE Above(l, f) /\ Above(s, f) /\ Above(r, f) /\ f <= t.tls.written
    <3>1. Above(s \o r, f)
      BY <1>2, <2>1, <2>4, JoinedBounds
    <3> QED
      BY <1>1, <1>4, <2>1, <2>4, <3>1, NoBytes DEF Flown
  <2> QED
    BY <1>4, <2>2, <2>3, <2>4 DEF Flown, s, r
<1>5. ASSUME Flown(l, t, f, TRUE), s = <<>> PROVE Flown(<<>>, u, f, FALSE)
  <2>1. s \o r = r
    BY <1>2, <1>5, ConcatEmptySeq
  <2>2. f \in Nat /\ Upto(r, t.tls.written) /\ (t.done => Above(r, f) /\ f <= t.tls.written)
    BY <1>5 DEF Flown, r
  <2> QED
    BY <1>1, <1>3, <2>1, <2>2, NoBytes DEF Flown
<1> QED
  BY <1>4, <1>5 DEF u, s

\* A fragment is of what was pending.
LEMMA FlownCut ==
    ASSUME NEW u, TunType(u), u.tls.out = <<>>, NEW p, NEW e, Cut(u, p, e), NEW l, NEW f, Flown(l, u, f, FALSE)
    PROVE  Flown(p, e, f, FALSE)
<1> DEFINE b == u.tx.bytes
           o == u.tx.offset
<1>1. /\ p \in Seq(Nat) /\ o + Len(p) <= Len(b) /\ \A i \in 1 .. Len(p) : p[i] = b[o + i]
      /\ e.tls = u.tls /\ e.done = u.done /\ (e.tx.bytes = b \/ e.tx.bytes = <<>>)
  BY DEF Cut
<1>2. Len(p) \in Nat /\ Len(b) \in Nat /\ o \in 0 .. Len(b)
  BY <1>1, LenProperties DEF TunType
<1>3. \A i \in 1 .. Len(p) : o + i \in 1 .. Len(b) /\ p[i] = b[o + i]
  <2> HIDE DEF b, o
  <2> QED
    BY <1>1, <1>2
<1>4. \A n : (Upto(b, n) => Upto(p, n)) /\ (Above(b, n) => Above(p, n))
  BY <1>3 DEF Upto, Above
<1>5. \A n : (Upto(b, n) => Upto(e.tx.bytes, n)) /\ (Above(b, n) => Above(e.tx.bytes, n))
  BY <1>1, NoBytes
<1> QED
  BY <1>1, <1>4, <1>5 DEF Flown

LEMMA FlownEnds ==
    ASSUME NEW u, NEW l, NEW f, NEW inside, Flown(l, u, f, inside), inside => u.tx.bytes = <<>>
    PROVE  /\ Flown(<<>>, u, f, FALSE)
           /\ ~inside /\ u.tls.out = <<>> => Flown(l, u, f, TRUE)
<1>1. <<>> \in Seq(Nat)
  OBVIOUS
<1> QED
  BY <1>1, NoBytes DEF Flown

\* What the history and the last frame make of a step.
LEMMA ShookStays ==
    ASSUME Tun!Observe, tun'.done = tun.done
    PROVE  shook' = shook
BY DEF Tun!Observe

LEMMA LastIs ==
    /\ said'.k # "continue" => Last' = <<>>
    /\ said'.k = "continue" => Last' = Tun!Parse(said'.msg).payload
    /\ UNCHANGED said => Last' = Last
BY DEF Last

\* A step that ends the conversation and leaves the tunnel alone.
LEMMA FlightEnds ==
    ASSUME StreamInv, FlightInv, Tun!Observe, UNCHANGED tun, at' = "idle",
           said'.k \in {"success", "failure", "error"}
    PROVE  FlightInv'
<1>1. shook' = shook /\ Last' = <<>>
  BY ShookStays, LastIs
<1>2. Flown(<<>>, tun, shook, FALSE)
  <2> DEFINE inside == at \in {"inner", "conclude"}
  <2>1. inside => tun.tx.bytes = <<>>
    BY DEF StreamInv
  <2>2. Flown(Last, tun, shook, inside)
    BY DEF FlightInv
  <2> HIDE DEF inside
  <2> QED
    BY <2>1, <2>2, FlownEnds
<1>3. Flown(Last', tun', shook', FALSE)
  BY <1>1, <1>2 DEF Flown
<1> QED
  BY <1>3 DEF FlightInv, Flown

\* A step within a round: the tunnel has written nothing, or the inner method a
\* record.
LEMMA FlightGoes ==
    ASSUME StreamInv, FlightInv, Tun!Observe, UNCHANGED said, TunType(tun'), tun'.done = tun.done,
           NEW n \in Nat, Wrote(tun, tun', n),
           (at' \in {"inner", "conclude"}) = (at \in {"inner", "conclude"}),
           n = 0 \/ (at \in {"inner", "conclude"} /\ tun.done)
    PROVE  FlightInv'
<1> DEFINE inside == at \in {"inner", "conclude"}
<1>1. shook' = shook /\ Last' = Last
  BY ShookStays, LastIs
<1>2. TunType(tun) /\ Flown(Last, tun, shook, inside)
  BY DEF StreamInv, FlightInv
<1>3. n = 0 \/ (inside /\ tun.done)
  OBVIOUS
<1>4. (at' \in {"inner", "conclude"}) = inside
  OBVIOUS
<1> HIDE DEF inside
<1>5. Flown(Last, tun', shook, inside)
  BY <1>2, <1>3, FlownWrote
<1> QED
  BY <1>1, <1>4, <1>5 DEF FlightInv

\* A fragment of u is sent.
LEMMA FlightShips ==
    ASSUME StreamInv, Tun!Observe, NEW u, TunType(u), Tun!HasPendingTx(u), Tun!Ship(u),
           u.tls.out = <<>>, u.done = tun.done, NEW l, Flown(l, u, shook, FALSE)
    PROVE  FlightInv'
<1>1. at' = "idle" /\ said'.k = "continue" /\ said'.msg = Tun!Fragment(u) /\ tun' = Tun!Emitted(u)
  BY DEF Tun!Ship, Tun!Return, Tun!Continue
<1>2. Cut(u, Tun!Parse(said'.msg).payload, tun')
  BY <1>1, EmittedIs
<1>3. Flown(Tun!Parse(said'.msg).payload, tun', shook, FALSE)
  BY <1>2, FlownCut
<1>4. tun'.done = tun.done
  BY <1>2 DEF Cut
<1>5. shook' = shook /\ Last' = Tun!Parse(said'.msg).payload
  BY <1>1, <1>4, ShookStays, LastIs
<1>6. (at' \in {"inner", "conclude"}) = FALSE
  BY <1>1
<1> QED
  BY <1>3, <1>5, <1>6 DEF FlightInv

LEMMA ReceiveFlight ==
    ASSUME StreamInv, FlightInv, Tun!Observe, NEW td, Tun!Receive(td)
    PROVE  FlightInv'
<1> DEFINE u == Tun!IngestPeerFrame(tun, td)
<1>0. at = "idle" /\ TunType(tun)
  BY DEF Tun!Receive, StreamInv
<1>1. CASE u.err
  <2>1. UNCHANGED tun /\ at' = "idle" /\ said'.k = "error"
    BY <1>1 DEF Tun!Receive, Tun!Return, Tun!Error
  <2> QED
    BY <2>1, FlightEnds
<1>2. CASE ~u.err
  <2>1. tun' = u /\ at' = "drive" /\ UNCHANGED said
    BY <1>2 DEF Tun!Receive, Tun!Proceed
  <2>2. tun'.tls = tun.tls /\ tun'.tx = tun.tx /\ tun'.done = tun.done
    BY <1>0, <2>1, IngestedIs
  <2>3. shook' = shook /\ Last' = Last
    BY <2>1, <2>2, ShookStays, LastIs
  <2>4. Flown(Last, tun', shook, FALSE)
    BY <1>0, <2>2 DEF FlightInv, Flown
  <2>5. (at' \in {"inner", "conclude"}) = FALSE
    BY <2>1
  <2> QED
    BY <2>3, <2>4, <2>5 DEF FlightInv
<1> QED
  BY <1>1, <1>2

LEMMA EapTlsAckFlight ==
    ASSUME StreamInv, EapTlsInv, FlightInv, Tun!Observe, NEW td, Tun!EapTlsAck(td)
    PROVE  FlightInv'
<1> DEFINE f == Tun!Parse(td)
           end == IF f = Tun!Malformed THEN Tun!Error
                  ELSE IF ~Tun!IsAck(f) THEN Tun!Failure
                  ELSE IF tun.tls.in # <<>> THEN Tun!Error ELSE Tun!Success
           goes == f # Tun!Malformed /\ Tun!IsAck(f) /\ own.st = "AwaitingFragmentAck"
<1>0. at = "idle" /\ said.k = "continue" /\ method = "TLS" /\ TunType(tun) /\ tun.tls.out = <<>>
  BY DEF Tun!EapTlsAck, Tun!AwaitsAck, StreamInv
<1>1. IF goes THEN Tun!Ship(tun) ELSE Tun!Return(end) /\ UNCHANGED tun
  BY DEF Tun!EapTlsAck
<1> HIDE DEF f, end, goes
<1>2. CASE goes
  <2>1. Tun!HasPendingTx(tun)
    BY <1>0, <1>2 DEF goes, EapTlsInv
  <2>2. Flown(Last, tun, shook, FALSE)
    BY <1>0 DEF FlightInv, Flown
  <2> QED
    BY <1>0, <1>1, <1>2, <2>1, <2>2, FlightShips
<1>3. CASE ~goes
  <2>1. at' = "idle" /\ said' = end /\ UNCHANGED tun
    BY <1>1, <1>3 DEF Tun!Return
  <2>2. said'.k \in {"success", "failure", "error"}
    BY <2>1 DEF end, Tun!Error, Tun!Failure, Tun!Success
  <2> QED
    BY <2>1, <2>2, FlightEnds
<1> QED
  BY <1>2, <1>3

LEMMA DriveFlight ==
    ASSUME Tun!TunnelAssumption, StreamInv, FlightInv, Tun!Observe, Tun!Drive
    PROVE  FlightInv'
<1> DEFINE u == Tun!FeedAndDrive(tun)
           just == u.done /\ ~tun.done
           bad == u.err \/ (method = "TLS" /\ just /\ u.tls.in # <<>>)
           w == IF just /\ method # "TTLS" /\ tun.tls.v = "1.3" THEN Tun!WriteAppData(u, RecordLen) ELSE u
<1>0. at = "drive" /\ TunType(tun)
  BY DEF Tun!Drive, StreamInv
<1>1. IF bad THEN Tun!Return(Tun!Error) /\ UNCHANGED tun
      ELSE tun' = w /\ Tun!Proceed(IF method = "TLS" THEN "flush" ELSE "drain")
  BY DEF Tun!Drive
<1>2. CASE bad
  <2>1. UNCHANGED tun /\ at' = "idle" /\ said'.k = "error"
    BY <1>1, <1>2 DEF Tun!Return, Tun!Error
  <2> QED
    BY <2>1, FlightEnds
<1>3. CASE ~bad
  <2>1. tun' = w /\ at' = (IF method = "TLS" THEN "flush" ELSE "drain") /\ UNCHANGED said
    BY <1>1, <1>3 DEF Tun!Proceed
  <2>2. Last' = Last /\ Flown(Last, tun, shook, FALSE) /\ (at' \in {"inner", "conclude"}) = FALSE
    BY <1>0, <2>1, LastIs DEF FlightInv, Flown
  <2>3. ~u.err
    BY <1>3
  <2>4. TunType(u) /\ (tun.done => u.done) /\ tun.done \in BOOLEAN /\ u.done \in BOOLEAN
    BY <1>0, <2>3, DrivenIs DEF TunType
  <2>5. PICK n \in Nat : Wrote(tun, u, n) /\ (tun.done => n = 0)
    BY <1>0, <2>3, DrivenIs
  <2>6. CASE ~u.done
    <3>1. tun' = u /\ ~tun.done
      BY <2>1, <2>4, <2>6
    <3>2. Flown(Last, u, shook, FALSE)
      BY <1>0, <2>2, <2>4, <2>5, <2>6, FlownWrote
    <3>3. shook' = shook
      BY <2>6, <3>1 DEF Tun!Observe
    <3> QED
      BY <2>2, <3>1, <3>2, <3>3 DEF FlightInv
  <2>7. CASE tun.done
    <3>1. tun' = u /\ u.done
      BY <2>1, <2>4, <2>7
    <3>2. Flown(Last, u, shook, FALSE)
      BY <1>0, <2>2, <2>4, <2>5, <2>7, FlownWrote
    <3>3. shook' = shook
      BY <2>7 DEF Tun!Observe
    <3> QED
      BY <2>2, <3>1, <3>2, <3>3 DEF FlightInv
  <2>8. CASE just
    <3>1. Flown(Last, u, u.tls.written, FALSE)
      BY <1>0, <2>2, <2>4, <2>5, FlownWrote
    <3>2. TunType(w) /\ w.done /\ Flown(Last, w, w.tls.written, FALSE)
      <4>1. CASE w = u
        BY <2>4, <2>8, <3>1, <4>1
      <4>2. CASE w = Tun!WriteAppData(u, RecordLen)
        <5>1. RecordLen \in Nat
          BY DEF Tun!TunnelAssumption
        <5>2. TunType(w) /\ Wrote(u, w, RecordLen) /\ w.done = u.done
          BY <2>4, <4>2, <5>1, AppDataIs
        <5> HIDE DEF w, u
        <5>3. Flown(Last, w, w.tls.written, FALSE)
          BY <2>4, <3>1, <5>1, <5>2, FlownWrote
        <5> QED
          BY <2>8, <5>2, <5>3
      <4> QED
        BY <4>1, <4>2
    <3> HIDE DEF w
    <3>3. shook' = w.tls.written
      BY <2>1, <2>8, <3>2 DEF Tun!Observe
    <3> QED
      BY <2>1, <2>2, <3>2, <3>3 DEF FlightInv
  <2> QED
    BY <2>4, <2>6, <2>7, <2>8
<1> QED
  BY <1>2, <1>3

LEMMA DrainFlight ==
    ASSUME StreamInv, FlightInv, Tun!Observe, Tun!Drain
    PROVE  FlightInv'
<1>0. at = "drain" /\ TunType(tun)
  BY DEF Tun!Drain, StreamInv
<1>1. CASE tun.done /\ Tun!Undecryptable(tun)
  <2>1. UNCHANGED tun /\ at' = "idle" /\ said'.k = "error"
    BY <1>1 DEF Tun!Drain, Tun!Return, Tun!Error
  <2> QED
    BY <2>1, FlightEnds
<1>2. CASE ~(tun.done /\ Tun!Undecryptable(tun))
  <2>1. tun' = (IF tun.done THEN Tun!Drained(tun) ELSE tun) /\ at' = "flush" /\ UNCHANGED said
    BY <1>2 DEF Tun!Drain, Tun!Proceed
  <2>2. TunType(tun') /\ Wrote(tun, tun', 0) /\ tun'.done = tun.done
    BY <1>0, <1>2, <2>1, DrainedIs, WroteNothing
  <2>3. (at' \in {"inner", "conclude"}) = (at \in {"inner", "conclude"})
    BY <1>0, <2>1
  <2> QED
    BY <2>1, <2>2, <2>3, FlightGoes
<1> QED
  BY <1>1, <1>2

LEMMA FlushFlight ==
    ASSUME StreamInv, EapTlsInv, FlightInv, Tun!Observe, Tun!Flush
    PROVE  FlightInv'
<1> DEFINE u == IF method = "TLS" /\ tun.msg = None THEN tun ELSE Tun!RefillPendingTx(tun)
<1>0. /\ at = "flush" /\ TunType(tun) /\ Flown(Last, tun, shook, FALSE)
      /\ method = "TLS" /\ tun.msg = None => tun.tls.out = <<>>
  BY DEF Tun!Flush, EapTlsInv, StreamInv, FlightInv, Flown
<1>1. IF Tun!HasPendingTx(u) THEN Tun!Ship(u)
      ELSE tun' = u /\ IF method = "TLS" THEN Tun!Return(Tun!Continue(Tun!AckFrame)) ELSE Tun!Proceed("inner")
  BY DEF Tun!Flush
<1>2. TunType(u) /\ u.tls.out = <<>> /\ u.done = tun.done
  BY <1>0, RefilledIs
<1>3. Flown(Last, u, shook, FALSE)
  BY <1>0, FlownRefilled
<1> HIDE DEF u
<1>4. CASE Tun!HasPendingTx(u)
  BY <1>1, <1>2, <1>3, <1>4, FlightShips
<1>5. CASE ~Tun!HasPendingTx(u)
  <2>1. tun' = u /\ shook' = shook
    BY <1>1, <1>2, <1>5, ShookStays
  <2>2. CASE method = "TLS"
    <3>1. at' = "idle" /\ said'.k = "continue" /\ said'.msg = Tun!AckFrame
      BY <1>1, <1>5, <2>2 DEF Tun!Return, Tun!Continue
    <3>2. Last' = <<>> /\ (at' \in {"inner", "conclude"}) = FALSE
      BY <3>1, AckIs, LastIs
    <3>3. Flown(<<>>, u, shook, FALSE)
      BY <1>3, FlownEnds
    <3> QED
      BY <2>1, <3>2, <3>3 DEF FlightInv
  <2>3. CASE method # "TLS"
    <3>1. at' = "inner" /\ UNCHANGED said
      BY <1>1, <1>5, <2>3 DEF Tun!Proceed
    <3>2. Last' = Last /\ (at' \in {"inner", "conclude"}) = TRUE
      BY <3>1, LastIs
    <3>3. Flown(Last, u, shook, TRUE)
      BY <1>2, <1>3, FlownEnds
    <3> QED
      BY <2>1, <3>2, <3>3 DEF FlightInv
  <2> QED
    BY <2>2, <2>3
<1> QED
  BY <1>4, <1>5

\* The inner method: nothing is written, or a record after the handshake.
LEMMA InnerFlight ==
    ASSUME Tun!TunnelAssumption, StreamInv, VerdictInv, FlightInv, Tun!Observe,
           Tun!JudgeAvps \/ Tun!StartInner \/ Tun!InnerPacket \/ Tun!InnerIdle
    PROVE  FlightInv'
<1>0. at = "inner" /\ TunType(tun) /\ RecordLen \in Nat
  BY DEF Tun!JudgeAvps, Tun!StartInner, Tun!InnerPacket, Tun!InnerIdle, StreamInv, Tun!TunnelAssumption
<1>1. \/ UNCHANGED tun /\ at' = "idle" /\ said'.k = "error"
      \/ UNCHANGED tun /\ at' = "conclude" /\ UNCHANGED said
      \/ tun' = Tun!WriteAppData(tun, RecordLen) /\ tun.done /\ UNCHANGED <<at, said>>
  <2>1. CASE Tun!JudgeAvps
    BY <2>1 DEF Tun!JudgeAvps, Tun!Return, Tun!Error, Tun!Proceed
  <2>2. CASE Tun!StartInner
    BY <2>2 DEF Tun!StartInner, Tun!WriteInner
  <2>3. CASE Tun!InnerPacket
    <3>1. tun.done
      <4>1. method = "PEAP" /\ own.rx # <<>>
        BY <2>3 DEF Tun!InnerPacket
      <4> QED
        BY <4>1 DEF VerdictInv
    <3> QED
      BY <2>3, <3>1 DEF Tun!InnerPacket, Tun!Return, Tun!Error, Tun!Proceed, Tun!WriteInner, Tun!SendResultTlv
  <2>4. CASE Tun!InnerIdle
    BY <2>4 DEF Tun!InnerIdle, Tun!Proceed
  <2> QED
    BY <2>1, <2>2, <2>3, <2>4
<1>2. CASE UNCHANGED tun /\ at' = "idle" /\ said'.k = "error"
  BY <1>2, FlightEnds
<1>3. CASE UNCHANGED tun /\ at' = "conclude" /\ UNCHANGED said
  <2>1. TunType(tun') /\ Wrote(tun, tun', 0) /\ tun'.done = tun.done
    BY <1>0, <1>3, WroteNothing
  <2>2. (at' \in {"inner", "conclude"}) = (at \in {"inner", "conclude"})
    BY <1>0, <1>3
  <2> QED
    BY <1>3, <2>1, <2>2, FlightGoes
<1>4. CASE tun' = Tun!WriteAppData(tun, RecordLen) /\ tun.done /\ UNCHANGED <<at, said>>
  <2>1. TunType(tun') /\ Wrote(tun, tun', RecordLen) /\ tun'.done = tun.done
    BY <1>0, <1>4, AppDataIs
  <2>2. (at' \in {"inner", "conclude"}) = (at \in {"inner", "conclude"})
    BY <1>4
  <2> QED
    BY <1>0, <1>4, <2>1, <2>2, FlightGoes
<1> QED
  BY <1>1, <1>2, <1>3, <1>4

LEMMA ConcludeFlight ==
    ASSUME StreamInv, FlightInv, Tun!Observe, Tun!Conclude
    PROVE  FlightInv'
<1> DEFINE u == Tun!RefillPendingTx(tun)
           o == IF own.term = None \/ own.awaiting THEN Tun!Continue(Tun!AckFrame)
                ELSE IF own.term = "success" THEN Tun!Success ELSE Tun!Failure
<1>0. at = "conclude" /\ TunType(tun) /\ tun.tx.bytes = <<>> /\ Flown(Last, tun, shook, TRUE)
  BY DEF Tun!Conclude, StreamInv, FlightInv, Flown
<1>1. IF Tun!HasPendingTx(u) THEN Tun!Ship(u) ELSE tun' = u /\ Tun!Return(o)
  BY DEF Tun!Conclude
<1>2. TunType(u) /\ u.tls.out = <<>> /\ u.done = tun.done /\ Flown(<<>>, u, shook, FALSE)
  BY <1>0, RefilledIs, FlownRefilled
<1> HIDE DEF u
<1>3. CASE Tun!HasPendingTx(u)
  BY <1>1, <1>2, <1>3, FlightShips
<1>4. CASE ~Tun!HasPendingTx(u)
  <2>1. tun' = u /\ at' = "idle" /\ said' = o
    BY <1>1, <1>4 DEF Tun!Return
  <2>2. shook' = shook /\ (at' \in {"inner", "conclude"}) = FALSE
    BY <1>2, <2>1, ShookStays
  <2>3. Last' = <<>>
    <3>1. said'.k # "continue" \/ said'.msg = Tun!AckFrame
      BY <2>1 DEF Tun!Continue, Tun!Success, Tun!Failure
    <3> QED
      BY <3>1, AckIs, LastIs
  <2> QED
    BY <1>2, <2>1, <2>2, <2>3 DEF FlightInv
<1> QED
  BY <1>3, <1>4

\* Every step keeps the flights apart.
LEMMA FlightSteps ==
    ASSUME Tun!TunnelAssumption, StreamInv, EapTlsInv, VerdictInv, FlightInv, [Tun!Next]_Tun!vars
    PROVE  FlightInv'
<1>1. CASE Tun!Next
  BY <1>1, TunSplits, ReceiveFlight, EapTlsAckFlight, DriveFlight, DrainFlight, FlushFlight, InnerFlight,
     ConcludeFlight
<1>2. CASE UNCHANGED Tun!vars
  <2>1. UNCHANGED <<tun, at, said, shook>>
    BY <1>2 DEF Tun!vars, Tun!methodVars
  <2> QED
    BY <2>1 DEF FlightInv, Flown, Last, Upto, Above
<1> QED
  BY <1>1, <1>2

LEMMA StartIs == Tun!Parse(Tun!StartFrame).payload = <<>>
<1>1. <<32>> # <<>> /\ <<32>>[1] = 32 /\ Tail(<<32>>) = <<>>
  OBVIOUS
<1>2. ~Tun!HasBit(32, Tun!LBit)
  BY DEF Tun!HasBit, Tun!LBit
<1>3. Tun!Parse(<<32>>) = [flags |-> 32, total |-> None, payload |-> <<>>]
  BY <1>1, <1>2 DEF Tun!Parse
<1> QED
  BY <1>3 DEF Tun!StartFrame, Tun!SBit

LEMMA TunBegins ==
    ASSUME Tun!TunnelAssumption, Tun!ConversationAssumption, Tun!Init
    PROVE  TunInv
<1>1. PICK k \in Kinds, v \in DOMAIN ServerLen, z \in Mtus : Tun!MethodInit(k, v, z)
  BY DEF Tun!Init
<1>2. /\ tun = Tun!NewTunnel(v, z) /\ own = Tun!NewMethod /\ at = "idle" /\ z \in Nat \ {0}
      /\ said.k = "continue" /\ said.msg = Tun!StartFrame /\ shook = 0
  BY <1>1 DEF Tun!MethodInit, Tun!Init, Tun!Continue, Tun!ConversationAssumption
<1>3. tun.tx.bytes = <<>> /\ tun.tls.out = <<>> /\ ~tun.done /\ tun.tls.written = 0
  BY <1>2, NewTunnelIs
<1>4. VerdictInv
  <2>1. /\ own.term = None /\ own.inner = Tun!NewInner /\ own.rx = <<>> /\ own.started = FALSE
        /\ own.inner.state = "AwaitingIdentity"
    BY <1>2 DEF Tun!NewMethod, Tun!NewInner
  <2>2. own.term # "success"
    BY <2>1 DEF Tun!ConversationAssumption
  <2> QED
    BY <1>2, <2>1, <2>2 DEF VerdictInv
<1>5. FlightInv
  <2>1. Last = <<>> /\ <<>> \in Seq(Nat)
    BY <1>2, StartIs DEF Last
  <2> QED
    BY <1>2, <1>3, <2>1, NoBytes DEF FlightInv, Flown
<1> QED
  BY <1>4, <1>5, StreamBegins DEF TunInv

LEMMA TunKeeps ==
    ASSUME Tun!TunnelAssumption, Tun!ConversationAssumption, TunInv, [Tun!Next]_Tun!vars
    PROVE  TunInv' /\ StreamKept
<1>1. StreamInv /\ EapTlsInv /\ VerdictInv /\ FlightInv
  BY DEF TunInv
<1>2. StreamKept
  BY <1>1, StreamSteps
<1>3. VerdictInv'
  BY <1>1, VerdictSteps
<1>4. FlightInv'
  BY <1>1, FlightSteps
<1> QED
  BY <1>2, <1>3, <1>4 DEF StreamKept, TunInv

LEMMA TunEarned ==
    ASSUME Tun!ConversationAssumption, TunInv
    PROVE  Earned
<1> SUFFICES ASSUME said.k = "success"
             PROVE  /\ tun.done /\ ~Tun!HasPendingTx(tun) /\ tun.tls.out = <<>>
                    /\ orderly => heard = tun.tls.written
                    /\ method # "TLS" => own.term = "success" /\ Tun!SecretOf(own.authed) # None
                    /\ method = "PEAP" => own.inner.state = "AwaitingSuccessAck" /\ own.authed = own.inner.authed
  BY DEF Earned
<1>1. TunType(tun) /\ heard \in Nat /\ (orderly => Flow(tun, heard))
  BY DEF TunInv, StreamInv
<1>2. tun.done /\ tun.tx.bytes = <<>> /\ tun.tls.out = <<>>
  <2>1. CASE method = "TLS"
    BY <2>1 DEF TunInv, EapTlsInv
  <2>2. CASE method # "TLS"
    <3>1. own.term = "success" /\ tun.tx.bytes = <<>> /\ tun.tls.out = <<>>
      BY <2>2 DEF TunInv, VerdictInv
    <3>2. own.term # None
      BY <3>1 DEF Tun!ConversationAssumption
    <3> QED
      BY <2>2, <3>1, <3>2 DEF TunInv, VerdictInv
  <2> QED
    BY <2>1, <2>2
<1>3. tun.tx.offset = 0 /\ ~Tun!HasPendingTx(tun)
  BY <1>1, <1>2, EmptyTx
<1>4. orderly => heard = tun.tls.written
  <2>1. Len(<<>>) = 0 /\ tun.tls.written \in Nat
    BY <1>1 DEF TunType
  <2>2. orderly => tun.tls.written + 0 = heard + Len(<<>>) + Len(<<>>)
    BY <1>1, <1>2, <1>3 DEF Flow
  <2> QED
    BY <1>1, <2>1, <2>2
<1> QED
  BY <1>2, <1>3, <1>4 DEF TunInv, VerdictInv

LEMMA TunApart ==
    ASSUME TunInv
    PROVE  Tun!NotPiggybacked
<1> DEFINE flight == Last \o tun.tx.bytes
<1> SUFFICES ASSUME tun.done
             PROVE  \/ \A i \in DOMAIN flight : flight[i] <= shook
                    \/ \A i \in DOMAIN flight : flight[i] > shook
  BY DEF Tun!NotPiggybacked, Last
<1>1. shook \in Nat /\ Last \in Seq(Nat) /\ tun.tx.bytes \in Seq(Nat)
  BY DEF TunInv, FlightInv, Flown, StreamInv, TunType
<1>2. \/ Upto(Last, shook) /\ Upto(tun.tx.bytes, shook)
      \/ Above(Last, shook) /\ Above(tun.tx.bytes, shook)
  <2>1. CASE at \in {"inner", "conclude"}
    <3>1. tun.tx.bytes = <<>>
      BY <2>1 DEF TunInv, StreamInv
    <3>2. Upto(Last, shook) \/ Above(Last, shook)
      BY <2>1 DEF TunInv, FlightInv, Flown
    <3> QED
      BY <3>1, <3>2, NoBytes
  <2>2. CASE at \notin {"inner", "conclude"}
    BY <2>2 DEF TunInv, FlightInv, Flown
  <2> QED
    BY <2>1, <2>2
<1>3. Upto(flight, shook) \/ Above(flight, shook)
  BY <1>1, <1>2, JoinedBounds
<1>4. DOMAIN flight = 1 .. Len(flight)
  <2>1. flight \in Seq(Nat)
    BY <1>1, ConcatProperties
  <2> HIDE DEF flight
  <2> QED
    BY <2>1, LenProperties
<1> HIDE DEF flight
<1> QED
  BY <1>3, <1>4 DEF Upto, Above

\* A conversation of EAP-TLS, EAP-TTLS or PEAP succeeds only when its handshake
\* is done, all that the engine wrote has been sent, and, in the last two, the
\* inner method has verified the secret of the user whose identity is exposed;
\* no flight mixes bytes of the handshake with later ones; and in EAP-TLS every
\* byte of the stream goes out once and in order, for all flights, frame sizes
\* and answers (step of the three, refill_pending_tx, emit_next_outbound_fragment).
THEOREM TunnelEarned ==
    ASSUME Tun!TunnelAssumption, Tun!ConversationAssumption
    PROVE  Tun!Spec => [](Earned /\ Tun!NotPiggybacked /\ (method = "TLS" => Tun!StreamExact))
<1>1. Tun!Init => TunInv
  BY TunBegins
<1>2. TunInv /\ [Tun!Next]_Tun!vars => TunInv'
  BY TunKeeps
<1>3. TunInv => Earned /\ Tun!NotPiggybacked /\ (method = "TLS" => Tun!StreamExact)
  <2> SUFFICES ASSUME TunInv PROVE Earned /\ Tun!NotPiggybacked /\ (method = "TLS" => Tun!StreamExact)
    OBVIOUS
  <2>1. method = "TLS" => Tun!StreamExact
    BY DEF TunInv, StreamInv, Tun!StreamExact
  <2> QED
    BY <2>1, TunEarned, TunApart
<1> QED
  BY <1>1, <1>2, <1>3, PTL DEF Tun!Spec

\* The stream of EAP-TTLS and PEAP loses its order in one place only, and that of
\* EAP-TLS nowhere: where the engine's output is fetched while some fragments of
\* an earlier message are out and others are not (refill_pending_tx, which
\* starts again at the first).
THEOREM LostOnlyByRefillHolds ==
    ASSUME Tun!TunnelAssumption, Tun!ConversationAssumption
    PROVE  Tun!Spec => LostOnlyByRefill
<1>1. Tun!Init => TunInv
  BY TunBegins
<1>2. TunInv /\ [Tun!Next]_Tun!vars => TunInv'
  BY TunKeeps
<1>3. TunInv /\ [Tun!Next]_Tun!vars
        => [orderly /\ ~orderly' => method # "TLS" /\ tun.tx.offset > 0]_Tun!vars
  BY TunKeeps DEF StreamKept
<1> QED
  BY <1>1, <1>2, <1>3, PTL DEF Tun!Spec, LostOnlyByRefill
=============================================================================
