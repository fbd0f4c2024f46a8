--------------------------- MODULE UdpClientProofs ---------------------------
(***************************************************************************)
(* Proofs about UdpClient, for any sets of calls, peers and codes, any     *)
(* number of identifiers, any limit and any number of retransmissions; and *)
(* about dynamic authorization (DynAuth), which sends its requests through *)
(* the same registry.                                                      *)
(***************************************************************************)
EXTENDS UdpClient, ExchangeProofs, Sequences

\* What DynAuth has besides.
CONSTANTS Bodies, CauseValues, MaxForgotten
VARIABLES replies, cache, decided, runs, forgotten

Coa == INSTANCE DynAuth

\* The registry's entry of a call in flight: it has its sender for as long as
\* the call has heard nothing.
Linked ==
    \A c \in Calls : Active(c) =>
        /\ peer[c] \in Peers
        /\ reg.pending[peer[c]][packet[c].id] # None
        /\ reg.pending[peer[c]][packet[c].id].call = c
        /\ reg.pending[peer[c]][packet[c].id].packet = packet[c]
        /\ reg.pending[peer[c]][packet[c].id].sender <=> mailbox[c] = None

\* Whoever is not in flight has nothing in its mailbox.
MailCleared == \A c \in Calls : ~Active(c) => mailbox[c] = None

\* An authenticator tells the code it was made for, and was made already.
Authentic(m) == m.auth[1] = m.code /\ m.auth[2] <= started

AllAuthentic ==
    /\ \A c \in Calls : Active(c) => Authentic(packet[c])
    /\ \A s \in sent : Authentic(s[2])

Random(c) == Active(c) /\ packet[c].code \in RandomAuthenticator

\* Random authenticators are not shared, and no packet that was never sent
\* equals one that was.
RandomFresh ==
    /\ \A c, d \in Calls : (Random(c) /\ Random(d) /\ c # d) => packet[c].auth # packet[d].auth
    /\ \A c \in Calls : (Random(c) /\ pc[c] = "sending" /\ attempt[c] = 0) =>
            \A p \in Peers : <<p, packet[c]>> \notin sent

IInv ==
    /\ TypeOK /\ Linked /\ NoIdLeak /\ WithinLimit /\ MailCleared
    /\ AllAuthentic /\ RandomFresh
    /\ AnswersOwnRequest /\ ClosedTellsAll

\* No option is None by accident.
LEMMA OptionsDiffer ==
    /\ \A r \in Responses : Ok(r) \in Results /\ Ok(r) # None /\ Ok(r).tag = "ok" /\ Ok(r).response = r
    /\ \A e \in Failures : Err(e) \in Results /\ Err(e) # None /\ Err(e).tag = "err"
    /\ \A m \in Packets : m # None
    /\ \A p \in Peers : p # None
BY UdpOptionAssumption DEF Ok, Err, Results

\* register succeeds.
LEMMA StartStep ==
    ASSUME IInv, NEW c \in Calls, NEW p \in Peers, NEW code \in Codes, Start(c, p, code)
    PROVE  IInv'
<1> USE UdpClientAssumption DEF IInv
<1> DEFINE id == FreeId(reg, p)
           m == Seal(code, id)
           e == [call |-> c, packet |-> m, sender |-> TRUE]
<1>1. /\ pc[c] = "idle" /\ started < MaxSends /\ Refusal(reg, p) = None
      /\ packet' = [packet EXCEPT ![c] = m]
      /\ reg' = Registered(reg, p, c, m)
      /\ pc' = [pc EXCEPT ![c] = "sending"]
      /\ peer' = [peer EXCEPT ![c] = p]
      /\ started' = started + 1
      /\ UNCHANGED <<attempt, mailbox, result, sent>>
  BY DEF Start
<1>2. reg \in Registries(Packets) /\ started \in 0 .. MaxSends
  BY DEF TypeOK
<1>3. id \in Ids /\ id \notin InUse(reg, p) /\ reg.pending[p][id] = None
  <2>1. InUse(reg, p) # Ids
    BY <1>1, NotRefused
  <2>2. id \in Ids \ InUse(reg, p)
    BY <1>2, <2>1, FreeIdIsFree
  <2> QED
    BY <2>2 DEF InUse
<1> HIDE DEF id
<1>4. /\ m \in Packets /\ m.id = id /\ m.code = code
      /\ m.auth = <<code, IF code \in RandomAuthenticator THEN started + 1 ELSE 0>>
  <2>1. (IF code \in RandomAuthenticator THEN started + 1 ELSE 0) \in 0 .. MaxSends
    BY <1>1, <1>2
  <2>2. <<code, IF code \in RandomAuthenticator THEN started + 1 ELSE 0>> \in Authenticators
    BY <2>1 DEF Authenticators
  <2> QED
    BY <1>3, <2>2 DEF Seal, Packets
<1> HIDE DEF m
<1>5. /\ reg' \in Registries(Packets) /\ reg'.closed = reg.closed
      /\ \A q \in Peers, i \in Ids :
            reg'.pending[q][i] = IF q = p /\ i = id THEN e ELSE reg.pending[q][i]
  BY <1>1, <1>2, <1>3, <1>4, RegisteredIs
<1>6. e # None /\ e.call = c /\ e.packet = m /\ e.sender = TRUE
  <2>1. e \in Entries(Packets)
    BY <1>4 DEF Entries
  <2> QED
    BY <2>1, UdpOptionAssumption
<1> HIDE DEF e
<1>7. /\ ~Active(c) /\ m # None /\ packet'[c] = m /\ peer'[c] = p
      /\ \A d \in Calls \ {c} : packet'[d] = packet[d] /\ peer'[d] = peer[d] /\ pc'[d] = pc[d]
  BY <1>1, <1>4, OptionsDiffer DEF TypeOK, Active
<1>8. \A d \in Calls : Active(d) => /\ d # c /\ packet[d] \in Packets /\ packet[d].id \in Ids
                                    /\ peer[d] \in Peers
                                    /\ ~(peer[d] = p /\ packet[d].id = id)
  BY <1>3, <1>7 DEF Linked, TypeOK, Active, Packets
<1>9. \A d \in Calls : Active(d)' <=> (d = c \/ Active(d))
  BY <1>7 DEF Active
<1>10. TypeOK'
  BY <1>1, <1>2, <1>4, <1>5, <1>7 DEF TypeOK
<1>11. Linked'
  <2> SUFFICES ASSUME NEW d \in Calls, Active(d)'
               PROVE  /\ peer'[d] \in Peers
                      /\ reg'.pending[peer'[d]][packet'[d].id] # None
                      /\ reg'.pending[peer'[d]][packet'[d].id].call = d
                      /\ reg'.pending[peer'[d]][packet'[d].id].packet = packet'[d]
                      /\ reg'.pending[peer'[d]][packet'[d].id].sender <=> mailbox'[d] = None
    BY DEF Linked
  <2>1. CASE d = c
    BY <1>1, <1>3, <1>4, <1>5, <1>6, <1>7, <2>1 DEF MailCleared
  <2>2. CASE d # c
    <3>1. /\ Active(d) /\ packet'[d] = packet[d] /\ peer'[d] = peer[d]
          /\ mailbox'[d] = mailbox[d]
          /\ reg'.pending[peer[d]][packet[d].id] = reg.pending[peer[d]][packet[d].id]
      BY <1>1, <1>5, <1>7, <1>8, <1>9, <2>2
    <3> QED
      BY <3>1 DEF Linked
  <2> QED
    BY <2>1, <2>2
<1>12. NoIdLeak'
  <2> SUFFICES ASSUME NEW q \in Peers, NEW i \in InUse(reg', q)
               PROVE  LET d == reg'.pending[q][i].call
                      IN packet'[d] # None /\ peer'[d] = q /\ packet'[d].id = i
    BY DEF NoIdLeak, InUse, Active
  <2>1. i \in Ids
    BY DEF InUse
  <2>2. CASE q = p /\ i = id
    BY <1>4, <1>5, <1>6, <1>7, <1>9, <2>1, <2>2
  <2>3. CASE ~(q = p /\ i = id)
    <3>1. reg'.pending[q][i] = reg.pending[q][i] /\ i \in InUse(reg, q)
      BY <1>5, <2>1, <2>3 DEF InUse
    <3>2. reg.pending[q][i].call \in Calls
      BY <1>2, <3>1 DEF Registries, Entries, InUse
    <3> QED
      BY <1>7, <3>1, <3>2 DEF NoIdLeak, Active
  <2> QED
    BY <2>2, <2>3
<1>13. WithinLimit'
  <2> SUFFICES ASSUME NEW q \in Peers PROVE Cardinality(InUse(reg', q)) <= Limit
    BY DEF WithinLimit
  <2>1. CASE q = p
    <3>1. InUse(reg', p) = InUse(reg, p) \cup {id}
      BY <1>3, <1>5, <1>6 DEF InUse
    <3>2. IsFiniteSet(InUse(reg, p)) /\ Cardinality(InUse(reg, p)) \in Nat
      BY InUseFinite
    <3>3. Cardinality(InUse(reg', p)) = Cardinality(InUse(reg, p)) + 1
      BY <1>3, <3>1, <3>2, FS_AddElement
    <3>4. ~(Cardinality(InUse(reg, p)) >= Limit)
      BY <1>1, NotRefused
    <3> QED
      BY <2>1, <3>2, <3>3, <3>4, ExchangeAssumption
  <2>2. CASE q # p
    <3>1. InUse(reg', q) = InUse(reg, q)
      BY <1>5, <2>2 DEF InUse
    <3> QED
      BY <3>1 DEF WithinLimit
  <2> QED
    BY <2>1, <2>2
<1>14. MailCleared'
  BY <1>1, <1>9 DEF MailCleared
<1>15. AllAuthentic'
  <2>1. \A x \in Packets : Authentic(x) => Authentic(x)'
    BY <1>1, <1>2 DEF Authentic, Packets, Authenticators
  <2>2. m.auth[1] = m.code /\ m.auth[2] <= started'
    BY <1>1, <1>2, <1>4
  <2>3. \A s \in sent : s[2] \in Packets
    BY DEF TypeOK
  <2>4. \A d \in Calls : Active(d)' => Authentic(packet[d])'
    BY <1>7, <1>8, <1>9, <2>1, <2>2 DEF AllAuthentic, Authentic
  <2> QED
    BY <1>1, <2>1, <2>3, <2>4 DEF AllAuthentic, Authentic
<1>16. RandomFresh'
  <2>1. code \in RandomAuthenticator => m.auth[2] = started + 1
    BY <1>4
  <2>2. \A d \in Calls : Active(d) => /\ packet[d].auth[2] \in 0 .. MaxSends
                                      /\ packet[d].auth[2] <= started
    BY <1>8 DEF AllAuthentic, Authentic, Packets, Authenticators
  <2>3. \A s \in sent : s[2].auth[2] \in 0 .. MaxSends /\ s[2].auth[2] <= started
    BY DEF AllAuthentic, Authentic, Packets, Authenticators, TypeOK
  <2>4. \A d \in Calls : Active(d) /\ code \in RandomAuthenticator => packet[d].auth # m.auth
    BY <1>2, <2>1, <2>2
  <2>5. code \in RandomAuthenticator => \A q \in Peers : <<q, m>> \notin sent
    BY <1>2, <2>1, <2>3
  <2>6. \A d \in Calls : Random(d)' => \/ d = c /\ code \in RandomAuthenticator
                                       \/ d # c /\ Random(d)
    BY <1>4, <1>7, <1>9 DEF Random
  <2>7. \A d \in Calls : Random(d) => Active(d)
    BY DEF Random
  <2>8. ASSUME NEW d \in Calls, NEW f \in Calls, Random(d)', Random(f)', d # f
        PROVE  packet'[d].auth # packet'[f].auth
    BY <1>7, <2>4, <2>6, <2>7, <2>8 DEF RandomFresh
  <2>9. ASSUME NEW d \in Calls, Random(d)', pc'[d] = "sending", attempt'[d] = 0, NEW q \in Peers
        PROVE  <<q, packet'[d]>> \notin sent'
    BY <1>1, <1>7, <2>5, <2>6, <2>9 DEF RandomFresh
  <2> QED
    BY <2>8, <2>9 DEF RandomFresh
<1>17. AnswersOwnRequest'
  BY <1>1, <1>7, <1>9 DEF AnswersOwnRequest, MailCleared
<1>18. ClosedTellsAll'
  BY <1>1, <1>5, NotRefused DEF ClosedTellsAll
<1> QED
  BY <1>10, <1>11, <1>12, <1>13, <1>14, <1>15, <1>16, <1>17, <1>18
\* register refuses, or the caller takes its result: the registry and the
\* network do not notice.
LEMMA ResultStep ==
    ASSUME IInv, NEW c \in Calls, (\E p \in Peers : Refuse(c, p)) \/ Return(c)
    PROVE  IInv'
<1> USE DEF IInv
<1>1. /\ UNCHANGED <<peer, packet, attempt, mailbox, reg, sent, started>>
      /\ ~Active(c)
      /\ \A d \in Calls \ {c} : pc'[d] = pc[d]
  BY DEF Refuse, Return, TypeOK, Active
<1>2. TypeOK'
  <2>1. ASSUME NEW p \in Peers, Refuse(c, p) PROVE TypeOK'
    <3>1. PICK f \in Failures : result' = [result EXCEPT ![c] = Err(f)]
      BY <2>1 DEF Refuse, Refusal, Failures
    <3>2. Err(f) \in Results /\ Err(f) # None
      BY OptionsDiffer
    <3> QED
      BY <1>1, <2>1, <3>1, <3>2 DEF Refuse, TypeOK
  <2>2. CASE Return(c)
    BY <1>1, <2>2 DEF Return, TypeOK
  <2> QED
    BY <2>1, <2>2
<1>3. \A d \in Calls : (Active(d)' <=> Active(d)) /\ (Random(d)' <=> Random(d))
  BY <1>1 DEF Active, Random
<1>4. Linked' /\ NoIdLeak' /\ WithinLimit' /\ MailCleared' /\ ClosedTellsAll'
  BY <1>1 DEF Linked, NoIdLeak, WithinLimit, MailCleared, ClosedTellsAll, Active
<1>5. AllAuthentic'
  BY <1>1 DEF AllAuthentic, Authentic, Active
<1>6. RandomFresh'
  BY <1>1, <1>3 DEF RandomFresh, Random
<1>7. AnswersOwnRequest'
  BY <1>1, <1>3 DEF AnswersOwnRequest
<1> QED
  BY <1>2, <1>4, <1>5, <1>6, <1>7

\* A future ends, however: its identifier, and only its own, is free again.
LEMMA FinishStep ==
    ASSUME IInv, NEW c \in Calls, pc[c] \in {"sending", "waiting"},
           NEW r \in Results \cup {None}, Finish(c, r)
    PROVE  IInv'
<1> USE DEF IInv
<1>1. /\ result' = [result EXCEPT ![c] = r]
      /\ pc' = [pc EXCEPT ![c] = IF r = None THEN "idle" ELSE "done"]
      /\ reg' = Released(reg, peer[c], {packet[c].id})
      /\ peer' = [peer EXCEPT ![c] = None]
      /\ packet' = [packet EXCEPT ![c] = None]
      /\ attempt' = [attempt EXCEPT ![c] = 0]
      /\ mailbox' = [mailbox EXCEPT ![c] = None]
      /\ UNCHANGED <<sent, started>>
  BY DEF Finish
<1>2. /\ Active(c) /\ reg \in Registries(Packets)
      /\ packet[c] \in Packets /\ packet[c].id \in Ids /\ peer[c] \in Peers
  BY DEF TypeOK, Active, Linked, Packets
<1>3. /\ reg' \in Registries(Packets) /\ reg'.closed = reg.closed
      /\ \A q \in Peers, i \in Ids :
            reg'.pending[q][i] = IF q = peer[c] /\ i = packet[c].id THEN None
                                 ELSE reg.pending[q][i]
  BY <1>1, <1>2, ReleasedIs
<1>4. /\ ~Active(c)' /\ mailbox'[c] = None
      /\ \A d \in Calls \ {c} :
            /\ packet'[d] = packet[d] /\ peer'[d] = peer[d] /\ pc'[d] = pc[d]
            /\ mailbox'[d] = mailbox[d] /\ attempt'[d] = attempt[d]
            /\ (Active(d)' <=> Active(d)) /\ (Random(d)' <=> Random(d))
  BY <1>1 DEF TypeOK, Active, Random
<1>5. \A d \in Calls : Active(d)' => Active(d) /\ d # c /\ packet[d].id \in Ids
  BY <1>4 DEF TypeOK, Active, Packets
<1>6. \A d \in Calls : Random(d)' => Active(d)'
  BY DEF Random
<1>7. TypeOK'
  BY <1>1, <1>2, <1>3, UdpClientAssumption DEF TypeOK
<1>8. Linked'
  <2> SUFFICES ASSUME NEW d \in Calls, Active(d)'
               PROVE  /\ peer'[d] \in Peers
                      /\ reg'.pending[peer'[d]][packet'[d].id] # None
                      /\ reg'.pending[peer'[d]][packet'[d].id].call = d
                      /\ reg'.pending[peer'[d]][packet'[d].id].packet = packet'[d]
                      /\ reg'.pending[peer'[d]][packet'[d].id].sender <=> mailbox'[d] = None
    BY DEF Linked
  <2>1. Active(d) /\ d # c /\ packet[d].id \in Ids /\ peer[d] \in Peers
    BY <1>5 DEF Linked
  <2>2. ~(peer[d] = peer[c] /\ packet[d].id = packet[c].id)
    BY <1>2, <2>1 DEF Linked
  <2>3. reg'.pending[peer[d]][packet[d].id] = reg.pending[peer[d]][packet[d].id]
    BY <1>3, <2>1, <2>2
  <2>4. packet'[d] = packet[d] /\ peer'[d] = peer[d] /\ mailbox'[d] = mailbox[d]
    BY <1>4, <2>1
  <2> QED
    BY <2>1, <2>3, <2>4 DEF Linked
<1>9. NoIdLeak'
  <2> SUFFICES ASSUME NEW q \in Peers, NEW i \in InUse(reg', q)
               PROVE  LET d == reg'.pending[q][i].call
                      IN packet'[d] # None /\ peer'[d] = q /\ packet'[d].id = i
    BY DEF NoIdLeak, InUse, Active
  <2>1. /\ i \in Ids /\ ~(q = peer[c] /\ i = packet[c].id)
        /\ reg'.pending[q][i] = reg.pending[q][i] /\ i \in InUse(reg, q)
    BY <1>3 DEF InUse
  <2>2. reg.pending[q][i].call \in Calls
    BY <1>2, <2>1 DEF Registries, Entries, InUse
  <2>3. LET d == reg.pending[q][i].call
        IN packet[d] # None /\ peer[d] = q /\ packet[d].id = i
    BY <2>1 DEF NoIdLeak, Active
  <2> QED
    BY <1>4, <2>1, <2>2, <2>3
<1>10. WithinLimit'
  <2> SUFFICES ASSUME NEW q \in Peers PROVE Cardinality(InUse(reg', q)) <= Limit
    BY DEF WithinLimit
  <2>1. InUse(reg', q) \subseteq InUse(reg, q)
    BY <1>3 DEF InUse
  <2> QED
    BY <2>1, FewerInUse DEF WithinLimit
<1>11. MailCleared'
  BY <1>4 DEF MailCleared
<1>12. AllAuthentic'
  BY <1>1, <1>4, <1>5 DEF AllAuthentic, Authentic
<1>13. RandomFresh'
  BY <1>1, <1>4, <1>5, <1>6 DEF RandomFresh
<1>14. AnswersOwnRequest'
  BY <1>1, <1>4, <1>5 DEF AnswersOwnRequest
<1>15. ClosedTellsAll'
  BY <1>3, <1>4, <1>5 DEF ClosedTellsAll
<1> QED
  BY <1>7, <1>8, <1>9, <1>10, <1>11, <1>12, <1>13, <1>14, <1>15

\* The packet leaves the socket.
LEMMA SendToStep ==
    ASSUME IInv, NEW c \in Calls, SendTo(c)
    PROVE  IInv'
<1> USE DEF IInv
<1>1. /\ pc[c] = "sending" /\ pc' = [pc EXCEPT ![c] = "waiting"]
      /\ sent' = sent \cup {<<peer[c], packet[c]>>}
      /\ UNCHANGED <<peer, packet, attempt, mailbox, result, reg, started>>
  BY DEF SendTo
<1>2. Active(c) /\ packet[c] \in Packets /\ peer[c] \in Peers
  BY <1>1 DEF TypeOK, Active, Linked
<1>3. \A d \in Calls : (Active(d)' <=> Active(d)) /\ (Random(d)' <=> Random(d))
  BY <1>1 DEF Active, Random
<1>4. TypeOK'
  BY <1>1, <1>2 DEF TypeOK
<1>5. Linked' /\ NoIdLeak' /\ WithinLimit' /\ MailCleared' /\ ClosedTellsAll'
  BY <1>1 DEF Linked, NoIdLeak, WithinLimit, MailCleared, ClosedTellsAll, Active
<1>6. AllAuthentic'
  BY <1>1, <1>2, <1>3 DEF AllAuthentic, Authentic
<1>7. RandomFresh'
  <2>1. ASSUME NEW d \in Calls, Random(d)', pc'[d] = "sending", attempt'[d] = 0, NEW q \in Peers
        PROVE  <<q, packet'[d]>> \notin sent'
    <3>1. d # c /\ Random(d) /\ pc[d] = "sending" /\ attempt[d] = 0 /\ packet'[d] = packet[d]
      BY <1>1, <1>3, <2>1 DEF TypeOK
    <3>2. <<q, packet[d]>> \notin sent
      BY <3>1 DEF RandomFresh
    <3>3. packet[d] # packet[c]
      <4>1. CASE Random(c)
        BY <3>1, <4>1 DEF RandomFresh
      <4>2. CASE ~Random(c)
        BY <1>2, <3>1, <4>2 DEF Random
      <4> QED
        BY <4>1, <4>2
    <3> QED
      BY <1>1, <3>1, <3>2, <3>3
  <2> QED
    BY <1>1, <1>3, <2>1 DEF RandomFresh
<1>8. AnswersOwnRequest'
  BY <1>1, <1>3 DEF AnswersOwnRequest, TypeOK
<1> QED
  BY <1>4, <1>5, <1>6, <1>7, <1>8

\* The packet is sent again.
LEMMA RetransmitStep ==
    ASSUME IInv, NEW c \in Calls, Retransmit(c)
    PROVE  IInv'
<1> USE UdpClientAssumption DEF IInv
<1>1. /\ pc[c] = "waiting" /\ pc' = [pc EXCEPT ![c] = "sending"]
      /\ attempt[c] < MaxRetries /\ attempt' = [attempt EXCEPT ![c] = attempt[c] + 1]
      /\ mailbox[c] = None
      /\ UNCHANGED <<peer, packet, mailbox, result, reg, sent, started>>
  BY DEF Retransmit
<1>2. \A d \in Calls : (Active(d)' <=> Active(d)) /\ (Random(d)' <=> Random(d))
  BY <1>1 DEF Active, Random
<1>3. TypeOK' /\ attempt'[c] > 0
  BY <1>1 DEF TypeOK
<1>4. Linked' /\ NoIdLeak' /\ WithinLimit' /\ MailCleared' /\ ClosedTellsAll'
  BY <1>1 DEF Linked, NoIdLeak, WithinLimit, MailCleared, ClosedTellsAll, Active
<1>5. AllAuthentic'
  BY <1>1, <1>2 DEF AllAuthentic, Authentic
<1>6. RandomFresh'
  <2>1. \A d \in Calls : pc'[d] = "sending" /\ attempt'[d] = 0 =>
            pc[d] = "sending" /\ attempt[d] = 0
    BY <1>1, <1>3 DEF TypeOK
  <2> QED
    BY <1>1, <1>2, <2>1 DEF RandomFresh
<1>7. AnswersOwnRequest'
  BY <1>1, <1>2 DEF AnswersOwnRequest, TypeOK
<1> QED
  BY <1>3, <1>4, <1>5, <1>6, <1>7
\* A response arrives: it completes the exchange it verifies for, or nothing.
LEMMA DeliverStep ==
    ASSUME IInv, NEW p \in Peers, NEW r \in Responses, Deliver(p, r)
    PROVE  IInv'
<1> USE DEF IInv
<1> DEFINE c == Completes(reg, p, r)
           e == reg.pending[p][r.id]
<1>1. /\ ~reg.closed
      /\ UNCHANGED <<pc, peer, packet, attempt, result, sent, started>>
      /\ IF c = None THEN UNCHANGED <<mailbox, reg>>
         ELSE /\ mailbox' = [mailbox EXCEPT ![c] = Ok(r)]
              /\ reg' = Taken(reg, p, r.id)
  BY DEF Deliver
<1>2. PICK m \in Packets : <<p, m>> \in sent /\ r.id = m.id /\ r.auth = m.auth
  BY DEF Deliver
<1>3. \A d \in Calls : (Active(d)' <=> Active(d)) /\ (Random(d)' <=> Random(d))
  BY <1>1 DEF Active, Random
<1>4. AllAuthentic' /\ RandomFresh'
  BY <1>1, <1>3 DEF AllAuthentic, Authentic, RandomFresh
<1>5. CASE c = None
  <2>1. UNCHANGED <<pc, peer, packet, attempt, result, sent, started, mailbox, reg>>
    BY <1>1, <1>5
  <2>2. TypeOK' /\ Linked' /\ NoIdLeak' /\ WithinLimit' /\ MailCleared'
    BY <2>1 DEF TypeOK, Linked, NoIdLeak, WithinLimit, MailCleared, Active
  <2>3. AnswersOwnRequest' /\ ClosedTellsAll'
    BY <2>1 DEF AnswersOwnRequest, ClosedTellsAll, Active
  <2> QED
    BY <1>4, <2>2, <2>3
<1>6. CASE c # None
  <2>1. /\ e # None /\ e.sender /\ c = e.call /\ r.id = e.packet.id /\ r.auth = e.packet.auth
    BY <1>6, CompletesIs
  <2>2. r.id \in Ids /\ reg \in Registries(Packets) /\ e \in Entries(Packets)
    BY <2>1 DEF Responses, TypeOK, Registries
  <2>3. c \in Calls /\ Active(c) /\ peer[c] = p /\ packet[c].id = r.id
    <3>1. r.id \in InUse(reg, p) /\ e.call \in Calls
      BY <2>1, <2>2 DEF InUse, Entries
    <3> QED
      BY <2>1, <3>1 DEF NoIdLeak
  <2>4. e.packet = packet[c] /\ mailbox[c] = None
    BY <2>1, <2>3 DEF Linked
  <2>5. m = packet[c]
    <3>1. packet[c] \in Packets /\ m.id = packet[c].id /\ m.auth = packet[c].auth
      BY <1>2, <2>1, <2>3, <2>4 DEF TypeOK, Active
    <3>2. Authentic(m) /\ Authentic(packet[c])
      BY <1>2, <2>3 DEF AllAuthentic
    <3>3. m.code = packet[c].code
      BY <3>1, <3>2 DEF Authentic
    <3> QED
      BY <3>1, <3>3 DEF Packets
  <2>6. /\ reg' \in Registries(Packets) /\ reg'.closed = reg.closed
        /\ reg'.pending[p][r.id] = [e EXCEPT !.sender = FALSE]
        /\ \A q \in Peers, j \in Ids :
              q # p \/ j # r.id => reg'.pending[q][j] = reg.pending[q][j]
    BY <1>1, <1>6, <2>1, <2>2, TakenIs
  <2>7. LET f == [e EXCEPT !.sender = FALSE]
        IN f \in Entries(Packets) /\ f.call = e.call /\ f.packet = e.packet /\ f.sender = FALSE
    BY <2>2, SenderUsed
  <2>8. /\ reg'.pending[p][r.id] # None /\ reg'.pending[p][r.id].call = c
        /\ reg'.pending[p][r.id].packet = packet[c] /\ reg'.pending[p][r.id].sender = FALSE
    BY <2>1, <2>4, <2>6, <2>7, UdpOptionAssumption
  <2>9. Ok(r) \in Results /\ Ok(r) # None /\ Ok(r).tag = "ok" /\ Ok(r).response = r
    BY OptionsDiffer
  <2>10. /\ mailbox' = [mailbox EXCEPT ![c] = Ok(r)] /\ mailbox'[c] = Ok(r)
         /\ \A d \in Calls \ {c} : mailbox'[d] = mailbox[d]
    BY <1>1, <1>6, <2>3 DEF TypeOK
  <2> HIDE DEF c, e
  <2>11. TypeOK'
    BY <1>1, <2>3, <2>6, <2>9, <2>10 DEF TypeOK
  <2>12. Linked'
    <3> SUFFICES ASSUME NEW d \in Calls, Active(d)
                 PROVE  /\ peer[d] \in Peers
                        /\ reg'.pending[peer[d]][packet[d].id] # None
                        /\ reg'.pending[peer[d]][packet[d].id].call = d
                        /\ reg'.pending[peer[d]][packet[d].id].packet = packet[d]
                        /\ reg'.pending[peer[d]][packet[d].id].sender <=> mailbox'[d] = None
      BY <1>1, <1>3 DEF Linked
    <3>1. CASE d = c
      BY <2>3, <2>8, <2>9, <2>10, <3>1
    <3>2. CASE d # c
      <4>1. packet[d].id \in Ids /\ peer[d] \in Peers
        BY DEF Active, TypeOK, Packets, Linked
      <4>2. ~(peer[d] = p /\ packet[d].id = r.id)
        BY <2>3, <3>2 DEF Linked
      <4>3. reg'.pending[peer[d]][packet[d].id] = reg.pending[peer[d]][packet[d].id]
        BY <2>6, <4>1, <4>2
      <4>4. mailbox'[d] = mailbox[d]
        BY <2>10, <3>2
      <4> QED
        BY <4>3, <4>4 DEF Linked
    <3> QED
      BY <3>1, <3>2
  <2>13. \A q \in Peers : InUse(reg', q) = InUse(reg, q)
    BY <2>1, <2>2, <2>6, <2>8 DEF InUse, e
  <2>14. NoIdLeak'
    <3> SUFFICES ASSUME NEW q \in Peers, NEW i \in InUse(reg, q)
                 PROVE  LET d == reg'.pending[q][i].call
                        IN packet[d] # None /\ peer[d] = q /\ packet[d].id = i
      BY <1>1, <2>13 DEF NoIdLeak, Active
    <3>1. i \in Ids
      BY DEF InUse
    <3>2. reg'.pending[q][i].call = reg.pending[q][i].call
      BY <2>1, <2>6, <2>8, <3>1 DEF e
    <3> QED
      BY <3>2 DEF NoIdLeak, Active
  <2>15. WithinLimit'
    BY <2>13 DEF WithinLimit
  <2>16. MailCleared'
    BY <1>3, <2>3, <2>10 DEF MailCleared
  <2>17. AnswersOwnRequest'
    <3> SUFFICES ASSUME NEW d \in Calls, Active(d), mailbox'[d] # None, mailbox'[d].tag = "ok"
                 PROVE  /\ mailbox'[d].response.id = packet[d].id
                        /\ mailbox'[d].response.auth = packet[d].auth
                        /\ <<peer[d], packet[d]>> \in sent
                        /\ packet[d].code \in RandomAuthenticator => pc[d] = "waiting" \/ attempt[d] > 0
      BY <1>1, <1>3 DEF AnswersOwnRequest
    <3>1. CASE d = c
      <4>1. mailbox'[d].response.id = packet[d].id /\ mailbox'[d].response.auth = packet[d].auth
        BY <1>2, <2>5, <2>9, <2>10, <3>1
      <4>2. <<peer[d], packet[d]>> \in sent
        BY <1>2, <2>3, <2>5, <3>1
      <4>3. packet[d].code \in RandomAuthenticator => ~(pc[d] = "sending" /\ attempt[d] = 0)
        BY <2>3, <3>1, <4>2 DEF RandomFresh, Random
      <4>4. pc[d] \in {"sending", "waiting"} /\ attempt[d] \in Nat
        BY DEF TypeOK, Active
      <4> QED
        BY <4>1, <4>2, <4>3, <4>4
    <3>2. CASE d # c
      BY <2>10, <3>2 DEF AnswersOwnRequest
    <3> QED
      BY <3>1, <3>2
  <2>18. ClosedTellsAll'
    BY <1>1, <2>6 DEF ClosedTellsAll
  <2> QED
    BY <1>4, <2>11, <2>12, <2>14, <2>15, <2>16, <2>17, <2>18
<1> QED
  BY <1>5, <1>6

\* The reader ends and closes the registry: everyone who waits is told.
LEMMA ReaderFailsStep ==
    ASSUME IInv, ReaderFails
    PROVE  IInv'
<1> USE DEF IInv
<1>1. /\ ~reg.closed /\ reg' = Shut(reg)
      /\ mailbox' = [c \in Calls |-> IF c \in Waiting(reg) THEN Err("closed") ELSE mailbox[c]]
      /\ UNCHANGED <<pc, peer, packet, attempt, result, sent, started>>
  BY DEF ReaderFails
<1>2. \A d \in Calls : (Active(d)' <=> Active(d)) /\ (Random(d)' <=> Random(d))
  BY <1>1 DEF Active, Random
<1>3. AllAuthentic' /\ RandomFresh'
  BY <1>1, <1>2 DEF AllAuthentic, Authentic, RandomFresh
<1>4. reg \in Registries(Packets)
  BY DEF TypeOK
<1>5. None \notin Entries(Packets)
  BY UdpOptionAssumption
<1>6. reg' \in Registries(Packets) /\ reg'.closed = TRUE /\ SendersTaken(reg, reg')
  BY <1>1, <1>4, <1>5, ShutIs
<1>7. Err("closed") \in Results /\ Err("closed") # None /\ Err("closed").tag = "err"
  BY OptionsDiffer DEF Failures
<1>8. ASSUME NEW d \in Calls, Active(d)
      PROVE  mailbox'[d] # None
  <2>1. CASE mailbox[d] = None
    <3>1. /\ reg.pending[peer[d]][packet[d].id] # None
          /\ reg.pending[peer[d]][packet[d].id].sender
          /\ reg.pending[peer[d]][packet[d].id].call = d
          /\ peer[d] \in Peers /\ packet[d].id \in Ids
      BY <1>8, <2>1 DEF Linked, TypeOK, Active, Packets
    <3>2. d \in Waiting(reg)
      BY <3>1 DEF Waiting
    <3> QED
      BY <1>1, <1>7, <3>2
  <2>2. CASE mailbox[d] # None
    BY <1>1, <1>7, <2>2
  <2> QED
    BY <2>1, <2>2
<1>9. TypeOK'
  BY <1>1, <1>6, <1>7 DEF TypeOK
<1>10. Linked'
  <2> SUFFICES ASSUME NEW d \in Calls, Active(d)
               PROVE  /\ peer[d] \in Peers
                      /\ reg'.pending[peer[d]][packet[d].id] # None
                      /\ reg'.pending[peer[d]][packet[d].id].call = d
                      /\ reg'.pending[peer[d]][packet[d].id].packet = packet[d]
                      /\ reg'.pending[peer[d]][packet[d].id].sender <=> mailbox'[d] = None
    BY <1>1, <1>2 DEF Linked
  <2>1. packet[d].id \in Ids /\ peer[d] \in Peers /\ reg.pending[peer[d]][packet[d].id] # None
    BY DEF Active, TypeOK, Packets, Linked
  <2>2. /\ reg'.pending[peer[d]][packet[d].id] # None
        /\ reg'.pending[peer[d]][packet[d].id].call = d
        /\ reg'.pending[peer[d]][packet[d].id].packet = packet[d]
        /\ reg'.pending[peer[d]][packet[d].id].sender = FALSE
    <3>1. /\ reg.pending[peer[d]][packet[d].id].call = d
          /\ reg.pending[peer[d]][packet[d].id].packet = packet[d]
      BY DEF Linked
    <3>2. SendersTaken(reg, reg')
      BY <1>6
    <3> DEFINE old == reg.pending[peer[d]][packet[d].id]
               new == reg'.pending[peer[d]][packet[d].id]
    <3>3. new # None /\ new.call = old.call /\ new.packet = old.packet /\ new.sender = FALSE
      BY ONLY <3>2, <2>1 DEF SendersTaken
    <3> QED
      BY ONLY <3>1, <3>3
  <2>3. mailbox'[d] # None
    BY <1>8
  <2> QED
    BY <2>1, <2>2, <2>3
<1>11. \A q \in Peers : InUse(reg', q) = InUse(reg, q)
  BY <1>6 DEF InUse, SendersTaken
<1>12. NoIdLeak'
  <2> SUFFICES ASSUME NEW q \in Peers, NEW i \in InUse(reg, q)
               PROVE  LET d == reg'.pending[q][i].call
                      IN packet[d] # None /\ peer[d] = q /\ packet[d].id = i
    BY <1>1, <1>11 DEF NoIdLeak, Active
  <2>1. reg'.pending[q][i].call = reg.pending[q][i].call
    BY <1>6 DEF InUse, SendersTaken
  <2> QED
    BY <2>1 DEF NoIdLeak, Active
<1>13. WithinLimit'
  BY <1>11 DEF WithinLimit
<1>14. MailCleared'
  <2> SUFFICES ASSUME NEW d \in Calls, ~Active(d) PROVE mailbox'[d] = None
    BY <1>2 DEF MailCleared
  <2>1. d \notin Waiting(reg)
    BY DEF Waiting, NoIdLeak, InUse
  <2> QED
    BY <1>1, <2>1 DEF MailCleared
<1>15. AnswersOwnRequest'
  <2>1. \A d \in Calls : mailbox'[d].tag = "ok" => mailbox'[d] = mailbox[d]
    BY <1>1, <1>7
  <2> QED
    BY <1>1, <1>2, <2>1 DEF AnswersOwnRequest
<1>16. ClosedTellsAll'
  BY <1>2, <1>8 DEF ClosedTellsAll
<1> QED
  BY <1>3, <1>9, <1>10, <1>12, <1>13, <1>14, <1>15, <1>16

\* Nothing happens.
LEMMA StutterStep ==
    ASSUME IInv, UNCHANGED vars
    PROVE  IInv'
BY DEF IInv, vars, callVars, TypeOK, Linked, NoIdLeak, WithinLimit, MailCleared, AllAuthentic,
       Authentic, RandomFresh, Random, AnswersOwnRequest, ClosedTellsAll, Active

-----------------------------------------------------------------------------
(* Theorems.                                                               *)

\* The strengthening that the properties of the client follow from.
THEOREM Invariance == Spec => []IInv
<1>1. Init => IInv
  <2> SUFFICES ASSUME Init PROVE IInv
    OBVIOUS
  <2> USE ExchangeAssumption, UdpClientAssumption DEF Init
  <2>1. reg \in Registries(Packets)
    BY DEF EmptyRegistry, Registries, Ids
  <2>2. TypeOK
    BY <2>1 DEF TypeOK
  <2>3. \A c \in Calls : ~Active(c) /\ mailbox[c] = None
    BY DEF Active
  <2>4. \A p \in Peers : InUse(reg, p) = {}
    BY DEF InUse, EmptyRegistry
  <2>5. WithinLimit
    <3>1. Cardinality({}) = 0
      BY FS_EmptySet
    <3> QED
      BY <2>4, <3>1 DEF WithinLimit
  <2>6. Linked /\ NoIdLeak /\ MailCleared /\ AllAuthentic /\ RandomFresh
        /\ AnswersOwnRequest /\ ClosedTellsAll
    BY <2>3, <2>4 DEF Linked, NoIdLeak, MailCleared, AllAuthentic, RandomFresh, Random,
                      AnswersOwnRequest, ClosedTellsAll
  <2> QED
    BY <2>2, <2>5, <2>6 DEF IInv
<1>2. IInv /\ [Next]_vars => IInv'
  <2> SUFFICES ASSUME IInv, [Next]_vars PROVE IInv'
    OBVIOUS
  <2>1. ASSUME NEW c \in Calls, NEW p \in Peers, Refuse(c, p) PROVE IInv'
    BY <2>1, ResultStep
  <2>2. ASSUME NEW c \in Calls, NEW p \in Peers, NEW code \in Codes, Start(c, p, code) PROVE IInv'
    BY <2>2, StartStep
  <2>3. ASSUME NEW c \in Calls, CallStep(c) \/ Cancel(c) PROVE IInv'
    <3>1. CASE SendTo(c)
      BY <3>1, SendToStep
    <3>2. CASE Retransmit(c)
      BY <3>2, RetransmitStep
    <3>3. CASE Return(c)
      BY <3>3, ResultStep
    <3>4. CASE SendError(c) \/ Receive(c) \/ GiveUp(c) \/ Cancel(c)
      <4>1. PICK r \in Results \cup {None} : Finish(c, r)
        BY <3>4, OptionsDiffer DEF SendError, Receive, GiveUp, Cancel, Failures, IInv, TypeOK
      <4>2. pc[c] \in {"sending", "waiting"}
        BY <3>4 DEF SendError, Receive, GiveUp, Cancel
      <4> QED
        BY <4>1, <4>2, FinishStep
    <3> QED
      BY <2>3, <3>1, <3>2, <3>3, <3>4 DEF CallStep
  <2>4. ASSUME NEW p \in Peers, NEW r \in Responses, Deliver(p, r) PROVE IInv'
    BY <2>4, DeliverStep
  <2>5. CASE ReaderFails
    BY <2>5, ReaderFailsStep
  <2>6. CASE UNCHANGED vars
    BY <2>6, StutterStep
  <2> QED
    BY <2>1, <2>2, <2>3, <2>4, <2>5, <2>6 DEF Next
<1> QED
  BY <1>1, <1>2, PTL DEF Spec

\* The registry lists exactly the calls in flight, whatever order answers,
\* time-outs, send errors and cancellations come in, and of no peer more than
\* the limit.
THEOREM IdsExactHolds == Spec => []IdsExact
<1>1. IInv => IdsExact
  BY DEF IInv, Linked, IdsExact, IdsExclusive
<1> QED
  BY <1>1, Invariance, PTL

\* A call only ever receives the answer to the packet it sent, however late
\* and however often responses to earlier packets arrive, and hears when the
\* reader has gone.
THEOREM CallsToldRightHolds == Spec => []CallsToldRight
<1>1. IInv => CallsToldRight
  BY DEF IInv, CallsToldRight
<1> QED
  BY <1>1, Invariance, PTL
-----------------------------------------------------------------------------
(* Dynamic authorization, from CoaOriginator to the handler of the NAS.    *)

\* The request of c is in flight.
CoaActive(c) == pc[c] \in {"sending", "waiting"}

\* An entry of the registry is that of a call in flight, to this peer and under
\* this identifier.
CoaEntries ==
    \A p \in Peers, i \in Ids : reg.pending[p][i] # None =>
        LET c == reg.pending[p][i].call
        IN /\ CoaActive(c) /\ peer[c] = p
           /\ packet[c] = reg.pending[p][i].packet /\ packet[c].id = i

\* The handler of p decided v on packet m, and did not drop it.
CoaDecided(p, m, v) == <<p, m, v>> \in decided /\ v.do # "drop"

\* Every reply under way, and every cached one, is of a decision.
CoaAuthored ==
    /\ \A s \in replies : \E m \in Coa!Requests, v \in Coa!Verdicts :
            CoaDecided(s[1], m, v) /\ s[2] = Coa!ReplyTo(m, v)
    /\ \A e \in cache : \E v \in Coa!Verdicts :
            CoaDecided(e[1], e[2], v) /\ e[3] = Coa!ReplyTo(e[2], v)

\* What a call has received is the reply to its own packet.
CoaMail ==
    \A c \in Calls : (mailbox[c] # None /\ mailbox[c].tag = "ok") =>
        \E v \in Coa!Verdicts : /\ CoaDecided(peer[c], packet[c], v)
                                /\ mailbox[c].reply = Coa!ReplyTo(packet[c], v)
                                /\ Coa!Verify(mailbox[c].reply, packet[c])

\* Who is in flight has a target and a packet.
CoaTargets == \A c \in Calls : CoaActive(c) => peer[c] \in Peers /\ packet[c] \in Coa!Requests

\* Runs of the handler for m: one more than those whose reply was forgotten
\* while a reply is cached, and no more than those otherwise.
RunsOf(x) == {j \in DOMAIN runs : runs[j] = x}
CoaRuns ==
    \A p \in Peers, m \in Coa!Requests :
        Cardinality(RunsOf(<<p, m>>)) <= IF Coa!Cached(p, m) = {} THEN forgotten ELSE 1 + forgotten

CoaInv == Coa!TypeOK /\ CoaTargets /\ CoaEntries /\ CoaAuthored /\ CoaMail /\ Coa!OutcomeIsVerdict /\ CoaRuns

\* The registry of the originator is that of the client.
LEMMA CoaRegistry ==
    /\ Coa!Ids = Ids /\ Coa!EmptyRegistry = EmptyRegistry
    /\ \A P : Coa!Registries(P) = Registries(P) /\ Coa!Entries(P) = Entries(P)
BY DEF Coa!Ids, Ids, Coa!EmptyRegistry, EmptyRegistry, Coa!Registries, Registries, Coa!Entries, Entries

LEMMA CoaRegistered == ASSUME NEW r, NEW p, NEW c, NEW m
                       PROVE  Coa!Registered(r, p, c, m) = Registered(r, p, c, m)
BY DEF Coa!Registered, Registered

LEMMA CoaTaken == ASSUME NEW r, NEW p, NEW i PROVE Coa!Taken(r, p, i) = Taken(r, p, i)
BY DEF Coa!Taken, Taken

LEMMA CoaShut == ASSUME NEW r PROVE Coa!Shut(r) = Shut(r) /\ Coa!Waiting(r) = Waiting(r)
BY DEF Coa!Shut, Shut, Coa!Waiting, Waiting, Coa!Ids, Ids

LEMMA CoaReleased == ASSUME NEW r, NEW p, NEW ids PROVE Coa!Released(r, p, ids) = Released(r, p, ids)
BY DEF Coa!Released, Released, Coa!Ids, Ids

LEMMA CoaCardinality == ASSUME NEW S PROVE Coa!Cardinality(S) = Cardinality(S)
BY Zenon DEF Coa!Cardinality, Cardinality

LEMMA CoaFree == ASSUME NEW r, NEW p
                 PROVE  Coa!FreeId(r, p) = FreeId(r, p) /\ Coa!Refusal(r, p) = Refusal(r, p)
<1>1. Coa!FreeId(r, p) = FreeId(r, p)
  BY Zenon DEF Coa!FreeId, FreeId, Coa!Try, Try, Coa!InUse, InUse, Coa!Ids, Ids
<1>2. Coa!Refusal(r, p) = Refusal(r, p)
  <2>1. Coa!InUse(r, p) = InUse(r, p) /\ Coa!Ids = Ids
    BY Zenon DEF Coa!InUse, InUse, Coa!Ids, Ids
  <2> QED
    BY <2>1, CoaCardinality, Zenon DEF Coa!Refusal, Refusal
<1> QED
  BY <1>1, <1>2

LEMMA CoaCompletes == ASSUME NEW r, NEW p, NEW s
                      PROVE  Coa!Completes(r, p, s) = Completes(r, p, s) /\ \A m : Coa!Verify(s, m) = Verify(s, m)
BY DEF Coa!Completes, Completes, Coa!Verify, Verify, Coa!MatchesReply, MatchesReply

\* A sealed request, and that its authenticator tells it.
LEMMA CoaRequest ==
    ASSUME NEW m \in Coa!Requests
    PROVE  /\ m.id \in Ids /\ m.code \in Coa!DynCodes
           /\ \A n \in Coa!Requests : m.auth = n.auth => m = n
<1>1. PICK i \in Ids, code \in Coa!DynCodes, b \in Bodies : m = Coa!Seal(i, code, b)
  BY CoaRegistry DEF Coa!Requests
<1>2. m = [id |-> i, code |-> code, auth |-> <<i, code, b>>]
  BY <1>1 DEF Coa!Seal
<1>3. ASSUME NEW n \in Coa!Requests, m.auth = n.auth PROVE m = n
  <2>1. PICK j \in Ids, c \in Coa!DynCodes, d \in Bodies : n = Coa!Seal(j, c, d)
    BY CoaRegistry DEF Coa!Requests
  <2>2. n = [id |-> j, code |-> c, auth |-> <<j, c, d>>]
    BY <2>1 DEF Coa!Seal
  <2>3. <<i, code, b>> = <<j, c, d>>
    BY <1>2, <1>3, <2>2
  <2> QED
    BY <1>2, <2>2, <2>3
<1> QED
  BY <1>2, <1>3

\* What a handler decides; an Error-Cause survives its way over the wire.
LEMMA CoaVerdict ==
    ASSUME NEW v \in Coa!Verdicts
    PROVE  /\ v.do \in {"ack", "odd", "drop", "nak"}
           /\ v.do = "nak" => /\ v.cause.value \in CauseValues
                              /\ Coa!CauseFrom(v.cause.value) = v.cause
BY DEF Coa!Verdicts, Coa!CauseFrom

LEMMA CoaReply ==
    ASSUME NEW m \in Coa!Requests, NEW v \in Coa!Verdicts
    PROVE  /\ Coa!ReplyTo(m, v) \in Coa!Replies
           /\ Coa!ReplyTo(m, v).id = m.id /\ Coa!ReplyTo(m, v).auth = m.auth
BY DEF Coa!Replies, Coa!ReplyTo

\* The originator reads an acknowledgement or a refusal from a reply that
\* verifies, exactly as the handler gave it.
LEMMA CoaOutcome ==
    ASSUME NEW m \in Coa!Requests, NEW v \in Coa!Verdicts, v.do # "drop",
           Coa!Verify(Coa!ReplyTo(m, v), m)
    PROVE  LET o == Coa!Outcome(Coa!ReplyTo(m, v))
           IN /\ o \in Coa!Outcomes
              /\ v.do = IF o.tag = "Ack" THEN "ack" ELSE "nak"
              /\ v.do = "nak" => Coa!CauseFrom(o.cause) = v.cause
<1>1. m.code \in {"COA_REQUEST", "DISCONNECT_REQUEST"}
  BY CoaRequest DEF Coa!DynCodes
<1>2. v.do \in {"ack", "odd", "nak"}
  BY CoaVerdict
<1>3. CASE v.do = "ack"
  BY <1>1, <1>3 DEF Coa!Outcome, Coa!ReplyTo, Coa!AckCode, Coa!Outcomes
<1>4. CASE v.do = "nak"
  BY <1>1, <1>4, CoaVerdict DEF Coa!Outcome, Coa!ReplyTo, Coa!NakCode, Coa!Outcomes, Coa!CauseTo
<1>5. CASE v.do = "odd"
  BY <1>1, <1>5 DEF Coa!Verify, Coa!MatchesReply, Coa!ReplyTo
<1> QED
  BY <1>2, <1>3, <1>4, <1>5

\* What the reply helpers make verifies.
LEMMA CoaHelpers ==
    ASSUME NEW m \in Coa!Requests, NEW v \in Coa!Verdicts, v.do \in {"ack", "nak"}
    PROVE  Coa!Verify(Coa!ReplyTo(m, v), m)
<1>1. m.code \in {"COA_REQUEST", "DISCONNECT_REQUEST"}
  BY CoaRequest DEF Coa!DynCodes
<1> QED
  BY <1>1 DEF Coa!Verify, Coa!MatchesReply, Coa!ReplyTo, Coa!AckCode, Coa!NakCode

\* What is said of the NAS stays true while it does nothing.
NasKept == UNCHANGED <<replies, cache, decided, runs, forgotten>>

LEMMA CoaNasKept ==
    ASSUME CoaAuthored, CoaRuns, NasKept
    PROVE  CoaAuthored' /\ CoaRuns' /\ \A p, m, v : CoaDecided(p, m, v)' <=> CoaDecided(p, m, v)
<1>1. \A p, m, v : CoaDecided(p, m, v)' <=> CoaDecided(p, m, v)
  BY DEF CoaDecided, NasKept
<1>2. CoaAuthored'
  BY <1>1 DEF CoaAuthored, NasKept
<1>3. CoaRuns'
  BY DEF CoaRuns, RunsOf, Coa!Cached, NasKept
<1> QED
  BY <1>1, <1>2, <1>3

\* An entry names a call.
LEMMA CoaEntry ==
    ASSUME Coa!TypeOK, NEW p \in Peers, NEW i \in Ids, reg.pending[p][i] # None
    PROVE  reg.pending[p][i].call \in Calls
<1>1. reg \in Registries(Coa!Requests)
  BY CoaRegistry DEF Coa!TypeOK
<1>2. reg.pending[p][i] \in Entries(Coa!Requests)
  BY <1>1 DEF Registries
<1> QED
  BY <1>2 DEF Entries

\* The originator registers a request.
LEMMA CoaStart ==
    ASSUME Coa!DynAuthAssumption, CoaInv, NEW c \in Calls, NEW p \in Peers,
           NEW code \in Coa!DynCodes, NEW b \in Bodies, Coa!Start(c, p, code, b)
    PROVE  CoaInv'
<1> USE DEF CoaInv
<1> DEFINE id == FreeId(reg, p)
           m == Coa!Seal(id, code, b)
           e == [call |-> c, packet |-> m, sender |-> TRUE]
<1>1. /\ pc[c] = "idle" /\ started < MaxSends /\ Refusal(reg, p) = None
      /\ packet' = [packet EXCEPT ![c] = m]
      /\ reg' = Registered(reg, p, c, m)
      /\ pc' = [pc EXCEPT ![c] = "sending"]
      /\ peer' = [peer EXCEPT ![c] = p]
      /\ started' = started + 1
      /\ UNCHANGED <<attempt, mailbox, result, sent>> /\ NasKept
  BY CoaFree, CoaRegistered DEF Coa!Start, Coa!nasVars, NasKept
<1>2. reg \in Registries(Coa!Requests)
  BY CoaRegistry DEF Coa!TypeOK
<1>3. id \in Ids
  <2>1. InUse(reg, p) # Ids
    BY <1>1, NotRefused
  <2> QED
    BY <1>2, <2>1, FreeIdIsFree
<1> HIDE DEF id
<1>4. m \in Coa!Requests /\ m.id = id
  BY <1>3, CoaRegistry DEF Coa!Requests, Coa!Seal
<1> HIDE DEF m
<1>5. /\ reg' \in Registries(Coa!Requests)
      /\ \A q \in Peers, i \in Ids :
            reg'.pending[q][i] = IF q = p /\ i = id THEN e ELSE reg.pending[q][i]
  BY <1>1, <1>2, <1>3, <1>4, RegisteredIs
<1>6. /\ ~CoaActive(c) /\ CoaActive(c)' /\ packet'[c] = m /\ peer'[c] = p
      /\ mailbox[c] = None /\ result[c] = None
      /\ \A d \in Calls \ {c} : /\ packet'[d] = packet[d] /\ peer'[d] = peer[d] /\ pc'[d] = pc[d]
                                /\ CoaActive(d)' <=> CoaActive(d)
  BY <1>1 DEF Coa!TypeOK, CoaActive
<1>7. CoaAuthored' /\ CoaRuns' /\ \A q, n, v : CoaDecided(q, n, v)' <=> CoaDecided(q, n, v)
  BY <1>1, CoaNasKept
<1>8. Coa!TypeOK'
  <2>1. reg' \in Coa!Registries(Coa!Requests)
    BY <1>5, CoaRegistry
  <2>2. started' \in 0 .. MaxSends
    BY <1>1 DEF Coa!TypeOK, Coa!DynAuthAssumption
  <2>3. /\ pc' \in [Calls -> {"idle", "sending", "waiting", "done"}]
        /\ peer' \in [Calls -> Peers \cup {None}]
        /\ packet' \in [Calls -> Coa!Requests \cup {None}]
    BY <1>1, <1>4 DEF Coa!TypeOK
  <2>4. \A d \in Calls : /\ result'[d] # None => pc'[d] = "done"
                         /\ mailbox'[d] # None => pc'[d] \in {"sending", "waiting"}
    BY <1>1, <1>6 DEF Coa!TypeOK
  <2> QED
    BY <1>1, <2>1, <2>2, <2>3, <2>4 DEF Coa!TypeOK, NasKept
<1>9. CoaTargets'
  BY <1>4, <1>6 DEF CoaTargets
<1>10. CoaEntries'
  <2> SUFFICES ASSUME NEW q \in Peers, NEW i \in Ids, reg'.pending[q][i] # None
               PROVE  LET d == reg'.pending[q][i].call
                      IN /\ pc'[d] \in {"sending", "waiting"} /\ peer'[d] = q
                         /\ packet'[d] = reg'.pending[q][i].packet /\ packet'[d].id = i
    BY DEF CoaEntries, CoaActive
  <2>1. CASE q = p /\ i = id
    BY <1>1, <1>4, <1>5, <1>6, <2>1 DEF Coa!TypeOK
  <2>2. CASE ~(q = p /\ i = id)
    <3>1. reg'.pending[q][i] = reg.pending[q][i]
      BY <1>5, <2>2
    <3>2. reg.pending[q][i].call \in Calls
      BY <1>2, <3>1 DEF Registries, Entries
    <3>3. reg.pending[q][i].call # c
      BY <1>6, <3>1 DEF CoaEntries
    <3> QED
      BY <1>6, <3>1, <3>2, <3>3 DEF CoaEntries, CoaActive
  <2> QED
    BY <2>1, <2>2
<1>11. CoaMail'
  BY <1>1, <1>6, <1>7 DEF CoaMail
<1>12. Coa!OutcomeIsVerdict'
  BY <1>1, <1>6 DEF Coa!OutcomeIsVerdict, NasKept
<1> QED
  BY <1>7, <1>8, <1>9, <1>10, <1>11, <1>12

\* A call that had no packet in flight gets a result, or gives it back.
LEMMA CoaRefuse ==
    ASSUME Coa!DynAuthAssumption, CoaInv, NEW c \in Calls, NEW p \in Peers, Coa!Refuse(c, p)
    PROVE  CoaInv'
<1> USE DEF CoaInv
<1> DEFINE r == Coa!Err(IF Coa!Refusal(reg, p) = None THEN "codec" ELSE Coa!Refusal(reg, p))
<1>1. /\ pc[c] = "idle" /\ result' = [result EXCEPT ![c] = r] /\ pc' = [pc EXCEPT ![c] = "done"]
      /\ UNCHANGED <<peer, packet, attempt, mailbox, reg, sent, started>> /\ NasKept
  BY DEF Coa!Refuse, Coa!nasVars, NasKept
<1>2. r \in Coa!Errors /\ r.tag = "err"
  BY DEF Coa!Err, Coa!Errors, Coa!CoaError, Coa!CoaErrors
<1> HIDE DEF r
<1>3. \A d \in Calls : /\ pc'[d] = IF d = c THEN "done" ELSE pc[d]
                       /\ result'[d] = IF d = c THEN r ELSE result[d]
                       /\ pc'[d] \in {"sending", "waiting"} <=> CoaActive(d)
  BY <1>1 DEF Coa!TypeOK, CoaActive
<1>4. CoaAuthored' /\ CoaRuns' /\ \A q, n, v : CoaDecided(q, n, v)' <=> CoaDecided(q, n, v)
  BY <1>1, CoaNasKept
<1>5. Coa!TypeOK'
  <2>1. /\ pc' \in [Calls -> {"idle", "sending", "waiting", "done"}]
        /\ result' \in [Calls -> Coa!Outcomes \cup Coa!Errors \cup {None}]
    BY <1>1, <1>2 DEF Coa!TypeOK
  <2>2. \A d \in Calls : /\ result'[d] # None => pc'[d] = "done"
                         /\ mailbox'[d] # None => pc'[d] \in {"sending", "waiting"}
    BY <1>1, <1>3 DEF Coa!TypeOK
  <2> QED
    BY <1>1, <2>1, <2>2 DEF Coa!TypeOK, NasKept
<1>6. CoaTargets'
  BY <1>1, <1>3 DEF CoaTargets, CoaActive
<1>7. CoaEntries'
  <2> SUFFICES ASSUME NEW q \in Peers, NEW i \in Ids, reg.pending[q][i] # None
               PROVE  LET d == reg.pending[q][i].call
                      IN /\ pc'[d] \in {"sending", "waiting"} /\ peer[d] = q
                         /\ packet[d] = reg.pending[q][i].packet /\ packet[d].id = i
    BY <1>1 DEF CoaEntries, CoaActive
  <2>1. reg.pending[q][i].call \in Calls
    BY CoaEntry
  <2> QED
    BY <1>3, <2>1 DEF CoaEntries
<1>8. CoaMail'
  BY <1>1, <1>4 DEF CoaMail
<1>9. Coa!OutcomeIsVerdict'
  BY <1>1, <1>2, <1>3 DEF Coa!OutcomeIsVerdict, NasKept
<1> QED
  BY <1>4, <1>5, <1>6, <1>7, <1>8, <1>9

LEMMA CoaReturn ==
    ASSUME Coa!DynAuthAssumption, CoaInv, NEW c \in Calls, Coa!Return(c)
    PROVE  CoaInv'
<1> USE DEF CoaInv
<1>1. /\ pc[c] = "done"
      /\ pc' = [pc EXCEPT ![c] = "idle"] /\ peer' = [peer EXCEPT ![c] = None]
      /\ packet' = [packet EXCEPT ![c] = None] /\ attempt' = [attempt EXCEPT ![c] = 0]
      /\ result' = [result EXCEPT ![c] = None]
      /\ UNCHANGED <<mailbox, reg, sent, started>> /\ NasKept
  BY DEF Coa!Return, Coa!nasVars, NasKept
<1>2. /\ ~CoaActive(c) /\ ~(pc'[c] \in {"sending", "waiting"}) /\ result'[c] = None /\ mailbox[c] = None
      /\ \A d \in Calls \ {c} : /\ packet'[d] = packet[d] /\ peer'[d] = peer[d] /\ pc'[d] = pc[d]
                                /\ result'[d] = result[d]
  BY <1>1 DEF Coa!TypeOK, CoaActive
<1>4. CoaAuthored' /\ CoaRuns' /\ \A q, n, v : CoaDecided(q, n, v)' <=> CoaDecided(q, n, v)
  BY <1>1, CoaNasKept
<1>5. Coa!TypeOK'
  <2>1. /\ pc' \in [Calls -> {"idle", "sending", "waiting", "done"}]
        /\ peer' \in [Calls -> Peers \cup {None}]
        /\ packet' \in [Calls -> Coa!Requests \cup {None}]
        /\ attempt' \in [Calls -> 0 .. MaxRetries]
        /\ result' \in [Calls -> Coa!Outcomes \cup Coa!Errors \cup {None}]
    BY <1>1 DEF Coa!TypeOK, Coa!DynAuthAssumption
  <2>2. \A d \in Calls : /\ result'[d] # None => pc'[d] = "done"
                         /\ mailbox'[d] # None => pc'[d] \in {"sending", "waiting"}
    BY <1>1, <1>2 DEF Coa!TypeOK
  <2> QED
    BY <1>1, <2>1, <2>2 DEF Coa!TypeOK, NasKept
<1>6. CoaTargets'
  BY <1>2 DEF CoaTargets, CoaActive
<1>7. CoaEntries'
  <2> SUFFICES ASSUME NEW q \in Peers, NEW i \in Ids, reg.pending[q][i] # None
               PROVE  LET d == reg.pending[q][i].call
                      IN /\ pc'[d] \in {"sending", "waiting"} /\ peer'[d] = q
                         /\ packet'[d] = reg.pending[q][i].packet /\ packet'[d].id = i
    BY <1>1 DEF CoaEntries, CoaActive
  <2>1. reg.pending[q][i].call \in Calls \ {c}
    BY <1>2, CoaEntry DEF CoaEntries
  <2> QED
    BY <1>2, <2>1 DEF CoaEntries, CoaActive
<1>8. CoaMail'
  BY <1>1, <1>2, <1>4 DEF CoaMail
<1>9. Coa!OutcomeIsVerdict'
  BY <1>1, <1>2 DEF Coa!OutcomeIsVerdict, NasKept
<1> QED
  BY <1>4, <1>5, <1>6, <1>7, <1>8, <1>9

\* The packet goes out, for the first time or again.
LEMMA CoaSend ==
    ASSUME Coa!DynAuthAssumption, CoaInv, NEW c \in Calls, Coa!SendTo(c) \/ Coa!Retransmit(c)
    PROVE  CoaInv'
<1> USE DEF CoaInv
<1>1. /\ CoaActive(c)
      /\ pc' = [pc EXCEPT ![c] = "waiting"] \/ pc' = [pc EXCEPT ![c] = "sending"]
      /\ sent' = sent \cup {<<peer[c], packet[c]>>} \/ sent' = sent
      /\ \/ attempt' = attempt
         \/ attempt[c] < MaxRetries /\ attempt' = [attempt EXCEPT ![c] = @ + 1]
      /\ UNCHANGED <<peer, packet, mailbox, result, reg, started>> /\ NasKept
  BY DEF Coa!SendTo, Coa!Retransmit, Coa!nasVars, NasKept, CoaActive
<1>2. peer[c] \in Peers /\ packet[c] \in Coa!Requests /\ result[c] = None
  BY <1>1 DEF CoaTargets, Coa!TypeOK, CoaActive
<1>3. \A d \in Calls : /\ pc'[d] \in {"sending", "waiting"} <=> pc[d] \in {"sending", "waiting"}
                       /\ pc[d] = "done" => pc'[d] = "done"
  BY <1>1 DEF Coa!TypeOK, CoaActive
<1>4. CoaAuthored' /\ CoaRuns' /\ \A q, n, v : CoaDecided(q, n, v)' <=> CoaDecided(q, n, v)
  BY <1>1, CoaNasKept
<1>5. Coa!TypeOK'
  <2>0. sent' \subseteq Peers \X Coa!Requests
    BY <1>1, <1>2 DEF Coa!TypeOK
  <2>1. pc' \in [Calls -> {"idle", "sending", "waiting", "done"}]
    BY <1>1 DEF Coa!TypeOK
  <2>2. attempt' \in [Calls -> 0 .. MaxRetries]
    <3>1. CASE attempt' = attempt
      BY <3>1 DEF Coa!TypeOK
    <3>2. CASE attempt[c] < MaxRetries /\ attempt' = [attempt EXCEPT ![c] = @ + 1]
      <4>1. attempt[c] + 1 \in 0 .. MaxRetries
        BY <3>2 DEF Coa!TypeOK, Coa!DynAuthAssumption
      <4> QED
        BY <3>2, <4>1 DEF Coa!TypeOK
    <3> QED
      BY <1>1, <3>1, <3>2
  <2>3. \A d \in Calls : /\ result'[d] # None => pc'[d] = "done"
                         /\ mailbox'[d] # None => pc'[d] \in {"sending", "waiting"}
    BY <1>1, <1>3 DEF Coa!TypeOK
  <2> QED
    BY <1>1, <2>0, <2>1, <2>2, <2>3 DEF Coa!TypeOK, NasKept
<1>6. CoaTargets'
  BY <1>1, <1>3 DEF CoaTargets, CoaActive
<1>7. CoaEntries'
  <2> SUFFICES ASSUME NEW q \in Peers, NEW i \in Ids, reg.pending[q][i] # None
               PROVE  LET d == reg.pending[q][i].call
                      IN /\ pc'[d] \in {"sending", "waiting"} /\ peer[d] = q
                         /\ packet[d] = reg.pending[q][i].packet /\ packet[d].id = i
    BY <1>1 DEF CoaEntries, CoaActive
  <2>1. reg.pending[q][i].call \in Calls
    BY CoaEntry
  <2> QED
    BY <1>3, <2>1 DEF CoaEntries, CoaActive
<1>8. CoaMail'
  BY <1>1, <1>4 DEF CoaMail
<1>9. Coa!OutcomeIsVerdict'
  BY <1>1 DEF Coa!OutcomeIsVerdict, NasKept
<1> QED
  BY <1>4, <1>5, <1>6, <1>7, <1>8, <1>9

\* A result that the caller may be given.
CoaTold(c, r) ==
    /\ r \in Coa!Outcomes \cup Coa!Errors \cup {None}
    /\ (r # None /\ r.tag \in {"Ack", "Nak"}) =>
          \E d \in decided : /\ d[1] = peer[c] /\ d[2] = packet[c]
                             /\ d[3].do = IF r.tag = "Ack" THEN "ack" ELSE "nak"
                             /\ d[3].do = "nak" => Coa!CauseFrom(r.cause) = d[3].cause

\* A call ends, with its lease.
LEMMA CoaFinish ==
    ASSUME Coa!DynAuthAssumption, CoaInv, NEW c \in Calls, CoaActive(c), NEW r, CoaTold(c, r),
           Coa!Finish(c, r)
    PROVE  CoaInv'
<1> USE DEF CoaInv
<1>1. /\ result' = [result EXCEPT ![c] = r] /\ pc' = [pc EXCEPT ![c] = "done"]
      /\ reg' = Released(reg, peer[c], {packet[c].id})
      /\ mailbox' = [mailbox EXCEPT ![c] = None]
      /\ UNCHANGED <<peer, packet, attempt, sent, started>> /\ NasKept
  BY CoaReleased DEF Coa!Finish, Coa!nasVars, NasKept
<1>2. /\ mailbox'[c] = None /\ result'[c] = r /\ pc'[c] = "done"
      /\ \A d \in Calls \ {c} : /\ mailbox'[d] = mailbox[d] /\ pc'[d] = pc[d] /\ result'[d] = result[d]
  BY <1>1 DEF Coa!TypeOK
<1>3. /\ reg' \in Registries(Coa!Requests)
      /\ \A q \in Peers, i \in Ids : reg'.pending[q][i] =
            IF q = peer[c] /\ i \in {packet[c].id} THEN None ELSE reg.pending[q][i]
  <2>1. reg \in Registries(Coa!Requests) /\ peer[c] \in Peers
    BY CoaRegistry DEF Coa!TypeOK, CoaTargets
  <2> QED
    BY <1>1, <2>1, ReleasedIs
<1>4. CoaAuthored' /\ CoaRuns' /\ \A q, n, v : CoaDecided(q, n, v)' <=> CoaDecided(q, n, v)
  BY <1>1, CoaNasKept
<1>5. Coa!TypeOK'
  <2>1. /\ pc' \in [Calls -> {"idle", "sending", "waiting", "done"}]
        /\ result' \in [Calls -> Coa!Outcomes \cup Coa!Errors \cup {None}]
        /\ mailbox' \in [Calls -> [tag : {"ok"}, reply : Coa!Replies] \cup Coa!Errors \cup {None}]
    BY <1>1 DEF Coa!TypeOK, CoaTold
  <2>2. \A d \in Calls : /\ result'[d] # None => pc'[d] = "done"
                         /\ mailbox'[d] # None => pc'[d] \in {"sending", "waiting"}
    BY <1>2 DEF Coa!TypeOK
  <2>3. reg' \in Coa!Registries(Coa!Requests)
    BY <1>3, CoaRegistry
  <2> QED
    BY <1>1, <2>1, <2>2, <2>3 DEF Coa!TypeOK, NasKept
<1>6. CoaTargets'
  BY <1>1, <1>2 DEF CoaTargets, CoaActive
<1>7. CoaEntries'
  <2> SUFFICES ASSUME NEW q \in Peers, NEW i \in Ids, reg'.pending[q][i] # None
               PROVE  LET d == reg'.pending[q][i].call
                      IN /\ pc'[d] \in {"sending", "waiting"} /\ peer'[d] = q
                         /\ packet'[d] = reg'.pending[q][i].packet /\ packet'[d].id = i
    BY DEF CoaEntries, CoaActive
  <2>1. reg'.pending[q][i] = reg.pending[q][i] /\ ~(q = peer[c] /\ i = packet[c].id)
    BY <1>3
  <2>2. reg.pending[q][i].call \in Calls
    BY <2>1, CoaEntry
  <2>3. reg.pending[q][i].call # c
    BY <2>1 DEF CoaEntries
  <2> QED
    BY <1>1, <1>2, <2>1, <2>2, <2>3 DEF CoaEntries, CoaActive
<1>8. CoaMail'
  BY <1>1, <1>2, <1>4 DEF CoaMail
<1>9. Coa!OutcomeIsVerdict'
  BY <1>1, <1>2 DEF Coa!OutcomeIsVerdict, NasKept, CoaTold
<1> QED
  BY <1>4, <1>5, <1>6, <1>7, <1>8, <1>9

LEMMA CoaEnds ==
    ASSUME Coa!DynAuthAssumption, CoaInv, NEW c \in Calls,
           Coa!Receive(c) \/ Coa!GiveUp(c) \/ Coa!Cancel(c) \/ Coa!SendError(c)
    PROVE  CoaInv'
<1>1. CoaTold(c, None) /\ \A e \in {"timeout", "io"} : CoaTold(c, Coa!Err(e))
  BY DEF CoaTold, Coa!Err, Coa!Errors, Coa!CoaError, Coa!CoaErrors
<1>2. CASE Coa!Receive(c)
  <2> DEFINE r == IF mailbox[c].tag = "ok" THEN Coa!Outcome(mailbox[c].reply) ELSE mailbox[c]
  <2>1. CoaActive(c) /\ mailbox[c] # None /\ Coa!Finish(c, r)
    BY <1>2 DEF Coa!Receive, CoaActive
  <2>2. CoaTold(c, r)
    <3>1. CASE mailbox[c].tag = "ok"
      <4>1. PICK v \in Coa!Verdicts : /\ CoaDecided(peer[c], packet[c], v)
                                      /\ mailbox[c].reply = Coa!ReplyTo(packet[c], v)
                                      /\ Coa!Verify(mailbox[c].reply, packet[c])
        BY <2>1, <3>1 DEF CoaInv, CoaMail
      <4>2. packet[c] \in Coa!Requests /\ v.do # "drop" /\ <<peer[c], packet[c], v>> \in decided
        BY <2>1, <4>1 DEF CoaInv, CoaTargets, CoaDecided
      <4>3. /\ r = Coa!Outcome(Coa!ReplyTo(packet[c], v)) /\ r \in Coa!Outcomes
            /\ v.do = IF r.tag = "Ack" THEN "ack" ELSE "nak"
            /\ v.do = "nak" => Coa!CauseFrom(r.cause) = v.cause
        BY <3>1, <4>1, <4>2, CoaOutcome
      <4> HIDE DEF r
      <4>4. \E d \in decided : /\ d[1] = peer[c] /\ d[2] = packet[c]
                               /\ d[3].do = IF r.tag = "Ack" THEN "ack" ELSE "nak"
                               /\ d[3].do = "nak" => Coa!CauseFrom(r.cause) = d[3].cause
        <5> DEFINE d == <<peer[c], packet[c], v>>
        <5>1. d[1] = peer[c] /\ d[2] = packet[c] /\ d[3] = v
          OBVIOUS
        <5> HIDE DEF d
        <5>2. d \in decided
          BY <4>2 DEF d
        <5> QED
          BY <4>3, <5>1, <5>2
      <4> QED
        BY <4>3, <4>4 DEF CoaTold
    <3>2. CASE mailbox[c].tag # "ok"
      <4>1. mailbox[c] \in Coa!Errors
        BY <2>1, <3>2 DEF CoaInv, Coa!TypeOK
      <4> QED
        BY <3>2, <4>1 DEF CoaTold, Coa!Errors
    <3> QED
      BY <3>1, <3>2
  <2> QED
    BY <2>1, <2>2, CoaFinish
<1>3. CASE Coa!GiveUp(c)
  BY <1>1, <1>3, CoaFinish DEF Coa!GiveUp, CoaActive
<1>4. CASE Coa!Cancel(c)
  BY <1>1, <1>4, CoaFinish DEF Coa!Cancel, CoaActive
<1>5. CASE Coa!SendError(c)
  BY <1>1, <1>5, CoaFinish DEF Coa!SendError, CoaActive
<1> QED
  BY <1>2, <1>3, <1>4, <1>5

\* A step of the reader that only takes senders from entries and leaves mail
\* which is an error or the reply of the handler.
LEMMA CoaRead ==
    ASSUME Coa!DynAuthAssumption, CoaInv, reg' \in Registries(Coa!Requests),
           UNCHANGED <<pc, peer, packet, attempt, result, sent, started>>, NasKept,
           \A q \in Peers, i \in Ids :
              /\ reg'.pending[q][i] = None <=> reg.pending[q][i] = None
              /\ reg'.pending[q][i] # None =>
                    /\ reg'.pending[q][i].call = reg.pending[q][i].call
                    /\ reg'.pending[q][i].packet = reg.pending[q][i].packet,
           mailbox' \in [Calls -> [tag : {"ok"}, reply : Coa!Replies] \cup Coa!Errors \cup {None}],
           \A c \in Calls : mailbox'[c] # mailbox[c] =>
              /\ CoaActive(c)
              /\ mailbox'[c].tag = "ok" =>
                    \E v \in Coa!Verdicts : /\ CoaDecided(peer[c], packet[c], v)
                                            /\ mailbox'[c].reply = Coa!ReplyTo(packet[c], v)
                                            /\ Coa!Verify(mailbox'[c].reply, packet[c])
    PROVE  CoaInv'
<1> USE DEF CoaInv
<1>1. CoaAuthored' /\ CoaRuns' /\ \A q, n, v : CoaDecided(q, n, v)' <=> CoaDecided(q, n, v)
  BY CoaNasKept
<1>2. Coa!TypeOK'
  <2>1. reg' \in Coa!Registries(Coa!Requests)
    BY CoaRegistry
  <2>2. \A d \in Calls : mailbox'[d] # None => pc'[d] \in {"sending", "waiting"}
    BY DEF Coa!TypeOK, CoaActive
  <2> QED
    BY <2>1, <2>2 DEF Coa!TypeOK, NasKept
<1>3. CoaTargets'
  BY DEF CoaTargets, CoaActive
<1>4. CoaEntries'
  BY DEF CoaEntries, CoaActive
<1>5. CoaMail'
  <2> SUFFICES ASSUME NEW c \in Calls, mailbox'[c] # None, mailbox'[c].tag = "ok"
               PROVE  \E v \in Coa!Verdicts : /\ CoaDecided(peer[c], packet[c], v)
                                              /\ mailbox'[c].reply = Coa!ReplyTo(packet[c], v)
                                              /\ Coa!Verify(mailbox'[c].reply, packet[c])
    BY <1>1 DEF CoaMail
  <2> QED
    BY DEF CoaMail
<1>6. Coa!OutcomeIsVerdict'
  BY DEF Coa!OutcomeIsVerdict, NasKept
<1> QED
  BY <1>1, <1>2, <1>3, <1>4, <1>5, <1>6

LEMMA CoaDeliver ==
    ASSUME Coa!DynAuthAssumption, CoaInv, NEW s \in replies, Coa!Deliver(s[1], s[2])
    PROVE  CoaInv'
<1> USE DEF CoaInv
<1> DEFINE p == s[1]
           r == s[2]
           c == Completes(reg, p, r)
<1>1. p \in Peers /\ reg \in Registries(Coa!Requests)
  BY CoaRegistry DEF Coa!TypeOK
<1>2. PICK m \in Coa!Requests, v \in Coa!Verdicts : CoaDecided(p, m, v) /\ r = Coa!ReplyTo(m, v)
  BY DEF CoaAuthored
<1>3. r \in Coa!Replies /\ r.id = m.id /\ r.id \in Ids /\ r.auth = m.auth
  BY <1>2, CoaReply, CoaRequest
<1>4. /\ IF c = None THEN UNCHANGED <<mailbox, reg>>
         ELSE /\ mailbox' = [mailbox EXCEPT ![c] = [tag |-> "ok", reply |-> r]]
              /\ reg' = Taken(reg, p, r.id)
      /\ UNCHANGED <<pc, peer, packet, attempt, result, sent, started>> /\ NasKept
  BY CoaCompletes, CoaTaken DEF Coa!Deliver, Coa!nasVars, NasKept
<1>5. CASE c = None
  BY <1>1, <1>4, <1>5, CoaRead DEF Coa!TypeOK
<1>6. CASE c # None
  <2> DEFINE e == reg.pending[p][r.id]
  <2>1. e # None /\ c = e.call /\ r.auth = e.packet.auth
    BY <1>6, CompletesIs
  <2>2. c \in Calls /\ CoaActive(c) /\ peer[c] = p /\ packet[c] = e.packet
    BY <1>1, <1>3, <2>1, CoaEntry DEF CoaEntries
  <2>3. Coa!Verify(r, e.packet)
    BY <1>6, CoaCompletes DEF Completes
  <2>4. packet[c] = m
    BY <1>2, <1>3, <2>1, <2>2, CoaRequest DEF CoaTargets
  <2>a. /\ mailbox' = [mailbox EXCEPT ![c] = [tag |-> "ok", reply |-> r]]
        /\ reg' = Taken(reg, p, r.id)
    BY <1>4, <1>6
  <2> HIDE DEF c, p, r
  <2>5. /\ mailbox' \in [Calls -> [tag : {"ok"}, reply : Coa!Replies] \cup Coa!Errors \cup {None}]
        /\ mailbox'[c].reply = r
        /\ \A d \in Calls : d # c => mailbox'[d] = mailbox[d]
    BY <1>3, <2>a, <2>2 DEF Coa!TypeOK
  <2>6. reg' \in Registries(Coa!Requests) /\ reg'.pending[p][r.id] = [e EXCEPT !.sender = FALSE]
    BY <1>1, <1>3, <2>a, <2>1, TakenIs
  <2>7. ASSUME NEW q \in Peers, NEW i \in Ids, q # p \/ i # r.id
        PROVE  reg'.pending[q][i] = reg.pending[q][i]
    <3> DEFINE k == r.id
    <3>1. k \in Ids /\ p \in Peers /\ reg.pending[p][k] # None
      BY <1>1, <1>3, <2>1
    <3>2. reg' = Taken(reg, p, k) /\ (q # p \/ i # k)
      BY <2>a, <2>7
    <3> HIDE DEF k
    <3>3. Taken(reg, p, k).pending[q][i] = reg.pending[q][i]
      BY <1>1, <3>1, <3>2 DEF Taken, Registries
    <3> QED
      BY <3>2, <3>3
  <2>8. e \in Entries(Coa!Requests)
    BY <1>1, <1>3, <2>1 DEF Registries
  <2>9. reg'.pending[p][r.id] # None
    <3>1. reg'.pending[p][r.id] \in Entries(Coa!Requests)
      BY <2>6, <2>8 DEF Entries
    <3> QED
      BY <3>1, CoaRegistry DEF Coa!DynAuthAssumption
  <2>10. reg'.pending[p][r.id].call = e.call /\ reg'.pending[p][r.id].packet = e.packet
    BY <2>6, <2>8 DEF Entries
  <2>11. \A q \in Peers, i \in Ids :
              /\ reg'.pending[q][i] = None <=> reg.pending[q][i] = None
              /\ reg'.pending[q][i] # None =>
                    /\ reg'.pending[q][i].call = reg.pending[q][i].call
                    /\ reg'.pending[q][i].packet = reg.pending[q][i].packet
    BY <2>1, <2>7, <2>9, <2>10
  <2>12. \A d \in Calls : mailbox'[d] # mailbox[d] =>
              /\ CoaActive(d)
              /\ mailbox'[d].tag = "ok" =>
                    \E w \in Coa!Verdicts : /\ CoaDecided(peer[d], packet[d], w)
                                            /\ mailbox'[d].reply = Coa!ReplyTo(packet[d], w)
                                            /\ Coa!Verify(mailbox'[d].reply, packet[d])
    BY <1>2, <2>2, <2>3, <2>4, <2>5
  <2> QED
    BY <1>4, <2>5, <2>6, <2>11, <2>12, CoaRead
<1> QED
  BY <1>5, <1>6

LEMMA CoaReaderFails ==
    ASSUME Coa!DynAuthAssumption, CoaInv, Coa!ReaderFails
    PROVE  CoaInv'
<1> USE DEF CoaInv
<1>1. /\ mailbox' = [c \in Calls |-> IF c \in Waiting(reg) THEN Coa!Err("closed") ELSE mailbox[c]]
      /\ reg' = Shut(reg)
      /\ UNCHANGED <<pc, peer, packet, attempt, result, sent, started>> /\ NasKept
  BY CoaShut DEF Coa!ReaderFails, Coa!nasVars, NasKept
<1>2. reg \in Registries(Coa!Requests) /\ None \notin Entries(Coa!Requests)
  BY CoaRegistry DEF Coa!TypeOK, Coa!DynAuthAssumption
<1>3. reg' \in Registries(Coa!Requests) /\ SendersTaken(reg, reg')
  BY <1>1, <1>2, ShutIs
<1>4. Coa!Err("closed") \in Coa!Errors /\ Coa!Err("closed").tag = "err"
  BY DEF Coa!Err, Coa!Errors, Coa!CoaError, Coa!CoaErrors
<1>5. \A c \in Calls : mailbox'[c] # mailbox[c] => CoaActive(c) /\ mailbox'[c].tag = "err"
  BY <1>1, <1>4 DEF Waiting, CoaEntries
<1>6. mailbox' \in [Calls -> [tag : {"ok"}, reply : Coa!Replies] \cup Coa!Errors \cup {None}]
  BY <1>1, <1>4 DEF Coa!TypeOK
<1>7. \A q \in Peers, i \in Ids :
         /\ reg'.pending[q][i] = None <=> reg.pending[q][i] = None
         /\ reg'.pending[q][i] # None =>
               /\ reg'.pending[q][i].call = reg.pending[q][i].call
               /\ reg'.pending[q][i].packet = reg.pending[q][i].packet
  BY <1>3 DEF SendersTaken
<1> QED
  BY <1>1, <1>3, <1>5, <1>6, <1>7, CoaRead

\* What is said of the originator stays true while the NAS works.
LEMMA CoaNas ==
    ASSUME CoaInv, UNCHANGED <<pc, peer, packet, attempt, mailbox, result, reg, sent, started>>,
           decided \subseteq decided'
    PROVE  CoaTargets' /\ CoaEntries' /\ CoaMail' /\ Coa!OutcomeIsVerdict'
<1> USE DEF CoaInv
<1>1. \A p, m, v : CoaDecided(p, m, v) => CoaDecided(p, m, v)'
  BY DEF CoaDecided
<1>2. CoaTargets' /\ CoaEntries'
  BY DEF CoaTargets, CoaEntries, CoaActive
<1>3. CoaMail'
  BY <1>1 DEF CoaMail
<1>4. Coa!OutcomeIsVerdict'
  BY DEF Coa!OutcomeIsVerdict
<1> QED
  BY <1>2, <1>3, <1>4

\* A cached reply goes out again.
LEMMA CoaReplay ==
    ASSUME Coa!DynAuthAssumption, CoaInv, NEW p, NEW m, Coa!Replay(p, m)
    PROVE  CoaInv'
<1> USE DEF CoaInv
<1>1. /\ replies' = replies \cup {<<p, e[3]>> : e \in Coa!Cached(p, m)}
      /\ UNCHANGED <<pc, peer, packet, attempt, mailbox, result, reg, sent, started>>
      /\ UNCHANGED <<cache, decided, runs, forgotten>>
  BY DEF Coa!Replay, Coa!nasVars, Coa!callVars
<1>2. \A s \in replies' \ replies : \E e \in cache : e[1] = p /\ s = <<p, e[3]>>
  BY <1>1 DEF Coa!Cached
<1>3. replies' \subseteq Peers \X Coa!Replies
  BY <1>2 DEF Coa!TypeOK
<1>4. Coa!TypeOK'
  BY <1>1, <1>3 DEF Coa!TypeOK
<1>5. CoaAuthored'
  <2>1. \A q, n, v : CoaDecided(q, n, v)' <=> CoaDecided(q, n, v)
    BY <1>1 DEF CoaDecided
  <2>2. ASSUME NEW s \in replies'
        PROVE  \E n \in Coa!Requests, v \in Coa!Verdicts :
                  CoaDecided(s[1], n, v) /\ s[2] = Coa!ReplyTo(n, v)
    <3>1. CASE s \in replies
      BY <3>1 DEF CoaAuthored
    <3>2. CASE s \notin replies
      <4>1. PICK e \in cache : e[1] = p /\ s = <<p, e[3]>>
        BY <1>2, <3>2
      <4>2. e[2] \in Coa!Requests
        BY DEF Coa!TypeOK
      <4>3. PICK v \in Coa!Verdicts : CoaDecided(e[1], e[2], v) /\ e[3] = Coa!ReplyTo(e[2], v)
        BY DEF CoaAuthored
      <4> QED
        BY <4>1, <4>2, <4>3
    <3> QED
      BY <3>1, <3>2
  <2> QED
    BY <1>1, <2>1, <2>2 DEF CoaAuthored
<1>6. CoaRuns'
  BY <1>1 DEF CoaRuns, RunsOf, Coa!Cached
<1> QED
  BY <1>1, <1>4, <1>5, <1>6, CoaNas

\* The runs for a packet are finitely many.
LEMMA CoaRunsFinite ==
    ASSUME Coa!TypeOK, NEW x
    PROVE  IsFiniteSet(RunsOf(x)) /\ Cardinality(RunsOf(x)) \in Nat
<1>1. DOMAIN runs = 1 .. Len(runs) /\ Len(runs) \in Nat
  BY DEF Coa!TypeOK
<1>2. IsFiniteSet(1 .. Len(runs))
  BY <1>1, FS_Interval
<1> QED
  BY <1>1, <1>2, FS_Subset, FS_CardinalityType DEF RunsOf

\* The handler runs.
LEMMA CoaHandle ==
    ASSUME Coa!DynAuthAssumption, CoaInv, NEW s \in sent, NEW v \in Coa!Verdicts,
           v.do = "drop" => forgotten < MaxForgotten, Coa!HandleRequest(s[1], s[2], v)
    PROVE  CoaInv'
<1> USE DEF CoaInv
<1> DEFINE p == s[1]
           m == s[2]
           t == Coa!ReplyTo(m, v)
<1>1. /\ Coa!Cached(p, m) = {}
      /\ runs' = Append(runs, <<p, m>>)
      /\ decided' = decided \cup {<<p, m, v>>}
      /\ IF v.do = "drop" THEN forgotten' = forgotten + 1 /\ UNCHANGED <<cache, replies>>
         ELSE /\ cache' = cache \cup {<<p, m, t>>} /\ replies' = replies \cup {<<p, t>>}
              /\ UNCHANGED forgotten
      /\ UNCHANGED <<pc, peer, packet, attempt, mailbox, result, reg, sent, started>>
  BY DEF Coa!HandleRequest, Coa!callVars
<1>2. p \in Peers /\ m \in Coa!Requests /\ t \in Coa!Replies
  BY CoaReply DEF Coa!TypeOK
<1> HIDE DEF p, m, t
<1>3. Coa!TypeOK'
  <2>1. runs' \in Seq(Peers \X Coa!Requests)
    BY <1>1, <1>2 DEF Coa!TypeOK
  <2>2. decided' \subseteq Peers \X Coa!Requests \X Coa!Verdicts
    BY <1>1, <1>2 DEF Coa!TypeOK
  <2>3. cache' \subseteq Peers \X Coa!Requests \X Coa!Replies /\ replies' \subseteq Peers \X Coa!Replies
    BY <1>1, <1>2 DEF Coa!TypeOK
  <2>4. forgotten' \in 0 .. MaxForgotten
    BY <1>1 DEF Coa!TypeOK, Coa!DynAuthAssumption
  <2> QED
    BY <1>1, <2>1, <2>2, <2>3, <2>4 DEF Coa!TypeOK
<1>4. CoaAuthored'
  <2>1. \A q, n, w : CoaDecided(q, n, w) => CoaDecided(q, n, w)'
    BY <1>1 DEF CoaDecided
  <2>2. v.do # "drop" => CoaDecided(p, m, v)'
    BY <1>1 DEF CoaDecided
  <2>3. ASSUME NEW x \in replies'
        PROVE  \E n \in Coa!Requests, w \in Coa!Verdicts :
                  CoaDecided(x[1], n, w)' /\ x[2] = Coa!ReplyTo(n, w)
    <3>1. CASE x \in replies
      BY <2>1, <3>1 DEF CoaAuthored
    <3>2. CASE x \notin replies
      <4>1. v.do # "drop" /\ x[1] = p /\ x[2] = t
        BY <1>1, <3>2
      <4> QED
        BY <1>2, <2>2, <4>1 DEF t
    <3> QED
      BY <3>1, <3>2
  <2>4. ASSUME NEW e \in cache'
        PROVE  \E w \in Coa!Verdicts : CoaDecided(e[1], e[2], w)' /\ e[3] = Coa!ReplyTo(e[2], w)
    <3>1. CASE e \in cache
      BY <2>1, <3>1 DEF CoaAuthored
    <3>2. CASE e \notin cache
      <4>1. v.do # "drop" /\ e[1] = p /\ e[2] = m /\ e[3] = t
        BY <1>1, <3>2
      <4> QED
        BY <2>2, <4>1 DEF t
    <3> QED
      BY <3>1, <3>2
  <2> QED
    BY <2>3, <2>4 DEF CoaAuthored
<1>5. CoaRuns'
  <2> SUFFICES ASSUME NEW q \in Peers, NEW n \in Coa!Requests
               PROVE  Cardinality(RunsOf(<<q, n>>)') <=
                         IF Coa!Cached(q, n)' = {} THEN forgotten' ELSE 1 + forgotten'
    BY DEF CoaRuns
  <2> DEFINE x == <<q, n>>
             k == Len(runs) + 1
  <2>1. /\ DOMAIN runs = 1 .. Len(runs) /\ Len(runs) \in Nat
        /\ DOMAIN runs' = DOMAIN runs \cup {k} /\ runs'[k] = <<p, m>>
        /\ \A j \in DOMAIN runs : runs'[j] = runs[j]
    BY <1>1 DEF Coa!TypeOK
  <2>2. k \notin DOMAIN runs
    BY <2>1
  <2>3. IsFiniteSet(RunsOf(x)) /\ Cardinality(RunsOf(x)) \in Nat
    BY CoaRunsFinite
  <2>4. forgotten \in Nat /\ forgotten' \in Nat /\ forgotten' >= forgotten
    BY <1>1 DEF Coa!TypeOK, Coa!DynAuthAssumption
  <2>5. Cardinality(RunsOf(x)) <= IF Coa!Cached(q, n) = {} THEN forgotten ELSE 1 + forgotten
    BY DEF CoaRuns
  <2> HIDE DEF k
  <2>6. CASE q = p /\ n = m
    <3>1. RunsOf(x)' = RunsOf(x) \cup {k}
      BY <2>1, <2>6 DEF RunsOf
    <3>2. k \notin RunsOf(x)
      BY <2>2 DEF RunsOf
    <3>3. Cardinality(RunsOf(x)') = Cardinality(RunsOf(x)) + 1
      BY <2>3, <3>1, <3>2, FS_AddElement
    <3>4. CASE v.do = "drop"
      BY <1>1, <2>3, <2>4, <2>5, <2>6, <3>3, <3>4
    <3>5. CASE v.do # "drop"
      <4>1. <<p, m, t>> \in cache'
        BY <1>1, <3>5
      <4>2. Coa!Cached(q, n)' # {}
        BY <2>6, <4>1 DEF Coa!Cached
      <4> QED
        BY <1>1, <2>3, <2>4, <2>5, <2>6, <3>3, <3>5, <4>2
    <3> QED
      BY <3>4, <3>5
  <2>7. CASE ~(q = p /\ n = m)
    <3>1. RunsOf(x)' = RunsOf(x)
      BY <2>1, <2>2, <2>7 DEF RunsOf
    <3>2. Coa!Cached(q, n)' = Coa!Cached(q, n)
      BY <1>1, <2>7 DEF Coa!Cached
    <3> QED
      BY <2>3, <2>4, <2>5, <3>1, <3>2
  <2> QED
    BY <2>6, <2>7
<1> QED
  BY <1>1, <1>3, <1>4, <1>5, CoaNas

\* A cached reply expires.
LEMMA CoaExpire ==
    ASSUME Coa!DynAuthAssumption, CoaInv, NEW e \in cache, forgotten < MaxForgotten, Coa!Expire(e)
    PROVE  CoaInv'
<1> USE DEF CoaInv
<1>1. /\ cache' = cache \ {e} /\ forgotten' = forgotten + 1
      /\ UNCHANGED <<replies, decided, runs>>
      /\ UNCHANGED <<pc, peer, packet, attempt, mailbox, result, reg, sent, started>>
  BY DEF Coa!Expire, Coa!callVars
<1>2. forgotten' \in 0 .. MaxForgotten /\ forgotten \in Nat
  BY <1>1 DEF Coa!TypeOK, Coa!DynAuthAssumption
<1>3. Coa!TypeOK'
  BY <1>1, <1>2 DEF Coa!TypeOK
<1>4. CoaAuthored'
  <2>1. \A q, n, w : CoaDecided(q, n, w)' <=> CoaDecided(q, n, w)
    BY <1>1 DEF CoaDecided
  <2> QED
    BY <1>1, <2>1 DEF CoaAuthored
<1>5. CoaRuns'
  <2> SUFFICES ASSUME NEW q \in Peers, NEW n \in Coa!Requests
               PROVE  Cardinality(RunsOf(<<q, n>>)') <=
                         IF Coa!Cached(q, n)' = {} THEN forgotten' ELSE 1 + forgotten'
    BY DEF CoaRuns
  <2>1. RunsOf(<<q, n>>)' = RunsOf(<<q, n>>) /\ Cardinality(RunsOf(<<q, n>>)) \in Nat
    BY <1>1, CoaRunsFinite DEF RunsOf
  <2>2. Cardinality(RunsOf(<<q, n>>)) <= IF Coa!Cached(q, n) = {} THEN forgotten ELSE 1 + forgotten
    BY DEF CoaRuns
  <2> QED
    BY <1>1, <1>2, <2>1, <2>2
<1> QED
  BY <1>1, <1>3, <1>4, <1>5, CoaNas

\* CoaInv is inductive.
LEMMA CoaInitial == ASSUME Coa!DynAuthAssumption, Coa!Init PROVE CoaInv
<1> USE DEF Coa!Init
<1>1. EmptyRegistry \in Registries(Coa!Requests) /\ \A p \in Peers, i \in Ids : reg.pending[p][i] = None
  <2>1. 0 \in Ids
    BY ExchangeAssumption DEF Ids
  <2>2. reg = EmptyRegistry
    BY CoaRegistry
  <2> QED
    BY <2>1, <2>2 DEF EmptyRegistry, Registries
<1>2. Coa!TypeOK
  <2>1. reg \in Coa!Registries(Coa!Requests)
    BY <1>1, CoaRegistry
  <2>2. runs \in Seq(Peers \X Coa!Requests)
    OBVIOUS
  <2> QED
    BY <2>1, <2>2 DEF Coa!TypeOK, Coa!DynAuthAssumption
<1>3. CoaTargets /\ CoaEntries /\ CoaAuthored /\ CoaMail /\ Coa!OutcomeIsVerdict
  BY <1>1 DEF CoaTargets, CoaEntries, CoaActive, CoaAuthored, CoaMail, Coa!OutcomeIsVerdict
<1>4. CoaRuns
  <2>1. \A x : RunsOf(x) = {}
    BY DEF RunsOf
  <2> QED
    <3>1. Cardinality({}) = 0 /\ forgotten = 0 /\ cache = {}
      BY FS_EmptySet
    <3>2. \A p, m : Coa!Cached(p, m) = {}
      BY <3>1 DEF Coa!Cached
    <3>3. ASSUME NEW p \in Peers, NEW m \in Coa!Requests
          PROVE  Cardinality(RunsOf(<<p, m>>)) <= IF Coa!Cached(p, m) = {} THEN forgotten ELSE 1 + forgotten
      <4>1. Cardinality(RunsOf(<<p, m>>)) = 0 /\ Coa!Cached(p, m) = {}
        BY <2>1, <3>1, <3>2, Zenon
      <4> QED
        BY <3>1, <4>1
    <3> QED
      BY <3>3 DEF CoaRuns
<1> QED
  BY <1>2, <1>3, <1>4 DEF CoaInv

LEMMA CoaStep ==
    ASSUME Coa!DynAuthAssumption, CoaInv, [Coa!Next]_(Coa!vars)
    PROVE  CoaInv'
<1>1. CASE UNCHANGED Coa!vars
  <2>1. UNCHANGED <<pc, peer, packet, attempt, mailbox, result, reg, sent, started>> /\ NasKept
    BY <1>1 DEF Coa!vars, Coa!callVars, Coa!nasVars, NasKept
  <2>2. CoaAuthored' /\ CoaRuns'
    BY <2>1, CoaNasKept DEF CoaInv
  <2>3. CoaTargets' /\ CoaEntries' /\ CoaMail' /\ Coa!OutcomeIsVerdict'
    BY <2>1, CoaNas DEF NasKept
  <2>4. Coa!TypeOK'
    BY <2>1 DEF CoaInv, Coa!TypeOK, NasKept
  <2> QED
    BY <2>2, <2>3, <2>4 DEF CoaInv
<1>2. ASSUME NEW c \in Calls, NEW p \in Peers, Coa!Refuse(c, p)
      PROVE  CoaInv'
  BY <1>2, CoaRefuse
<1>3. ASSUME NEW c \in Calls, NEW p \in Peers, NEW code \in Coa!DynCodes, NEW b \in Bodies,
             Coa!Start(c, p, code, b)
      PROVE  CoaInv'
  BY <1>3, CoaStart
<1>4. ASSUME NEW c \in Calls, Coa!SendTo(c) \/ Coa!Retransmit(c)
      PROVE  CoaInv'
  BY <1>4, CoaSend
<1>5. ASSUME NEW c \in Calls, Coa!Receive(c) \/ Coa!GiveUp(c) \/ Coa!Cancel(c) \/ Coa!SendError(c)
      PROVE  CoaInv'
  BY <1>5, CoaEnds
<1>6. ASSUME NEW c \in Calls, Coa!Return(c)
      PROVE  CoaInv'
  BY <1>6, CoaReturn
<1>7. ASSUME NEW s \in replies, Coa!Deliver(s[1], s[2])
      PROVE  CoaInv'
  BY <1>7, CoaDeliver
<1>8. CASE Coa!ReaderFails
  BY <1>8, CoaReaderFails
<1>9. ASSUME NEW s \in sent, Coa!Replay(s[1], s[2])
      PROVE  CoaInv'
  BY <1>9, CoaReplay
<1>10. ASSUME NEW s \in sent, NEW v \in Coa!Verdicts, v.do = "drop" => forgotten < MaxForgotten,
              Coa!HandleRequest(s[1], s[2], v)
       PROVE  CoaInv'
  BY <1>10, CoaHandle
<1>11. ASSUME NEW e \in cache, forgotten < MaxForgotten, Coa!Expire(e)
       PROVE  CoaInv'
  BY <1>11, CoaExpire
<1> QED
  BY <1>1, <1>2, <1>3, <1>4, <1>5, <1>6, <1>7, <1>8, <1>9, <1>10, <1>11 DEF Coa!Next

LEMMA CoaImplies == ASSUME CoaInv PROVE Coa!CoaExact
<1>1. Coa!HandledOnce
  <2> SUFFICES ASSUME NEW i \in DOMAIN runs
               PROVE  Cardinality(RunsOf(runs[i])) <= 1 + forgotten
    BY CoaCardinality DEF Coa!HandledOnce, RunsOf
  <2>1. runs[i] \in Peers \X Coa!Requests /\ forgotten \in Nat
    BY DEF CoaInv, Coa!TypeOK
  <2>2. PICK p \in Peers, m \in Coa!Requests : runs[i] = <<p, m>>
    BY <2>1
  <2>3. Cardinality(RunsOf(<<p, m>>)) \in Nat
    BY CoaRunsFinite DEF CoaInv
  <2> QED
    BY <2>1, <2>2, <2>3 DEF CoaInv, CoaRuns
<1>2. Coa!HelpersVerify
  BY CoaHelpers DEF Coa!HelpersVerify, CoaInv, Coa!TypeOK
<1> QED
  BY <1>1, <1>2 DEF CoaInv, Coa!CoaExact

\* However calls, retransmissions, cancellations, a failing reader, lost, late,
\* copied and reordered datagrams, the handler of the NAS and the expiry of
\* its cached replies interleave: what CoaOriginator tells a caller is what
\* the handler of its target decided on the octets it sent, the handler ran
\* once per forgotten reply and once more, and what the reply helpers make is
\* accepted.
THEOREM CoaExactHolds == ASSUME Coa!DynAuthAssumption PROVE Coa!Spec => []Coa!CoaExact
<1>1. Coa!Init => CoaInv
  BY CoaInitial
<1>2. CoaInv /\ [Coa!Next]_(Coa!vars) => CoaInv'
  BY CoaStep
<1>3. CoaInv => Coa!CoaExact
  BY CoaImplies
<1> QED
  BY <1>1, <1>2, <1>3, PTL DEF Coa!Spec
=============================================================================
