---------------------------- MODULE AttributeWalk ----------------------------
(***************************************************************************)
(* One received datagram: its header is parsed and its attribute region is *)
(* walked, one call of AttributesIter::next at a time, by a consumer that  *)
(* does not stop at the first None.  In between, the accessors of          *)
(* attributes.rs, eap.rs and message_authenticator.rs are asked about the  *)
(* same octets.                                                            *)
(***************************************************************************)
EXTENDS Attributes

CONSTANTS Datagrams,   \* what may arrive
          AttrHandles, VsaHandles, TlvHandles, VsaTlvHandles,
          MaxCalls     \* calls of next after the walk is over

VARIABLES datagram,  \* what arrived
          it,        \* the iterator, None before and after it
          yielded,   \* slots seen so far
          errors,    \* errors seen so far
          idle       \* calls of next that gave None

vars == <<datagram, it, yielded, errors, idle>>

Init == /\ datagram \in Datagrams
        /\ it = None /\ yielded = <<>> /\ errors = <<>> /\ idle = 0

Parse == /\ it = None /\ errors = <<>>
         /\ \/ /\ HeaderError(datagram) = None
               /\ it' = Iter(AttrsOf(datagram))
               /\ UNCHANGED errors
            \/ /\ HeaderError(datagram) # None
               /\ errors' = <<HeaderError(datagram)>>
               /\ UNCHANGED it
         /\ UNCHANGED <<datagram, yielded, idle>>

CallNext ==
    /\ it # None /\ idle < MaxCalls
    /\ \E r \in {IterNext(it)} :
          /\ it' = r.it
          /\ \/ r.item = None /\ idle' = idle + 1 /\ UNCHANGED <<yielded, errors>>
             \/ /\ r.item # None /\ "slot" \in DOMAIN r.item
                /\ yielded' = Append(yielded, r.item.slot)
                /\ UNCHANGED <<errors, idle>>
             \/ /\ r.item # None /\ "err" \in DOMAIN r.item
                /\ errors' = Append(errors, r.item.err)
                /\ UNCHANGED <<yielded, idle>>
    /\ UNCHANGED datagram

Next == Parse \/ CallNext
Spec == Init /\ [][Next]_vars
-----------------------------------------------------------------------------
attrs == AttrsOf(datagram)

\* The iterator of attributes.rs cuts the region into slots and loses no octet:
\* what it yielded and what it has left are the region that the Length field
\* covers, padding excluded, and it ends without an error exactly when nothing
\* is left.
WalkExact ==
    it # None => /\ Len(datagram.body) >= Len(attrs)
                 /\ Len(attrs) = datagram.length - HeaderLen
                 /\ Concat(yielded) \o it.rest = attrs
                 /\ (idle > 0 => (errors = <<>>) = (it.rest = <<>>))

\* The iterator is fused: a malformed slot is reported once, and after it, or
\* after the end, every call gives None (its documentation promises both, and
\* every `for` loop over it relies on it to terminate).
Fused == Len(errors) <= 1 /\ (errors # <<>> /\ it # None => it.halted)

Over == it # None /\ idle > 0

\* The readers that walk the octets for themselves see the same slots: the
\* iterator, the presence checks, the raw lookups, EAP-Message reassembly, and
\* the four walks of message_authenticator.rs.  A slot that one of them saw and
\* another did not would be authenticated differently than it is used.
ReadersAgree ==
    Over =>
      /\ yielded = Slots(attrs)
      /\ \A t \in {UserName, State, EapMessage, MessageAuthenticator} :
            ContainsRaw(attrs, t) = (FirstRaw(attrs, t).slot # None)
      /\ Reassemble(attrs) # <<>> => ContainsRaw(attrs, EapMessage)
      /\ (FindValueOffset(attrs) # None) = (CountValueOffsets(attrs) > 0)
      /\ LET v == VerifyOffset(attrs)
         IN /\ v.verdict = "Present" =>
                  FindValueOffset(attrs) = v.at /\ CountValueOffsets(attrs) = 1
            /\ v.verdict = "Absent" => ~ContainsRaw(attrs, MessageAuthenticator)
            /\ v.verdict # "Invalid" => ResponseSlotsOk(attrs)
            /\ \A i \in DOMAIN attrs :
                  (HmacInput(attrs)[i] # attrs[i]) =>
                     \E o \in TagOffsets(attrs) : i \in o .. o + TagLen - 1
            /\ Len(HmacInput(attrs)) = Len(attrs)

\* A value is found only where its presence is reported: first and contains,
\* in their plain, vendor, TLV and vendor-TLV forms, each of which has its own
\* copy of the envelope checks.
FoundIsPresent ==
    Over =>
      /\ \A h \in AttrHandles : First(attrs, h) # None => ContainsAttr(attrs, h)
      /\ \A h \in VsaHandles :
            /\ FirstVsa(attrs, h) # None => ContainsVsa(attrs, h)
            /\ h.wire = "octets" => (FirstVsa(attrs, h) # None) = ContainsVsa(attrs, h)
      /\ \A h \in TlvHandles : FirstTlv(attrs, h) # None => ContainsTlv(attrs, h)
      /\ \A h \in VsaTlvHandles : FirstVsaTlv(attrs, h) # None => ContainsVsaTlv(attrs, h)

\* user_name_realm takes a name apart at one delimiter and loses nothing else:
\* user, delimiter and realm give the name back, the realm of an NAI has no @,
\* and a name with a delimiter always has a realm.
RealmSplits ==
    LET name == UserNameOf(attrs)
        r == UserNameRealm(name)
    IN Over /\ name # None =>
          /\ r.realm = None =>
                r.user = name /\ \A d \in {At, Backslash, Percent} : Positions(name, d) = {}
          /\ r.realm # None =>
                /\ \/ \E d \in {At, Percent} : name = r.user \o <<d>> \o r.realm
                   \/ name = r.realm \o <<Backslash>> \o r.user
                /\ Positions(name, At) # {} =>
                      name = r.user \o <<At>> \o r.realm /\ Positions(r.realm, At) = {}

=============================================================================
