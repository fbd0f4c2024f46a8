----------------------------- MODULE Credentials -----------------------------
(***************************************************************************)
(* Credentials in a request, checked by the helpers of src/auth: pap.rs,   *)
(* chap.rs, eap_md5.rs and mschap.rs.  The attribute list grows one        *)
(* attribute at a time, in every order, with attributes made for another   *)
(* request, under another secret, of a wrong length or not well-formed,    *)
(* and every helper may be asked of it at any time.                        *)
(*                                                                         *)
(* Digests are terms over their whole input: equal when the inputs are.    *)
(***************************************************************************)
EXTENDS Naturals, Sequences, FiniteSets, SequencesExt

(***************************************************************************)
(* The hiding of passwords and keys (crypto/password.rs, crypto/mppe.rs).  *)
(*                                                                         *)
(* An octet is a formal sum of terms and exclusive or is the symmetric     *)
(* difference of two sums, so that the same keystream octet twice cancels  *)
(* and any other does not.  NUL is the empty sum, and an octet of a digest *)
(* is the sum of the one term that names the digest's input and the place. *)
(***************************************************************************)
CONSTANTS Block,       \* octets of a block (16)
          MaxUser,     \* USER_PASSWORD_MAX (128)
          MaxTunnel,   \* TUNNEL_CIPHERTEXT_MAX (240)
          HighBit      \* the least octet whose top bit is set (128)

CryptAssumption ==
    /\ {Block, MaxUser, MaxTunnel, HighBit} \subseteq Nat \ {0}
    /\ MaxUser % Block = 0 /\ MaxTunnel % Block = 0

Nul == {}
Octet(n) == IF n = 0 THEN Nul ELSE {<<"octet", n>>}
Xor(a, b) == (a \ b) \cup (b \ a)
Pad(p, n) == p \o [i \in 1 .. n - Len(p) |-> Nul]
RoundUp(n) == ((n + Block - 1) \div Block) * Block

\* Octet j of MD5(secret || seed).
chain_hash(secret, seed, j) == {<<"md5", secret, seed, j>>}

\* The j-th octet of block i of a text of octets.
At(text, i, j) == text[(i - 1) * Block + j]
BlockOf(text, i) == SubSeq(text, (i - 1) * Block + 1, i * Block)

\* Every block is masked by the digest of the ciphertext block before it,
\* the first one by the digest of the seed.
Mask(plain, secret, seed) ==
    LET ct[i \in 0 .. Len(plain) \div Block] ==
            IF i = 0 THEN <<>>
            ELSE ct[i - 1] \o
                 [j \in 1 .. Block |->
                    Xor(At(plain, i, j),
                        chain_hash(secret, IF i = 1 THEN seed ELSE BlockOf(ct[i - 1], i - 1), j))]
    IN ct[Len(plain) \div Block]

Unmask(ct, secret, seed) ==
    [k \in 1 .. Len(ct) |->
        LET i == (k - 1) \div Block + 1 IN
        Xor(ct[k], chain_hash(secret, IF i = 1 THEN seed ELSE BlockOf(ct, i - 1),
                              ((k - 1) % Block) + 1))]

UserLengthOk(n) == n # 0 /\ n % Block = 0 /\ n <= MaxUser

user_password_encrypt(password, secret, authenticator) ==
    LET n == IF Len(password) = 0 THEN 1 ELSE Len(password) IN
    Mask(Pad(password, RoundUp(n)), secret, authenticator)

\* Trailing NULs are stripped whoever put them there.
Stripped(p) ==
    LET solid == {i \in 1 .. Len(p) : p[i] # Nul} IN
    SubSeq(p, 1, IF solid = {} THEN 0 ELSE Max(solid))

InvalidLength == [err |-> "InvalidLength"]

user_password_decrypt(ct, secret, authenticator) ==
    IF UserLengthOk(Len(ct)) THEN [ok |-> Stripped(Unmask(ct, secret, authenticator))]
    ELSE InvalidLength

\* Tunnel-Password and the MPPE keys: a length octet before the text, and a
\* salt in the first seed.
tunnel_password_encrypt_with_salt(password, secret, authenticator, salt) ==
    Mask(Pad(<<Octet(Len(password))>> \o password, RoundUp(1 + Len(password))),
         secret, authenticator \o salt)

\* The numbers an octet may stand for: the one it spells, any when the
\* keystream did not cancel.
Numbers(o) == LET spelt == {n \in 0 .. MaxTunnel : Octet(n) = o} IN
              IF spelt # {} THEN spelt ELSE 0 .. MaxTunnel

\* All that tunnel_password_decrypt may return.
tunnel_password_decrypt(ct, secret, authenticator, salt) ==
    IF Len(ct) = 0 \/ Len(ct) % Block # 0 \/ Len(ct) > MaxTunnel THEN {InvalidLength}
    ELSE LET text == Unmask(ct, secret, authenticator \o salt)
         IN {IF 1 + n > Len(text) THEN InvalidLength ELSE [ok |-> SubSeq(text, 2, 1 + n)]
             : n \in Numbers(text[1])}

\* The reader of MS-MPPE-Send-Key and MS-MPPE-Recv-Key values.
mppe_key_decrypt(value, secret, authenticator) ==
    IF Len(value) < 2 + Block THEN {[err |-> "TooShort"]}
    ELSE IF \E n \in 0 .. HighBit - 1 : value[1] = Octet(n) THEN {[err |-> "BadSalt"]}
    ELSE LET ct == SubSeq(value, 3, Len(value)) IN
         IF Len(ct) % Block # 0 \/ Len(ct) > MaxTunnel THEN {[err |-> "BadLength"]}
         ELSE {IF r = InvalidLength THEN [err |-> "InvalidKeyLength"] ELSE r
               : r \in tunnel_password_decrypt(ct, secret, authenticator, SubSeq(value, 1, 2))}

-----------------------------------------------------------------------------
CONSTANTS Passwords,     \* cleartext passwords that users type
          Expected,      \* cleartext passwords the identity store may hold
          Names,         \* User-Name values, sequences of characters
          Secrets,       \* shared secrets
          Secret,        \* the one of this client
          MaxAttributes  \* bound on the length of the list, by scheme

VARIABLES scheme, attributes
vars == <<scheme, attributes>>

Authenticator(n) == [j \in 1 .. Block |-> {<<"authenticator", n, j>>}]
authenticator == Authenticator(1)
Challenge(n, len) == [j \in 1 .. len |-> {<<"challenge", n, j>>}]
V1Len == 1      \* MS_CHAP_V1_CHALLENGE_LEN
V2Len == 2      \* MS_CHAP_V2_CHALLENGE_LEN
ResponseLen == 50

\* The first attribute that `wanted` holds of, "err" when a slot that is not
\* well-formed comes before it, "none" at the end of the list.
First(wanted(_)) ==
    LET hits == {i \in 1 .. Len(attributes) :
                    attributes[i].type = "Broken" \/ wanted(attributes[i])}
    IN IF hits = {} THEN [found |-> "none"]
       ELSE IF attributes[Min(hits)].type = "Broken" THEN [found |-> "err"]
       ELSE [found |-> "some", raw |-> attributes[Min(hits)]]
first_raw(t) == LET OfType(a) == a.type = t IN First(OfType)
-----------------------------------------------------------------------------
(* PAP *)
verify_pap(expected) ==
    IF Len(expected) > MaxUser THEN "Malformed"
    ELSE LET r == first_raw("UserPassword") IN
         CASE r.found = "err" -> "AttributeError"
           [] r.found = "none" -> "Missing"
           [] ~UserLengthOk(Len(r.raw.value)) -> "Malformed"
           [] OTHER -> IF user_password_encrypt(expected, Secret, authenticator) = r.raw.value
                       THEN "Match" ELSE "Mismatch"

decrypt_user_password ==
    LET r == first_raw("UserPassword") IN
    CASE r.found = "err" -> [err |-> "Attribute"]
      [] r.found = "none" -> [none |-> TRUE]
      [] OTHER -> LET p == user_password_decrypt(r.raw.value, Secret, authenticator) IN
                  IF p = InvalidLength THEN [err |-> "Malformed"] ELSE p
-----------------------------------------------------------------------------
(* CHAP; EAP-MD5 computes the same digest *)
Md5(text) == <<"md5", text>>
challenge_response_md5(id, password, challenge) == Md5(<<Octet(id)>> \o password \o challenge)
verify_response(id, password, challenge, response) ==
    challenge_response_md5(id, password, challenge) = response

\* mutant: the Request Authenticator is always the challenge
VerifyChapAuthenticator(expected) ==
    LET r == first_raw("ChapPassword") IN
    CASE r.found = "err" -> "AttributeError"
      [] r.found = "none" -> "Missing"
      [] r.raw.len # 17 -> "Malformed"
      [] OTHER -> IF verify_response(r.raw.id, expected, authenticator, r.raw.response)
                  THEN "Match" ELSE "Mismatch"

verify_chap(expected) ==
    LET r == first_raw("ChapPassword")
        c == first_raw("ChapChallenge")
    IN CASE r.found = "err" -> "AttributeError"
         [] r.found = "none" -> "Missing"
         [] r.raw.len # 17 -> "Malformed"
         [] c.found = "err" -> "AttributeError"
         [] OTHER -> IF verify_response(r.raw.id, expected,
                                        IF c.found = "some" THEN c.raw.challenge ELSE authenticator,
                                        r.raw.response)
                     THEN "Match" ELSE "Mismatch"
-----------------------------------------------------------------------------
(* MS-CHAP *)
nt_password_hash(password) == <<"md4", password>>
nt_hash(s) == IF s.form = "NtHash" THEN s.hash ELSE nt_password_hash(s.password)
challenge_response(challenge, hash) == <<"des", challenge, hash>>

strip_domain(name) ==
    LET at == {i \in 1 .. Len(name) : name[i] = "\\"} IN
    IF at = {} THEN name ELSE SubSeq(name, Max(at) + 1, Len(name))

challenge_hash(peer, auth, name) == <<{<<"sha1", peer, auth, name>>}>>

v2_nt_response(auth, peer, name, secret) ==
    challenge_response(challenge_hash(peer, auth, strip_domain(name)), nt_hash(secret))
v2_authenticator_response(auth, peer, nt, name, secret) ==
    <<"S=", <<"md4", nt_hash(secret)>>, nt, challenge_hash(peer, auth, strip_domain(name))>>

\* A VSA that is too short, of another vendor or type, or whose length octet
\* is below two or passes the data is skipped.
first_ms_vsa(vtype) ==
    LET IsIt(a) == a.type = "Vsa" /\ a.shape = "whole" /\ a.vtype = vtype IN First(IsIt)

verify_v1(expected) ==
    LET c == first_ms_vsa("Challenge")
        r == first_ms_vsa("Response1")
    IN CASE c.found = "err" -> "AttributeError"
         [] c.found = "none" -> "Missing"
         [] r.found = "err" -> "AttributeError"
         [] r.found = "none" -> "Missing"
         [] Len(c.raw.challenge) # V1Len \/ r.raw.len # ResponseLen -> "Malformed"
         [] OTHER -> IF challenge_response(c.raw.challenge, nt_hash(expected)) = r.raw.nt
                     THEN "Match" ELSE "Mismatch"

extract_v2 ==
    LET c == first_ms_vsa("Challenge")
        r == first_ms_vsa("Response2")
        u == first_raw("UserName")
    IN CASE c.found = "err" -> [got |-> "err"]
         [] c.found = "none" -> [got |-> "none"]
         [] r.found = "err" -> [got |-> "err"]
         [] r.found = "none" -> [got |-> "none"]
         [] Len(c.raw.challenge) # V2Len \/ r.raw.len # ResponseLen -> [got |-> "none"]
         [] u.found = "err" -> [got |-> "err"]
         [] u.found = "none" -> [got |-> "none"]
         [] OTHER -> [got |-> "some", ident |-> r.raw.ident, auth |-> c.raw.challenge,
                      peer |-> r.raw.peer, nt |-> r.raw.nt, name |-> strip_domain(u.raw.name)]

verify_v2(expected) ==
    LET f == extract_v2 IN
    CASE f.got = "err" -> "AttributeError"
      [] f.got = "none" -> "Missing"
      [] OTHER -> IF v2_nt_response(f.auth, f.peer, f.name, expected) = f.nt
                  THEN "Match" ELSE "Mismatch"

v2_success_response(expected) ==
    LET f == extract_v2 IN
    CASE f.got = "err" -> [err |-> "AttributeError"]
      [] f.got = "none" -> [none |-> TRUE]
      [] OTHER -> [ok |-> v2_authenticator_response(f.auth, f.peer, f.nt, f.name, expected)]
-----------------------------------------------------------------------------
(* What arrives.  `by` is a ghost: what the sender meant. *)
Broken == [type |-> "Broken"]

\* A User-Password hidden by a client, one that pads a block too many, and
\* values of a length no client produces.
Hidden(p, s, n) == [type |-> "UserPassword", by |-> [password |-> p, secret |-> s, request |-> n],
                    value |-> user_password_encrypt(p, s, Authenticator(n))]
Overpadded(p) == [type |-> "UserPassword", by |-> [password |-> p, secret |-> Secret, request |-> 1],
                  value |-> Mask(Pad(p, RoundUp(Len(p)) + Block), Secret, authenticator)]
OddLengths == {[type |-> "UserPassword", by |-> [password |-> <<>>, secret |-> "nobody", request |-> 0],
                value |-> [i \in 1 .. n |-> Octet(1)]] : n \in {0, 1, Block + 1, MaxUser + Block}}
PapAttributes == {Hidden(p, s, n) : p \in Passwords, s \in Secrets, n \in 1 .. 2}
                 \cup {Overpadded(p) : p \in {q \in Passwords : RoundUp(Len(q)) < MaxUser}} \cup OddLengths \cup {Broken}

\* A CHAP response to the Request Authenticator or to a challenge of its own.
ChapChallenges == {Challenge(1, Block), Challenge(2, Block + 1)}
Chap(p, id, c, n) == [type |-> "ChapPassword", by |-> [password |-> p, challenge |-> c],
                      len |-> n, id |-> id, response |-> challenge_response_md5(id, p, c)]
ChapAttributes == {Chap(p, 0, c, 17) : p \in Passwords, c \in ChapChallenges \cup {Authenticator(1), Authenticator(2)}}
                  \cup {Chap(<<>>, 1, authenticator, n) : n \in {16, 18}}
                  \cup {[type |-> "ChapChallenge", challenge |-> c] : c \in ChapChallenges}
                  \cup {Broken}

\* Microsoft VSAs.  The peer knows its account by a name without a domain.
Account == <<"u">>
Vsa(vtype, shape) == [type |-> "Vsa", vtype |-> vtype, shape |-> shape]
Skipped == {Vsa("Challenge", s) : s \in {"short", "foreign", "headless", "lenUnder", "lenOver"}}
MsChallenge(n, len) == Vsa("Challenge", "whole") @@ [challenge |-> Challenge(n, len)]
Response1(p, c, n) == Vsa("Response1", "whole") @@
                      [len |-> n, nt |-> challenge_response(c, nt_password_hash(p)),
                       by |-> [password |-> p, challenge |-> c]]
Response2(p, c, n) == Vsa("Response2", "whole") @@
                      [len |-> n, ident |-> 0, peer |-> Challenge(3, V2Len),
                       nt |-> v2_nt_response(c, Challenge(3, V2Len), Account,
                                             [form |-> "Cleartext", password |-> p]),
                       by |-> [password |-> p, challenge |-> c]]
V1Attributes == {MsChallenge(n, l) : n \in 1 .. 2, l \in {V1Len, V2Len}}
                \cup {Response1(p, Challenge(n, V1Len), ResponseLen) : p \in Passwords, n \in 1 .. 2}
                \cup {Response1(<<>>, Challenge(1, V1Len), ResponseLen - 1), Broken} \cup Skipped
V2Attributes == {MsChallenge(n, V2Len) : n \in 1 .. 2} \cup {MsChallenge(1, V1Len)}
                \cup {Response2(p, Challenge(1, V2Len), ResponseLen) : p \in Passwords}
                \cup {Response2(<<>>, Challenge(1, V2Len), ResponseLen - 1), Broken, Vsa("Challenge", "lenOver")}
                \cup {[type |-> "UserName", name |-> u] : u \in Names}

\* A hidden key, the salt's top bit set or not, and values cut short.
Salts == {<<Octet(h), Octet(l)>> : h \in {HighBit - 1, HighBit}, l \in 0 .. 1}
Key(p, s, n, salt) == [type |-> "Mppe", by |-> [password |-> p, secret |-> s, request |-> n, whole |-> TRUE],
    value |-> salt \o tunnel_password_encrypt_with_salt(p, s, Authenticator(n), salt)]
Cut(a, n) == [a EXCEPT !.value = SubSeq(@, 1, n), !.by.whole = FALSE]
MppeAttributes == LET keys == {Key(p, s, n, salt) : p \in Passwords, s \in Secrets, n \in 1 .. 2, salt \in Salts}
                  IN keys \cup UNION {{Cut(a, n) : n \in 0 .. Len(a.value) - 1} : a \in keys}

Pool == [pap |-> PapAttributes, chap |-> ChapAttributes, v1 |-> V1Attributes,
         v2 |-> V2Attributes, mppe |-> MppeAttributes]

Init == scheme \in DOMAIN Pool /\ attributes = <<>>

Arrive == /\ Len(attributes) < MaxAttributes[scheme]
          /\ \E a \in Pool[scheme] : attributes' = Append(attributes, a)
          /\ UNCHANGED scheme

Spec == Init /\ [][Arrive]_vars
-----------------------------------------------------------------------------
\* The first attribute of a type in a list with no slot that is not
\* well-formed, by the list alone.
Sound == \A i \in 1 .. Len(attributes) : attributes[i].type # "Broken"
Leading(P(_)) == CHOOSE i \in 1 .. Len(attributes) :
                    P(attributes[i]) /\ \A j \in 1 .. i - 1 : ~P(attributes[j])
Carries(P(_)) == \E i \in 1 .. Len(attributes) : P(attributes[i])

IsUserPassword(a) == a.type = "UserPassword"
IsChap(a) == a.type = "ChapPassword"
IsChapChallenge(a) == a.type = "ChapChallenge"
IsMsChallenge(a) == a.type = "Vsa" /\ a.vtype = "Challenge" /\ a.shape = "whole"
IsResponse1(a) == a.type = "Vsa" /\ a.vtype = "Response1"
IsResponse2(a) == a.type = "Vsa" /\ a.vtype = "Response2"
IsUserName(a) == a.type = "UserName"

\* PAP by comparison and PAP by decryption tell the same story, for every
\* length about the ends of a block: pap.rs verify accepts exactly the users
\* who typed the expected password up to trailing NULs, into a value of no
\* more blocks than it needs, under this client's secret and for this
\* request, and decrypt_user_password then gives that password without them.
PapExact ==
    scheme = "pap" /\ Sound /\ Carries(IsUserPassword) =>
        LET a == attributes[Leading(IsUserPassword)]
            mine == a.by.secret = Secret /\ a.by.request = 1
        IN /\ \A e \in Expected :
                (verify_pap(e) = "Match") <=>
                    /\ mine /\ Len(e) <= MaxUser
                    /\ Stripped(e) = Stripped(a.by.password)
                    /\ Len(a.value) = RoundUp(IF e = <<>> THEN 1 ELSE Len(e))
           /\ mine => decrypt_user_password = [ok |-> Stripped(a.by.password)]

\* CHAP and MS-CHAPv1 accept nobody but somebody who knows the expected password
\* and answers the challenge of this request, the explicit one when the request
\* has one (chap.rs verify, mschap.rs verify_v1), wherever the attributes stand
\* in the list, and they do accept him.  (Whether CHAP does with a
\* CHAP-Challenge that is longer than an authenticator is left open.)
ChapExact ==
    scheme = "chap" /\ Sound /\ Carries(IsChap) =>
        LET a == attributes[Leading(IsChap)]
            c == IF Carries(IsChapChallenge) THEN attributes[Leading(IsChapChallenge)].challenge
                 ELSE authenticator
        IN \A e \in Expected :
              LET right == a.len = 17 /\ a.by.password = e /\ a.by.challenge = c
              IN /\ verify_chap(e) = "Match" => right
                 /\ right /\ Len(c) <= Block => verify_chap(e) = "Match"

\* The same for MS-CHAPv1, whichever form the identity store keeps.
V1Exact ==
    scheme = "v1" /\ Sound /\ Carries(IsResponse1) /\ Carries(IsMsChallenge) =>
        LET a == attributes[Leading(IsResponse1)]
            c == attributes[Leading(IsMsChallenge)].challenge
        IN \A e \in Expected : \A s \in {[form |-> "Cleartext", password |-> e],
                                         [form |-> "NtHash", hash |-> nt_password_hash(e)]} :
              (verify_v1(s) = "Match") <=>
                  a.len = ResponseLen /\ a.by.password = e /\ a.by.challenge = c

\* MS-CHAPv2 is mutual: the server accepts the peer (verify_v2) exactly when
\* the peer, who knows its account without a domain, accepts the response
\* that v2_success_response gives for it, whatever domains the User-Name has.
V2Mutual ==
    scheme = "v2" /\ Carries(IsResponse2) =>
        LET a == attributes[Leading(IsResponse2)]
            own == v2_authenticator_response(a.by.challenge, a.peer, a.nt, Account,
                                             [form |-> "Cleartext", password |-> a.by.password])
        IN \A e \in Expected : \A s \in {[form |-> "Cleartext", password |-> e],
                                         [form |-> "NtHash", hash |-> nt_password_hash(e)]} :
              /\ (verify_v2(s) = "Match") <=> (v2_success_response(s) = [ok |-> own])
              /\ Sound /\ Carries(IsMsChallenge) /\ Carries(IsUserName) /\ a.len = ResponseLen =>
                    ((verify_v2(s) = "Match") <=>
                        /\ attributes[Leading(IsMsChallenge)].challenge = a.by.challenge
                        /\ Last(attributes[Leading(IsUserName)].name) = Last(Account)
                        /\ a.by.password = e)

\* A key that was hidden for this exchange is read back octet for octet,
\* trailing NULs included, at every length about a block's end, unless its
\* salt lacks the top bit; a value cut at any place is refused or still gives
\* the whole key, and nothing is read beyond its end (crypto/mppe.rs mppe_key_decrypt).
MppeReadsBack ==
    scheme = "mppe" /\ attributes # <<>> =>
        LET a == attributes[1]
            r == mppe_key_decrypt(a.value, Secret, authenticator)
            mine == a.by.secret = Secret /\ a.by.request = 1
        IN /\ mine /\ a.by.whole =>
                r = {IF a.value[1] = Octet(HighBit) THEN [ok |-> a.by.password]
                     ELSE [err |-> "BadSalt"]}
           /\ mine /\ ~a.by.whole => \A x \in r : "ok" \in DOMAIN x => x.ok = a.by.password
           /\ \A x \in r : "ok" \in DOMAIN x => Len(x.ok) < Len(a.value) - 2
-----------------------------------------------------------------------------
=============================================================================
