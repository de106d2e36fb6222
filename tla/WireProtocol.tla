---------------------------- MODULE WireProtocol ----------------------------
(***************************************************************************)
(* rtq-approval-v1 on the wire: the QR codes the host makes and signs, what *)
(* the phone reads from them, the answers it signs and what the host takes *)
(* (packages/approval protocol.ts; apps/rtq-mobile protocol.dart, models). *)
(* On the way a text can be changed, or be another of the signed texts.    *)
(* ApprovalVerifier and MobileApp build on what is stated here: that a     *)
(* signature vouches for all that is read.  Time is left to them.          *)
(***************************************************************************)
CONSTANTS ChangedValues,  \* what a field can hold on arrival
          Oddities        \* what the host's caller can put in a field it does not check

VARIABLES shown,   \* the QR code the host made, {} or one
          seen,    \* the text the phone accepted and shows, {} or one
          replied, \* the answer the phone signed, {} or one
          taken    \* the answer the host took, {} or one

wireVars == <<shown, seen, replied, taken>>

(***************************************************************************)
(* Texts.  A key, and the id that is its fingerprint, is "one" or "two",   *)
(* and so is every other value that is of its field's form.                *)
(***************************************************************************)
Good == {"one", "two"}
Binding == {"challengeId", "capability", "capabilityVersion", "inputHash", "risk", "origin",
            "application", "hostId", "policyVersion", "expiresAt", "nonce"}
FieldsOf ==
    [challenge |-> Binding \cup {"summary", "hostPublicKey"},
     pairing |-> {"pairingId", "hostId", "hostPublicKey", "application", "userHint",
                  "expiresAt", "nonce"},
     approval |-> Binding \cup {"decision", "deviceId", "signedAt"},
     pairing_response |-> {"pairingId", "hostId", "nonce", "deviceId", "deviceName",
                           "publicKeyJwk", "signedAt"}]
PrefixOf == [challenge |-> "rtq://challenge", pairing |-> "rtq://pair",
             approval |-> "none", pairing_response |-> "none"]

\* A field of a text, also of one whose kind was changed.
Field(text, f) == IF f \in DOMAIN text.fields THEN text.fields[f] ELSE "absent"

\* The signing bodies: every field but the signature, one left out being null.
\* Mutant: the summary is only for display and is not signed.
SignedFieldsNoSummary(kind) == FieldsOf[kind] \ {"summary"}
SignedFields(kind) == FieldsOf[kind]
SigningBody(text) ==
    [kind |-> text.kind,
     signed |-> [f \in SignedFields(text.kind) |->
                   IF Field(text, f) = "absent" THEN "null" ELSE Field(text, f)]]

Signed(kind, fields, key) ==
    LET unsigned == [kind |-> kind, fields |-> fields]
    IN  [prefix |-> PrefixOf[kind], form |-> "canonical", version |-> "v1", kind |-> kind,
         fields |-> fields, signature |-> [key |-> key, body |-> SigningBody(unsigned)]]

\* ed25519Verify
Authentic(text, key) == text.signature = [key |-> key, body |-> SigningBody(text)]

\* createChallengeV1, createPairingChallengeV1: the caller's values are not
\* looked at, only the host's key is its own.
Created(kind, values, key) ==
    Signed(kind, [f \in FieldsOf[kind] |-> IF f = "hostPublicKey" THEN key ELSE values[f]], key)
Caller(kind, f, v) == [g \in FieldsOf[kind] |-> IF g = f THEN v ELSE "one"]

(***************************************************************************)
(* Reading.  Only an object without repeated keys is read, of this version *)
(* and of the kind that is expected; a code has to be the one encoding of  *)
(* its object in base64url, an answer is plain JSON.                       *)
(***************************************************************************)
Enveloped(text, kind, prefixes) ==
    /\ text.prefix \in prefixes
    /\ text.form \in (IF text.prefix = "none" THEN {"canonical", "notCanonical"} ELSE {"canonical"})
    /\ text.version = "v1"
    /\ text.kind = kind

\* Mutant: the phone does not look at a field it does not show.
ReadByPhoneUnshown(text) ==
    \A f \in FieldsOf[text.kind] \ {"policyVersion"} :
        Field(text, f) \in Good \cup (IF f = "userHint" THEN {"absent", "null"} ELSE {})
\* parseChallenge, parsePairingChallenge of the phone: a hint may be missing.
ReadByPhone(text) ==
    \A f \in FieldsOf[text.kind] :
        Field(text, f) \in Good \cup (IF f = "userHint" THEN {"absent", "null"} ELSE {})

\* validateSigned: the host asks no length of a nonce or a key.
ReadByHost(text) ==
    \A f \in FieldsOf[text.kind] :
        Field(text, f) \in Good \cup (IF f \in {"nonce", "publicKeyJwk"} THEN {"short"} ELSE {})

\* scan() of the two controllers.  The phone has paired with the host of key
\* "one"; a pairing code is its own host's word.
PhoneAccepts(qr) ==
    \/ /\ Enveloped(qr, "challenge", {"rtq://challenge", "rtq://approval"})
       /\ ReadByPhone(qr)
       /\ qr.fields["hostPublicKey"] = "one"
       /\ Authentic(qr, "one")
    \/ /\ Enveloped(qr, "pairing", {"rtq://pair"})
       /\ ReadByPhone(qr)
       /\ Authentic(qr, qr.fields["hostPublicKey"])

\* signApproval and signPairingResponse, by the phone of key "one".
SignApproval(qr, decision) ==
    Signed("approval",
           [f \in FieldsOf["approval"] |->
              IF f \in Binding THEN qr.fields[f] ELSE IF f = "decision" THEN decision ELSE "one"],
           "one")
SignPairingResponse(qr, name) ==
    Signed("pairing_response",
           [f \in FieldsOf["pairing_response"] |->
              IF f \in {"pairingId", "hostId", "nonce"} THEN qr.fields[f]
              ELSE IF f = "deviceName" THEN name ELSE "one"],
           "one")
\* A decision is "one" when granted; the form for a name takes an empty one.
Answers(qr) ==
    IF qr.kind = "challenge" THEN {SignApproval(qr, d) : d \in Good}
    ELSE {SignPairingResponse(qr, name) : name \in {"one", "malformed"}}

\* verify() and completePairing(), of what they do with the text: both devices
\* are registered under the fingerprints of their keys, and what the host asked
\* is compared field by field.
Answered(qr, text, fields) == \A f \in fields : text.fields[f] = qr.fields[f]
HostTakes(qr, text) ==
    \/ /\ Enveloped(text, "approval", {"none"})
       /\ ReadByHost(text)
       /\ Authentic(text, text.fields["deviceId"])
       /\ text.fields["decision"] = "one"
       /\ qr.kind = "challenge" /\ Answered(qr, text, Binding)
    \/ /\ Enveloped(text, "pairing_response", {"none"})
       /\ ReadByHost(text)
       /\ text.fields["deviceId"] = text.fields["publicKeyJwk"]
       /\ Authentic(text, text.fields["deviceId"])
       /\ qr.kind = "pairing" /\ Answered(qr, text, {"pairingId", "hostId", "nonce"})

(***************************************************************************)
(* The way between: a text that was sent, now or before, by this or the    *)
(* other host, with one field changed and, at will, another's signature,   *)
(* or with another envelope.                                               *)
(***************************************************************************)
EarlierCodes ==
    {Created(kind, Caller(kind, "nonce", "two"), key) :
        kind \in {"challenge", "pairing"}, key \in Good}
EarlierAnswers == UNION {Answers(qr) : qr \in {c \in EarlierCodes : PhoneAccepts(c)}}
Codes == EarlierCodes \cup shown
Replies == EarlierAnswers \cup replied
Signatures == {t.signature : t \in Codes \cup Replies} \cup {[key |-> "malformed", body |-> <<>>]}
Envelopes ==
    [form : {"canonical", "repeatedKey", "notCanonical"}, version : {"v1", "v2"},
     prefix : {"rtq://challenge", "rtq://approval", "rtq://pair", "none"}, kind : DOMAIN FieldsOf]

Changed(text, f, v, signature) == [text EXCEPT !.fields[f] = v, !.signature = signature]
Readdressed(text, envelope) ==
    [text EXCEPT !.form = envelope.form, !.version = envelope.version,
                 !.prefix = envelope.prefix, !.kind = envelope.kind]

WireInit == shown = {} /\ seen = {} /\ replied = {} /\ taken = {}

HostShows(qr) ==
    /\ shown = {}
    /\ shown' = {qr}
    /\ UNCHANGED <<seen, replied, taken>>

PhoneReads(qr) ==
    /\ seen = {} /\ PhoneAccepts(qr)
    /\ seen' = {qr}
    /\ UNCHANGED <<shown, replied, taken>>

PhoneReplies(text) ==
    /\ replied = {}
    /\ replied' = {text}
    /\ UNCHANGED <<shown, seen, taken>>

HostReceives(text) ==
    /\ taken = {} /\ \E qr \in shown : HostTakes(qr, text)
    /\ taken' = {text}
    /\ UNCHANGED <<shown, seen, replied>>

Receives(text) == PhoneReads(text) \/ HostReceives(text)

WireNext ==
    \/ \E kind \in {"challenge", "pairing"} : \E f \in FieldsOf[kind], v \in Oddities :
          HostShows(Created(kind, Caller(kind, f, v), "one"))
    \/ \E text \in Codes \cup Replies :
          \/ \E f \in FieldsOf[text.kind] : \E v \in ChangedValues \cup {text.fields[f]} :
                \E signature \in Signatures :
                   Receives(Changed(text, f, v, signature))
          \/ \E envelope \in Envelopes : Receives(Readdressed(text, envelope))
    \/ \E qr \in seen : \E text \in Answers(qr) : PhoneReplies(text)

WireSpec == WireInit /\ [][WireNext]_wireVars

(* Properties *)
Content(text) == [f \in FieldsOf[text.kind] |-> IF text.fields[f] = "null" THEN "absent" ELSE text.fields[f]]
SameText(a, b) == a.kind = b.kind /\ Content(a) = Content(b)

\* Whatever happens to a text on its way, what the phone shows is what a host
\* signed, what the host takes is what the phone answered, in every field that is
\* read and of that kind; and an approval is of the very code the host made, the
\* summary its holder saw included, although the answer does not repeat it.
AcceptedAsSigned ==
    /\ \A qr \in seen : \E code \in Codes : SameText(qr, code)
    /\ \A text \in taken : \E reply \in Replies : SameText(text, reply)
    /\ \A text \in taken, qr \in shown : text.kind = "approval" =>
          \E code \in seen \cup EarlierCodes : PhoneAccepts(code) /\ SameText(code, qr)

\* The phone reads each code made of values of the right form, and a code it
\* accepts it can answer: the host reads what the phone signs, grants and names,
\* although the two readers were written twice and check different things.
AnswersAreTaken ==
    /\ \A qr \in shown : (\A f \in DOMAIN qr.fields : qr.fields[f] \in Good) => PhoneAccepts(qr)
    /\ \A qr \in seen \cap shown : \A text \in Answers(qr) :
          "one" \in {Field(text, "decision"), Field(text, "deviceName")} => HostTakes(qr, text)
=============================================================================
