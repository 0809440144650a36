----------------------------- MODULE Envelopes ------------------------------
(***************************************************************************)
(* Signed envelopes, COSE_Sign1 messages, permit tokens and sealed         *)
(* messages (crypto/src/envelope.ts, cose.ts, seal.ts).                    *)
(*                                                                         *)
(* Canonical CBOR is injective: an encoding is the tuple it encodes.  A    *)
(* signature or tag is a record of the key and what it is on, a derived    *)
(* key the tuple of what it is derived from.  One object is made; the      *)
(* properties look at every way its parts can arrive.                      *)
(***************************************************************************)
EXTENDS Suites

CONSTANTS
    Keys,           \* signing keys, and key pairs of a KEM
    Contexts, Payloads, Algs, Profiles, SuiteIds, KemIds, Parties, Unopened

VARIABLE object

toBeSigned(suite, context, payload) == <<"ENVELOPE_SIGNED", suite, context, payload>>

toBeMaced(suite, body) == <<"PERMIT", suite, body>>

signEnvelopeWith(payload, suite, key, context) ==
    [suite |-> suite, context |-> context, payload |-> payload,
     sig |-> [by |-> key, on |-> toBeSigned(suite, context, payload)]]

verifyEnvelope(env, key, allowedSuites) ==
    /\ env.suite \in allowedSuites
    /\ signerFor(env.suite)
    /\ env.sig = [by |-> key, on |-> toBeSigned(env.suite, env.context, env.payload)]

deriveAudiencePermitKey(sessionKey, audience) == <<"AUDIENCE_KDF", sessionKey, audience>>

permitMac(suite, body, key) == [by |-> key, on |-> toBeMaced(suite, body)]

issuePermit(claims, suite, key) == [suite |-> suite, body |-> claims, mac |-> permitMac(suite, claims, key)]

verifyPermit(token, key) == token.mac = permitMac(token.suite, token.body, key)

protectedHeader(alg) == <<alg>>

coseToBeSigned(prot, payload, externalAad) == <<"Signature1", prot, externalAad, payload>>

coseSign1(payload, suite, key, alg, externalAad) ==
    [protected |-> protectedHeader(alg), payload |-> payload,
     signature |-> [by |-> key, on |-> coseToBeSigned(protectedHeader(alg), payload, externalAad)]]

coseSign1Verify(msg, suite, key, expectedAlg, externalAad) ==
    /\ msg.protected = protectedHeader(expectedAlg)
    /\ signerFor(suite)
    /\ msg.signature = [by |-> key, on |-> coseToBeSigned(msg.protected, msg.payload, externalAad)]

signEatResult(nonce, claims, suite, key, alg) ==
    coseSign1(<<nonce, claims>>, suite, key, alg, "EAT_RESULT")
-----------------------------------------------------------------------------
(* Sealing *)

\* Mutant: the sender is not bound, neither in the key nor in the associated data.
SealedHeader_NoSender(p) == <<p.suite, p.kemId, p.recipientId>>

SealedHeader(p) == <<p.suite, p.kemId, p.senderId, p.recipientId>>

sealInfo(p, recipientPublicKey, kemCiphertext) ==
    <<"KEM_SEAL", SealedHeader(p), recipientPublicKey, kemCiphertext>>

sealAad(p, recipientPublicKey, kemCiphertext) ==
    <<"KEM_SEAL", SealedHeader(p), recipientPublicKey, kemCiphertext>>

\* A ciphertext carries a secret only the addressed key pair recovers; any other key,
\* or another KEM, recovers something else.
encapsulate(kemId, key) == [kem |-> kemId, to |-> key]
decapsulate(kemId, ct, key) == IF ct = [kem |-> kemId, to |-> key] THEN <<"shared", ct>> ELSE <<"other", kemId, ct, key>>

\* Unopened when getKem throws.
sealToKem(key, plaintext, p) ==
    LET ct == encapsulate(p.kemId, key)
    IN  IF p.kemId \notin implementedKemIds THEN Unopened
        ELSE [suite |-> p.suite, kemId |-> p.kemId, senderId |-> p.senderId, recipientId |-> p.recipientId,
              kemCiphertext |-> ct,
              ciphertext |-> [key |-> <<"shared", ct, sealInfo(p, key, ct)>>, plaintext |-> plaintext,
                              aad |-> sealAad(p, key, ct)]]

\* Unopened when it throws.
openSealed(sealed, key, expected) ==
    LET secret == decapsulate(sealed.kemId, sealed.kemCiphertext, key)
    IN  IF /\ sealed.suite = expected.suite
           /\ sealed.recipientId = expected.recipientId
           /\ sealed.kemId \in implementedKemIds
           /\ sealed.ciphertext.key = Append(secret, sealInfo(sealed, key, sealed.kemCiphertext))
           /\ sealed.ciphertext.aad = sealAad(sealed, key, sealed.kemCiphertext)
        THEN sealed.ciphertext.plaintext
        ELSE Unopened
-----------------------------------------------------------------------------
EnvelopesInit == object = Unopened

MakeEnvelope ==
    \E p \in Payloads, s \in SuiteIds, k \in Keys, c \in Contexts :
        /\ signerFor(s)
        /\ object' = [kind |-> "envelope", made |-> signEnvelopeWith(p, s, k, c), key |-> k]

MakePermit ==
    \E p \in Payloads, s \in SuiteIds, k \in Keys, a \in Parties :
        object' = [kind |-> "permit", key |-> deriveAudiencePermitKey(k, a),
                   made |-> issuePermit(p, s, deriveAudiencePermitKey(k, a))]

MakeCose ==
    \E p \in Payloads, s \in SuiteIds, k \in Keys, alg \in Algs, f \in Profiles :
        /\ signerFor(s)
        /\ object' = [kind |-> "cose", key |-> k, alg |-> alg, profile |-> f,
                      made |-> IF f = "EAT_RESULT" THEN signEatResult(p, p, s, k, alg)
                               ELSE coseSign1(<<p>>, s, k, alg, f)]

Seal ==
    \E p \in Payloads, k \in Keys, s \in SuiteIds, kem \in KemIds, from, to \in Parties :
        LET made == sealToKem(k, p, [suite |-> s, kemId |-> kem, senderId |-> from, recipientId |-> to])
        IN  made # Unopened /\ object' = [kind |-> "sealed", key |-> k, made |-> made]

EnvelopesNext ==
    /\ object = Unopened
    /\ MakeEnvelope \/ MakePermit \/ MakeCose \/ Seal
-----------------------------------------------------------------------------
IsA(kind) == object # Unopened /\ object.kind = kind

\* A signature or tag is accepted for what was signed and for nothing else: no other
\* suite, context, algorithm, profile, payload, key or audience, and for one kind of
\* message only (verifyEnvelope, coseSign1Verify, verifyPermit).
ReadsAsWritten ==
    /\ IsA("envelope") => \A k \in Keys, s \in SuiteIds, c \in Contexts, p \in Payloads :
          LET got == [object.made EXCEPT !.suite = s, !.context = c, !.payload = p]
          IN  /\ verifyEnvelope(got, k, SuiteIds) <=> (got = object.made /\ k = object.key)
              /\ \A f \in Profiles, alg \in Algs :
                    ~coseSign1Verify([protected |-> protectedHeader(alg), payload |-> <<p>>,
                                      signature |-> got.sig], s, k, alg, f)
    /\ IsA("permit") => \A k \in Keys, a \in Parties, s \in SuiteIds, p \in Payloads :
          LET got == [object.made EXCEPT !.suite = s, !.body = p]
          IN  verifyPermit(got, deriveAudiencePermitKey(k, a))
                <=> (got = object.made /\ deriveAudiencePermitKey(k, a) = object.key)
    /\ IsA("cose") => \A k \in Keys, s \in SuiteIds, f \in Profiles, alg, want \in Algs,
                         p \in {<<x>> : x \in Payloads} \cup {object.made.payload} :
          LET got == [object.made EXCEPT !.protected = protectedHeader(alg), !.payload = p]
          IN  coseSign1Verify(got, s, k, want, f)
                <=> (/\ got = object.made /\ k = object.key /\ want = object.alg
                     /\ f = object.profile /\ signerFor(s))

\* A sealed message opens only with the key it was sealed to, only for the recipient
\* and suite it names, and its header, sender included, is the one it was sealed
\* with (openSealed).
OpensAsSealed ==
    IsA("sealed") => \A k \in Keys, s, es \in SuiteIds, kem \in KemIds, from, to, er \in Parties :
        LET got == [object.made EXCEPT !.suite = s, !.kemId = kem, !.senderId = from, !.recipientId = to]
            out == openSealed(got, k, [suite |-> es, recipientId |-> er])
        IN  out # Unopened <=>
                (got = object.made /\ k = object.key /\ es = s /\ er = to)

\* Every message, signed or sealed, is taken for what it was made as and for nothing else
\* (verifyEnvelope, verifyPermit, coseSign1Verify, openSealed).
MessagesBind == ReadsAsWritten /\ OpensAsSealed
=============================================================================
