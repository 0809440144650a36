------------------------------- MODULE Suites -------------------------------
(***************************************************************************)
(* The suite registry, its CNSA 2.0 assessment, and suite negotiation      *)
(* (crypto/src/suites.ts, cnsa.ts).                                        *)
(*                                                                         *)
(* Two peers exchange their offers over a channel that may alter them,     *)
(* each picks a suite and signs a transcript of what it saw.  The library  *)
(* gives the functions; the exchange around them is the one they are       *)
(* written for, and every signed transcript of every session reaches       *)
(* everyone.                                                               *)
(***************************************************************************)
EXTENDS Integers, Sequences, SequencesExt, FiniteSets

CONSTANTS Peers, Offers, MaxSessions, NoSuite

VARIABLE sessions

\* The parts of an algorithm's name that the assessment looks for.
Parts ==
    [xwing |-> {"MLKEM768", "X25519"}, mlkem1024p384 |-> {"MLKEM1024", "P384"}, hqc |-> {"HQC"},
     mldsa87 |-> {"ML-DSA-87"}, fndsa |-> {"FN-DSA"}, aes |-> {"AES-256"},
     hmac |-> {"SHA-384"}, sha3 |-> {"SHA3", "SHAKE"}]

Suite(status, preference, kem, sig) ==
    [status |-> status, preference |-> preference, kemId |-> kem, sigId |-> sig,
     aeadId |-> "aes", macId |-> "hmac", hashId |-> "sha3"]

SUITES ==
    [PS_1 |-> Suite("active", 20, "xwing", "mldsa87"),
     PS_5 |-> Suite("active", 10, "mlkem1024p384", "mldsa87"),
     PS_5_HQC |-> Suite("pending", 90, "hqc", "mldsa87"),
     PS_5_FN |-> Suite("not-load-bearing", 95, "mlkem1024p384", "fndsa")]

getSuite(id) == IF id \in DOMAIN SUITES THEN SUITES[id] ELSE NoSuite

\* Algorithms whose factory does not throw.
implementedKemIds == {"xwing", "mlkem1024p384"}
implementedSigIds == {"mldsa87"}

\* signerFor throws for a suite it does not know and for a scheme not implemented.
signerFor(id) == getSuite(id) # NoSuite /\ getSuite(id).sigId \in implementedSigIds

activeSuiteIds ==
    SetToSortSeq({id \in DOMAIN SUITES : SUITES[id].status = "active"},
                 LAMBDA a, b : SUITES[a].preference < SUITES[b].preference)

\* NoSuite when it throws.
negotiate(local, remote) ==
    LET candidates == SelectSeq(activeSuiteIds, LAMBDA id : id \in Range(local) /\ id \in Range(remote))
    IN  IF candidates = <<>> THEN NoSuite ELSE Head(candidates)
-----------------------------------------------------------------------------
(* CNSA 2.0 *)

has(id, part) == part \in Parts[id]

classifySignature(id) == IF has(id, "ML-DSA-87") THEN "conformant" ELSE "non-conformant"

classifyKem(id) ==
    CASE has(id, "MLKEM1024") /\ (has(id, "P384") \/ has(id, "X25519")) -> "transitional"
      [] has(id, "MLKEM1024") /\ ~(has(id, "P384") \/ has(id, "X25519")) -> "conformant"
      [] OTHER -> "non-conformant"

classifySymmetric(id) == IF has(id, "AES-256") THEN "conformant" ELSE "non-conformant"

classifyHashLike(id) ==
    CASE has(id, "SHA-384") -> "conformant"
      [] ~has(id, "SHA-384") /\ (has(id, "SHA3") \/ has(id, "SHAKE")) -> "transitional"
      [] OTHER -> "non-conformant"

\* Whether a suite is conformant.
assessCnsa20(s) ==
    "non-conformant" \notin {classifySignature(s.sigId), classifyKem(s.kemId), classifySymmetric(s.aeadId),
                             classifyHashLike(s.macId), classifyHashLike(s.hashId)}
-----------------------------------------------------------------------------
(* Negotiation *)

\* Mutant: the offers are not part of it.
negotiationTranscript_NoOffers(ctx) ==
    <<ctx.sessionId, ctx.initiatorId, ctx.responderId, ctx.chosen>>

negotiationTranscript(ctx) ==
    <<ctx.sessionId, ctx.initiatorId, ctx.responderId, ctx.initiatorOffered, ctx.responderOffered, ctx.chosen>>

verifyNegotiationTranscript(peerTranscript, ctx) == peerTranscript = negotiationTranscript(ctx)

\* The context of one side: its own offer, and the peer's as it arrived.
Context(s, side) ==
    LET saw == IF side = "initiator" THEN <<s.initiatorOffer, s.arrivedAtInitiator>>
                                     ELSE <<s.arrivedAtResponder, s.responderOffer>>
    IN  [sessionId |-> s.id, initiatorId |-> s.initiator, responderId |-> s.responder,
         initiatorOffered |-> saw[1], responderOffered |-> saw[2],
         chosen |-> IF side = "initiator" THEN negotiate(saw[1], saw[2]) ELSE negotiate(saw[2], saw[1])]

Sides == {"initiator", "responder"}

\* A transcript signed by each side that found a suite.
SignedTranscripts ==
    {[by |-> sessions[k][side], on |-> negotiationTranscript(Context(sessions[k], side)),
      at |-> <<k, side>>] :
        <<k, side>> \in {p \in (DOMAIN sessions) \X Sides : Context(sessions[p[1]], p[2]).chosen # NoSuite}}

NegotiationInit == sessions = <<>>

\* One session: both offers are sent, and arrive as they were sent or not.
Exchange ==
    /\ Len(sessions) < MaxSessions
    /\ \E a, b \in Peers, oa, ob, atA, atB \in Offers :
          /\ a # b
          /\ sessions' = Append(sessions,
                [id |-> Len(sessions) + 1, initiator |-> a, responder |-> b,
                 initiatorOffer |-> oa, responderOffer |-> ob,
                 arrivedAtInitiator |-> atA, arrivedAtResponder |-> atB])

NegotiationNext == Exchange

\* What a side does with a transcript: the signature is the peer's and it matches.
Accepts(k, side, t) ==
    LET ctx == Context(sessions[k], side)
        peer == IF side = "initiator" THEN ctx.responderId ELSE ctx.initiatorId
    IN  ctx.chosen # NoSuite /\ t.by = peer /\ verifyNegotiationTranscript(t.on, ctx)
-----------------------------------------------------------------------------
\* A side that accepts a transcript, out of all ever signed, accepts the one its peer
\* signed in this session; both then use the suite the offers as sent lead to
\* (negotiationTranscript binds the session, both peers, both offers and the choice).
NoDowngrade ==
    sessions # <<>> =>
        LET k == Len(sessions)
            s == sessions[k]
        IN  \A side \in Sides, t \in SignedTranscripts : Accepts(k, side, t) =>
                /\ t.at[1] = k /\ t.at[2] # side
                /\ \A any \in Sides : Context(s, any).chosen = negotiate(s.initiatorOffer, s.responderOffer)

\* Offers that arrive as sent lead both sides to the same suite, and to one that CNSA
\* 2.0 accepts whenever both peers offer an active one (negotiate, assessCnsa20: the
\* preferences of the registry follow the assessment).
ConformantPreferred ==
    sessions # <<>> =>
        LET s == Last(sessions)
            good(o) == {id \in Range(o) : id \in Range(activeSuiteIds) /\ assessCnsa20(SUITES[id])}
            a == Context(s, "initiator").chosen
            b == Context(s, "responder").chosen
        IN  (s.arrivedAtInitiator = s.responderOffer /\ s.arrivedAtResponder = s.initiatorOffer) =>
                /\ a = b
                /\ good(s.initiatorOffer) \cap good(s.responderOffer) # {} => assessCnsa20(SUITES[a])

\* Negotiation leads to the best suite both offered or is found out (negotiate,
\* verifyNegotiationTranscript).
NegotiationSound == NoDowngrade /\ ConformantPreferred
=============================================================================
