--------------------------- MODULE EvidenceQuorum ---------------------------
(***************************************************************************)
(* N-of-M appraisal over time: statements about a session come in one by   *)
(* one, in any order, and are appraised together again and again while     *)
(* the clock runs and some of them expire.                                 *)
(***************************************************************************)
EXTENDS Attestation

CONSTANTS
    Offered,        \* evidence that may come in
    nRequired,      \* n: the number of independent statements asked for
    expectedNonce,
    MaxEvidence,    \* bound on the statements collected
    MaxClock

\* The claims of a statement are the record of the code.
ASSUME EvidenceAssumption ==
    \A e \in Offered :
        e.claims = [format |-> e.claims.format, sessionId |-> e.claims.sessionId,
                    sessionPublicKey |-> e.claims.sessionPublicKey, nonce |-> e.claims.nonce,
                    notAfter |-> e.claims.notAfter]

VARIABLES clock, evidences

evidenceVars == <<clock, evidences>>

EvidenceInit == clock = 0 /\ evidences = <<>>

Receive(e) ==
    /\ Len(evidences) < MaxEvidence
    /\ evidences' = Append(evidences, e)
    /\ UNCHANGED clock

Expiry ==
    /\ clock < MaxClock
    /\ clock' = clock + 1
    /\ UNCHANGED evidences

EvidenceNext == Expiry \/ \E e \in Offered : Receive(e)

EvidenceSpec == EvidenceInit /\ [][EvidenceNext]_evidenceVars
-----------------------------------------------------------------------------
Verdict(t) == appraiseNofM(evidences, nRequired, expectedNonce, t)

\* Statements that on their own speak for the claims of a verdict until time t.
Corroborates(e, claims, t) ==
    /\ appraise(e, expectedNonce, t, quoteFormats)
    /\ e.claims.sessionPublicKey = claims.sessionPublicKey
    /\ e.claims.sessionId = claims.sessionId

\* Whenever the quorum is valid, n trusted attesters and n formats speak for the
\* one session it returns, each of them until the notAfter it returns
\* (appraiseNofM: distinct attesters, one session, the earliest notAfter).
QuorumCorroborates ==
    Verdict(clock).valid =>
        LET c == Verdict(clock).claims
            E == {e \in Range(evidences) : Corroborates(e, c, c.notAfter)}
        IN  /\ Cardinality({e.attester : e \in E}) >= nRequired
            /\ Cardinality({e.claims.format : e \in E}) >= nRequired

\* What a caller that keeps the returned claims relies on: the same statements give
\* the same verdict at every later time up to the notAfter they were given.
VerdictLasts ==
    Verdict(clock).valid =>
        \A t \in clock..Verdict(clock).claims.notAfter : Verdict(t) = Verdict(clock)

\* A quorum of evidence holds: what it says is corroborated, for as long as it says it
\* (appraiseNofM).
QuorumHolds == QuorumCorroborates /\ VerdictLasts
=============================================================================
