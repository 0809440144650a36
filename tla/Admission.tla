------------------------------ MODULE Admission ------------------------------
(***************************************************************************)
(* Admission: sessions, permits and receipts, with governance revoking     *)
(* grants and time passing in between.                                     *)
(*                                                                         *)
(* A node establishes sessions from attestation evidence and admits        *)
(* intents.  What it admits runs either in the process of the SDK          *)
(* (guardTool admits, checks and calls the handler without yielding) or    *)
(* later at a resource that is handed the permit.  A permit may be         *)
(* presented any number of times, by anybody, to any resource.             *)
(*                                                                         *)
(* Keys and MACs are symbolic: a session key names the claims it was       *)
(* derived from and a permit the key its MAC was made with.  Callers read  *)
(* one clock and the current revocation registry.                          *)
(***************************************************************************)
EXTENDS Kernel, Governance, Attestation

CONSTANTS
    requireAttestedSession,
    permitTtlSeconds,
    Evidences,      \* evidence that reaches the node
    Nonces,
    OutOfBand,      \* sessions made without establishSession
    Intents,
    Presented,      \* lists of capabilities callers present
    Aggregates,     \* values of observedAggregate
    Audiences,
    Rogue,          \* audiences that also make permits, with the keys they hold
    discharged,     \* obligations the integrator of guardTool discharges itself
    MaxMinted       \* bound on the number of admissions

ASSUME AdmissionAssumption ==
    /\ requireAttestedSession \in BOOLEAN
    /\ permitTtlSeconds \in Nat
    /\ Rogue \subseteq Audiences

VARIABLES
    sessions,   \* what establishSession has returned
    minted,     \* admissions that were not denied: outcome, session and time
    log,        \* the receipts in the transparency log
    ran,        \* what this step ran, or None
    revokedAt   \* grant -> when it was revoked (for the properties)

vars == <<govVars, sessions, minted, log, ran, revokedAt>>

deriveSessionKey(claims) == [root |-> "node", claims |-> claims]

\* Only the node derives keys from its root.
ASSUME RootAssumption == \A s \in OutOfBand : s.sessionKey # deriveSessionKey(s.claims)

\* Mutant: one key for every audience.
DeriveAudiencePermitKey_Shared(sessionKey, audience) == [session |-> sessionKey]

deriveAudiencePermitKey(sessionKey, audience) ==
    [session |-> sessionKey, audience |-> audience]

checkAttestedSession(s) ==
    requireAttestedSession =>
        /\ s.sessionKey = deriveSessionKey(s.claims)
        /\ isSafeInteger(s.claims.notAfter)
        /\ now <= s.claims.notAfter

\* Mutant: a permit lives for the plain time to live.
PermitExpiry_Unclamped(claims) == now + permitTtlSeconds

permitExpiry(claims) ==
    IF isSafeInteger(claims.notAfter)
    THEN Min({now + permitTtlSeconds, claims.notAfter})
    ELSE now

issueBoundPermit(s, intent, audience, d) ==
    [claims |-> [sessionId |-> s.sessionId, nonce |-> s.claims.nonce, audience |-> audience,
                 action |-> intent, tier |-> d.tier, exp |-> permitExpiry(s.claims),
                 effect |-> d.effect],
     mac |-> deriveAudiencePermitKey(s.sessionKey, audience)]

\* check: audience, intent, sessionId and expectedEffect, the last two None when
\* the resource leaves them out.
verifyPermitForAction(permit, audienceKey, check) ==
    /\ permit.claims.audience = check.audience
    /\ permit.claims.action = check.intent
    /\ now <= permit.claims.exp
    /\ check.sessionId # None => permit.claims.sessionId = check.sessionId
    /\ permit.claims.effect = OrElse(check.expectedEffect, "allow")
    /\ permit.mac = audienceKey

\* The input admit hands to the kernel.
KernelInput(s, intent, candidates, aggregate) ==
    [intent |-> intent, capabilities |-> candidates, now |-> now, observedAggregate |-> aggregate,
     holder |-> s.claims.sessionPublicKey, revoked |-> revoked]

\* Mutant: the receipt names the first capability presented.
Receipt_First(input, d) ==
    LET r == replay(buildReplayBundle(input))
    IN  [intent |-> input.intent, effect |-> d.effect, tier |-> d.tier, timestamp |-> now,
         capability |-> input.capabilities[1], inputHash |-> r.inputHash, decisionHash |-> r.receiptHash]

Receipt(input, d) ==
    LET r == replay(buildReplayBundle(input))
    IN  [intent |-> input.intent, effect |-> d.effect, tier |-> d.tier, timestamp |-> now,
         capability |-> d.capability, inputHash |-> r.inputHash, decisionHash |-> r.receiptHash]

\* Mutant: revocations do not reach the kernel.
AdmissionDecision_Unrevoked(s, intent, candidates, aggregate) ==
    IF checkAttestedSession(s)
    THEN decide(intent, candidates, now, aggregate, s.claims.sessionPublicKey, {})
    ELSE Deny(3)

admissionDecision(s, intent, candidates, aggregate) ==
    IF checkAttestedSession(s)
    THEN decideInput(KernelInput(s, intent, candidates, aggregate))
    ELSE Deny(3)

\* What admit returns.
AdmissionOutcome(s, intent, candidates, audience, aggregate) ==
    LET d == admissionDecision(s, intent, candidates, aggregate)
    IN  [decision |-> d,
         permit |-> IF d.effect = "deny" THEN None
                    ELSE issueBoundPermit(s, intent, audience, d),
         receipt |-> IF "nearline-receipt" \in d.obligations
                     THEN Receipt(KernelInput(s, intent, candidates, aggregate), d) ELSE None]

Init ==
    /\ GovInit
    /\ sessions = {}
    /\ minted = {}
    /\ log = <<>>
    /\ ran = None
    /\ revokedAt = <<>>

establishSession(e, expectedNonce) ==
    /\ appraise(e, expectedNonce, now, {})
    /\ sessions' = sessions \cup {[sessionId |-> e.claims.sessionId,
                                   sessionKey |-> deriveSessionKey(e.claims),
                                   claims |-> e.claims]}
    /\ ran' = None
    /\ UNCHANGED <<govVars, minted, log, revokedAt>>

\* The changes admit makes; a denial makes none.
admit(s, outcome) ==
    LET m == [outcome |-> outcome, session |-> s, at |-> now]
    IN  /\ Cardinality(minted) < MaxMinted
        /\ outcome.permit # None
        /\ m \notin minted
        /\ minted' = minted \cup {m}
        /\ log' = IF outcome.receipt = None THEN log ELSE Append(log, outcome.receipt)
        /\ UNCHANGED <<govVars, sessions, revokedAt>>

\* A caller asks for a permit.
Admit(s, intent, candidates, audience, aggregate) ==
    /\ admit(s, AdmissionOutcome(s, intent, candidates, audience, aggregate))
    /\ ran' = None

\* Mutant: the obligations of the tier are not looked at.
IsDischarged_Any(o, receipt) == TRUE

isDischarged(o, receipt) ==
    IF o = "nearline-receipt" THEN receipt # None
    ELSE o = "session-attestation" \/ o \in discharged

checkPermit(outcome, s, audience, intent) ==
    verifyPermitForAction(outcome.permit, deriveAudiencePermitKey(s.sessionKey, audience),
        [audience |-> audience, intent |-> intent, sessionId |-> s.sessionId,
         expectedEffect |-> None])

Run(via, permit, audience, intent, effect) ==
    [via |-> via, permit |-> permit, audience |-> audience, intent |-> intent,
     effect |-> effect]

guardTool(s, intent, candidates, audience, aggregate) ==
    LET outcome == AdmissionOutcome(s, intent, candidates, audience, aggregate)
        runs == /\ outcome.decision.effect = "allow"
                /\ checkPermit(outcome, s, audience, intent)
                /\ \A o \in outcome.decision.obligations : isDischarged(o, outcome.receipt)
    IN  /\ admit(s, outcome)
        /\ ran' = IF runs THEN Run("guard", outcome.permit, audience, intent, "allow")
                  ELSE None

\* Permits that a rogue audience makes out of those that exist, under its keys.
Rewritten(claims, audience, intent) ==
    [claims EXCEPT !.audience = audience, !.action = intent, !.exp = MaxTime]

MadeByRogues ==
    {[claims |-> Rewritten(m.outcome.permit.claims, b, i),
      mac |-> deriveAudiencePermitKey(m.session.sessionKey, a)] :
        m \in minted, a \in Rogue, b \in Audiences, i \in Intents}

Permits == {m.outcome.permit : m \in minted} \cup MadeByRogues

\* The resource that holds the key of s for audience is asked to run intent.
ResourceRuns(permit, s, audience, intent, expectedEffect) ==
    /\ verifyPermitForAction(permit, deriveAudiencePermitKey(s.sessionKey, audience),
           [audience |-> audience, intent |-> intent, sessionId |-> None,
            expectedEffect |-> expectedEffect])
    /\ ran' = Run("resource", permit, audience, intent, OrElse(expectedEffect, "allow"))
    /\ UNCHANGED <<govVars, sessions, minted, log, revokedAt>>

Govern ==
    /\ GovNext
    /\ revokedAt' = [g \in revoked' |-> IF g \in revoked THEN revokedAt[g] ELSE now]
    /\ ran' = None
    /\ UNCHANGED <<sessions, minted, log>>

\* Sessions as callers present them: as established, or relabelled and with claims
\* that last until the end.
Prolonged(claims) == [claims EXCEPT !.notAfter = MaxTime]

CallerSessions ==
    sessions \cup OutOfBand
    \cup {[sessionId |-> "relabelled", sessionKey |-> s.sessionKey, claims |-> Prolonged(s.claims)] :
             s \in sessions}

Next ==
    \/ Govern
    \/ \E e \in Evidences, n \in Nonces : establishSession(e, n)
    \/ \E s \in CallerSessions, i \in Intents, c \in Presented,
          a \in Audiences, g \in Aggregates :
          \/ Admit(s, i, c, a, g)
          \/ guardTool(s, i, c, a, g)
    \/ \E permit \in Permits, s \in sessions, a \in Audiences, i \in Intents,
          effect \in {None, "transform"} :
          ResourceRuns(permit, s, a, i, effect)

Spec == Init /\ [][Next]_vars
-----------------------------------------------------------------------------
\* The step ran something at an audience that keeps to the protocol.
RanHonestly == ran # None /\ ran.audience \notin Rogue

\* The admissions that account for it: of this very permit, for this intent, this
\* audience and in this form.
Admissions ==
    {m \in minted :
        /\ m.outcome.permit = ran.permit
        /\ ran.permit.claims.action = ran.intent
        /\ ran.permit.claims.audience = ran.audience
        /\ m.outcome.decision.effect = ran.effect}

\* A resource that keeps to the protocol, and the guard, run only what the node
\* admitted: this intent, for this audience, in this form, at most the time to
\* live ago.  Permits made by other audiences do not pass (verifyPermitForAction,
\* deriveAudiencePermitKey).
RunsOnlyAdmitted ==
    RanHonestly => \E m \in Admissions : m.at <= now /\ now <= m.at + permitTtlSeconds

\* What runs, runs before the notAfter of evidence that a trusted attester signed
\* for the claims of its session: a permit never outlives the attestation, and a
\* session that establishSession did not make is of no use (checkAttestedSession,
\* the clamp of exp in admit).
AttestationLive ==
    RanHonestly => \E m \in Admissions, e \in Evidences :
        /\ e.claims = m.session.claims
        /\ e.sealed /\ e.attester \in trustedAttesters
        /\ now <= e.claims.notAfter

\* Revocation bites within the time to live: when something runs, no grant of the
\* capability it was admitted under has been revoked for longer than that (the
\* revoked input of admit).
RevocationBites ==
    RanHonestly => \E m \in Admissions :
        LET chain == m.outcome.decision.capability
        IN  \A k \in 1..Len(chain) :
               chain[k].grant \in revoked =>
                   now <= revokedAt[chain[k].grant] + permitTtlSeconds

\* The guard runs a handler of tier 2 or 3 only with a receipt of this intent in
\* the log, and with every obligation that the node does not meet itself
\* discharged by the integrator (guardTool, MCP-OBLIGATION-001).
HighTierControlled ==
    (ran # None /\ ran.via = "guard") =>
        LET tier == tierOf(ran.intent.type)
        IN  /\ tier >= 2 => \E k \in DOMAIN log :
                               log[k].intent = ran.intent /\ log[k].timestamp = now
            /\ tier = 2 => "step-up-approval" \in discharged
            /\ tier = 3 => {"dual-control", "n-of-m-attestation", "all-planes"} \subseteq discharged

\* A receipt names a capability that authorized the intent at the time it states:
\* it verifies, authorizes at every link, and none of its grants was revoked
\* before (RECEIPT-CAP-001).
TruthfulReceipts ==
    \A r \in Range(log) :
        /\ verifyChain(r.capability, trustedRoots)
        /\ \A k \in 1..Len(r.capability) :
              LET g == r.capability[k].grant
              IN  /\ g \in revoked => r.timestamp <= revokedAt[g]
                  /\ \E agg \in Aggregates :
                        authorizesIntent(g, r.intent, [now |-> r.timestamp, tier |-> r.tier,
                                                       observedAggregate |-> agg])

\* Inputs of the kernel about an intent.
Inputs(intent) ==
    [intent : {intent}, capabilities : Presented, now : 0..MaxTime, observedAggregate : Aggregates,
     holder : {m.session.claims.sessionPublicKey : m \in minted}, revoked : SUBSET revoked]

\* Bundles an auditor may be handed: of any such input, of another version of the
\* evaluator, or in an encoding that is not the canonical one.
Bundles(intent) ==
    {[inputBytes |-> [of |-> i, canonical |-> c], evaluatorVersion |-> v] :
        i \in Inputs(intent), c \in BOOLEAN, v \in {evaluatorVersion, "another"}}

\* A receipt can be audited at any later time: after revocations and with the clock
\* moved on, of all the bundles that may be handed in with it, some reproduces both its
\* hashes, and one that does decides as the receipt says, at the time it says, under
\* the pinned version (replay, buildReplayBundle, REPLAY-CANON-001, PS-KERNEL-01).
ReceiptsReplay ==
    ran = None => \A r \in Range(log) :
        LET matching == {b \in Bundles(r.intent) : inputHash(b) = r.inputHash /\ replay(b).receiptHash = r.decisionHash}
        IN  /\ matching # {}
            /\ \A b \in matching :
                  LET p == replay(b)
                  IN  /\ p.decision.effect = r.effect /\ p.decision.tier = r.tier
                      /\ p.decision.capability = r.capability
                      /\ b.inputBytes.of.now = r.timestamp
                      /\ b = buildReplayBundle(b.inputBytes.of)

\* A receipt holds up: what it says was so, and can be shown to have been so later (the
\* receipt of admit, replay).
ReceiptsHold == TruthfulReceipts /\ ReceiptsReplay
=============================================================================
