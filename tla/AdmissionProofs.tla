-------------------------- MODULE AdmissionProofs --------------------------
(***************************************************************************)
(* Admission, for every policy and every set of capabilities, evidence,    *)
(* audiences and revocations: what runs was admitted, is attested and was  *)
(* not revoked for long, and receipts hold up.                             *)
(***************************************************************************)
EXTENDS Admission, TLAPS

USE SMTT(30)

\* The smaller of two integers.
LEMMA MinOfTwo ==
    ASSUME NEW a \in Int, NEW b \in Int
    PROVE  Min({a, b}) \in {a, b} /\ Min({a, b}) <= a /\ Min({a, b}) <= b
<1>1. \E x \in {a, b} : \A y \in {a, b} : x <= y
  <2>1. CASE a <= b
    BY <2>1
  <2>2. CASE b <= a
    BY <2>2
  <2>3. QED
    BY <2>1, <2>2
<1>2. PICK x \in {a, b} : x = Min({a, b}) /\ \A y \in {a, b} : x <= y
  BY <1>1, Zenon DEF Min
<1>3. QED
  BY <1>2

\* Evidence a trusted attester signed for these claims.
Attested(claims) ==
    \E e \in Evidences : e.claims = claims /\ e.sealed /\ e.attester \in trustedAttesters

\* A session that establishSession made.
Established(s) == s.sessionKey = deriveSessionKey(s.claims) /\ Attested(s.claims)

\* What is kept of an admission: its permit is for its audience and its effect, and
\* runs out with the time to live and the attestation; no grant of its capability
\* had been revoked before.
SoundAdmission(m) ==
    LET claims == m.outcome.permit.claims
        d == m.outcome.decision
    IN  /\ m.at \in Nat /\ m.at <= now
        /\ m.outcome.permit.mac = deriveAudiencePermitKey(m.session.sessionKey, claims.audience)
        /\ claims.effect = d.effect
        /\ claims.exp \in Int /\ claims.exp <= m.at + permitTtlSeconds
        /\ requireAttestedSession => /\ Attested(m.session.claims)
                                     /\ m.session.claims.notAfter \in Int
                                     /\ claims.exp <= m.session.claims.notAfter
        /\ \A k \in 1..Len(d.capability) :
              LET g == d.capability[k].grant
              IN  g \in revoked => m.at <= revokedAt[g]

\* What ran at an honest audience has an admission and a permit that has not run out.
SoundRun ==
    /\ RanHonestly => \E m \in Admissions : now <= m.outcome.permit.claims.exp
    /\ HighTierControlled

\* A receipt of an input that the kernel did not deny; what was revoked since was not
\* revoked before.
IsReceiptOf(r, i) ==
    LET d == decideInput(i)
    IN  /\ d.effect # "deny"
        /\ r.effect = d.effect /\ r.tier = d.tier /\ r.capability = d.capability
        /\ r.timestamp = i.now /\ i.now <= now
        /\ r.inputHash = [of |-> i, canonical |-> TRUE]
        /\ r.decisionHash = <<evaluatorVersion, r.inputHash, d>>
        /\ \A g \in revoked : g \notin i.revoked => i.now <= revokedAt[g]

SoundReceipt(r) == \E i \in Inputs(r.intent) : IsReceiptOf(r, i)

\* The inductive invariant.
AdmissionInv ==
    /\ now \in 0..MaxTime
    /\ \A g \in revoked : revokedAt[g] \in Nat
    /\ \A s \in sessions : Established(s)
    /\ \A m \in minted : SoundAdmission(m)
    /\ log \in Seq(Range(log))
    /\ \A r \in Range(log) : SoundReceipt(r)
    /\ SoundRun

\* The clock shows a number.
LEMMA ClockType == AdmissionInv => now \in Nat
<1>1. AdmissionInv => now \in 0..MaxTime
  BY Zenon DEF AdmissionInv
<1>2. QED
  BY <1>1, GovernanceAssumption

\* A tier is one of the four.
LEMMA TierType ==
    ASSUME NEW type
    PROVE  tierOf(type) \in RiskTier
<1> DEFINE rules == policy.tierRules
           first == First({k \in DOMAIN rules : actionMatches(type, rules[k].prefix)})
<1>1. first \subseteq DOMAIN rules
  BY Zenon DEF First
<1>2. first # {} => (CHOOSE k \in first : TRUE) \in DOMAIN rules
  <2> HIDE DEF first
  <2>1. QED
    BY <1>1, Zenon
<1>3. QED
  BY <1>2, KernelAssumption, Zenon DEF tierOf

\* What resolve returns authorizes the intent.
LEMMA ResolveAuthorizes ==
    ASSUME NEW intent, NEW candidates, NEW ctx, NEW R, resolve(intent, candidates, ctx, R) # None
    PROVE  Authorizes(resolve(intent, candidates, ctx, R), intent, trustedRoots, ctx, R)
<1> DEFINE good == {k \in DOMAIN candidates :
                       Authorizes(candidates[k], intent, trustedRoots, ctx, R)}
           first == First(good)
           k == CHOOSE x \in first : TRUE
<1>1. resolve(intent, candidates, ctx, R) = candidates[k] /\ first # {}
  BY Zenon DEF resolve
<1>2. k \in good
  <2>1. first \subseteq good
    BY Zenon DEF First
  <2> HIDE DEF first, good
  <2>2. QED
    BY <1>1, <2>1, Zenon
<1>3. QED
  BY <1>1, <1>2, Zenon

\* The context in which the kernel decides an input.
Context(i) ==
    [now |-> i.now, tier |-> tierOf(i.intent.type), observedAggregate |-> i.observedAggregate,
     holder |-> i.holder]

\* What the kernel does not deny is of the tier of its intent and owes the
\* obligations of the tier, under a capability that authorizes it.
LEMMA DecideFacts ==
    ASSUME NEW i, decideInput(i).effect # "deny"
    PROVE  LET d == decideInput(i)
           IN  /\ d.tier = tierOf(i.intent.type)
               /\ d.obligations = obligationsForTier(d.tier)
               /\ Authorizes(d.capability, i.intent, trustedRoots, Context(i), i.revoked)
<1> DEFINE d == decideInput(i)
           tier == tierOf(i.intent.type)
           cap == resolve(i.intent, i.capabilities, Context(i), i.revoked)
           effect == IF actionInList(i.intent.type, policy.transformActions)
                     THEN "transform" ELSE "allow"
<1>1. \A t : Deny(t).effect = "deny"
  BY DEF Deny
<1>2. d = IF ~isCanonicalActionType(i.intent.type) THEN Deny(3)
          ELSE IF actionInList(i.intent.type, policy.denyActions) \/ cap = None THEN Deny(tier)
          ELSE [effect |-> effect, tier |-> tier, obligations |-> obligationsForTier(tier),
                capability |-> cap]
  BY Zenon DEF decideInput, decide, Context
<1> HIDE DEF d, tier, cap, effect
<1>3. /\ cap # None
      /\ d = [effect |-> effect, tier |-> tier, obligations |-> obligationsForTier(tier),
              capability |-> cap]
  BY <1>1, <1>2 DEF d
<1>4. d.tier = tier /\ d.obligations = obligationsForTier(tier) /\ d.capability = cap
  BY <1>3
<1>5. Authorizes(cap, i.intent, trustedRoots, Context(i), i.revoked)
  BY <1>3, ResolveAuthorizes DEF cap
<1>6. QED
  BY <1>4, <1>5 DEF d, tier

\* The bundle of an input replays to its decision (buildReplayBundle, replay).
LEMMA BundleReplays ==
    ASSUME NEW i
    PROVE  LET b == buildReplayBundle(i)
               h == [of |-> i, canonical |-> TRUE]
           IN  /\ inputHash(b) = h /\ replay(b).inputHash = h
               /\ replay(b).receiptHash = <<evaluatorVersion, h, decideInput(i)>>
BY Zenon DEF buildReplayBundle, inputHash, replay

\* Only that bundle reproduces both hashes of a decision that was not a denial, whatever
\* the encoding or the version of the one handed in.
LEMMA BundleUnique ==
    ASSUME NEW i, decideInput(i).effect # "deny", NEW j, NEW c, NEW v, NEW b,
           b = [inputBytes |-> [of |-> j, canonical |-> c], evaluatorVersion |-> v],
           inputHash(b) = [of |-> i, canonical |-> TRUE],
           replay(b).receiptHash = <<evaluatorVersion, inputHash(b), decideInput(i)>>
    PROVE  b = buildReplayBundle(i) /\ replay(b).decision = decideInput(i)
<1>1. [of |-> j, canonical |-> c] = [of |-> i, canonical |-> TRUE]
  BY Zenon DEF inputHash
<1>2. j = i /\ c = TRUE
  BY <1>1
<1>3. b.inputBytes = [of |-> i, canonical |-> TRUE] /\ b.evaluatorVersion = v
  BY <1>2, Zenon
<1> DEFINE d == IF v = evaluatorVersion THEN decideInput(i) ELSE Deny(3)
<1>4. replay(b).decision = d /\ replay(b).receiptHash = <<evaluatorVersion, inputHash(b), d>>
  BY <1>3, Zenon DEF replay
<1> HIDE DEF d
<1>5. d = decideInput(i)
  BY <1>4
<1>6. v = evaluatorVersion
  BY <1>5 DEF d, Deny
<1>7. QED
  BY <1>2, <1>4, <1>5, <1>6, Zenon DEF buildReplayBundle

\* A permit runs out with the time to live, and with claims that state an end.
LEMMA ExpiryFacts ==
    ASSUME NEW claims, now \in Nat
    PROVE  /\ permitExpiry(claims) \in Int
           /\ permitExpiry(claims) <= now + permitTtlSeconds
           /\ isSafeInteger(claims.notAfter) => permitExpiry(claims) <= claims.notAfter
<1>1. permitTtlSeconds \in Nat
  BY AdmissionAssumption
<1>2. CASE isSafeInteger(claims.notAfter)
  <2> DEFINE a == now + permitTtlSeconds
             b == claims.notAfter
  <2>1. a \in Int /\ b \in Int
    BY <1>1, <1>2 DEF isSafeInteger
  <2>2. permitExpiry(claims) = Min({a, b})
    BY <1>2 DEF permitExpiry
  <2> HIDE DEF a, b
  <2>3. permitExpiry(claims) \in Int /\ permitExpiry(claims) <= a /\ permitExpiry(claims) <= b
    BY <2>1, <2>2, MinOfTwo
  <2>4. QED
    BY <2>3 DEF a, b
<1>3. CASE ~isSafeInteger(claims.notAfter)
  BY <1>1, <1>3 DEF permitExpiry
<1>4. QED
  BY <1>2, <1>3

\* A key names the claims it was derived from.
LEMMA SessionKeyNames ==
    ASSUME NEW c, NEW e, deriveSessionKey(c) = deriveSessionKey(e)
    PROVE  c = e
BY DEF deriveSessionKey

\* A session that passes the check has the claims that were attested.
LEMMA CheckedAttested ==
    ASSUME requireAttestedSession, \A s \in sessions : Established(s),
           NEW s \in CallerSessions, checkAttestedSession(s)
    PROVE  Attested(s.claims) /\ isSafeInteger(s.claims.notAfter)
<1>1. s.sessionKey = deriveSessionKey(s.claims) /\ isSafeInteger(s.claims.notAfter)
  BY DEF checkAttestedSession
<1>2. s \notin OutOfBand
  BY <1>1, RootAssumption
<1>3. CASE s \in sessions
  BY <1>1, <1>3 DEF Established
<1>4. CASE s \notin sessions
  <2>1. PICK t \in sessions : s = [sessionId |-> "relabelled", sessionKey |-> t.sessionKey,
                                   claims |-> Prolonged(t.claims)]
    BY <1>2, <1>4, Zenon DEF CallerSessions
  <2>2. s.sessionKey = deriveSessionKey(t.claims) /\ Attested(t.claims)
    BY <2>1 DEF Established
  <2>3. s.claims = t.claims
    BY <1>1, <2>2, SessionKeyNames, Zenon
  <2>4. QED
    BY <1>1, <2>2, <2>3
<1>5. QED
  BY <1>3, <1>4

\* An admission that is not denied: a session that passed the check, and the
\* decision of the kernel.
LEMMA OutcomeFacts ==
    ASSUME NEW s, NEW i, NEW c, NEW a, NEW g,
           AdmissionOutcome(s, i, c, a, g).permit # None
    PROVE  LET input == KernelInput(s, i, c, g)
               o == AdmissionOutcome(s, i, c, a, g)
               d == decideInput(input)
           IN  /\ checkAttestedSession(s)
               /\ d.effect # "deny"
               /\ o.decision = d
               /\ o.permit = issueBoundPermit(s, i, a, d)
               /\ o.receipt = IF "nearline-receipt" \in d.obligations
                              THEN Receipt(input, d) ELSE None
<1> DEFINE input == KernelInput(s, i, c, g)
           d == admissionDecision(s, i, c, g)
<1>1. \A t : Deny(t).effect = "deny"
  BY Zenon DEF Deny
<1>2. /\ AdmissionOutcome(s, i, c, a, g).decision = d
      /\ AdmissionOutcome(s, i, c, a, g).permit =
            IF d.effect = "deny" THEN None ELSE issueBoundPermit(s, i, a, d)
      /\ AdmissionOutcome(s, i, c, a, g).receipt =
            IF "nearline-receipt" \in d.obligations THEN Receipt(input, d) ELSE None
  BY Zenon DEF AdmissionOutcome
<1>3. d.effect # "deny"
  BY <1>2
<1>4. checkAttestedSession(s) /\ d = decideInput(input)
  BY <1>1, <1>3, Zenon DEF admissionDecision
<1>5. QED
  BY <1>2, <1>3, <1>4

\* The parts of the permit of an admission.
LEMMA PermitFacts ==
    ASSUME NEW s, NEW i, NEW a, NEW d
    PROVE  LET p == issueBoundPermit(s, i, a, d)
           IN  /\ p.mac = deriveAudiencePermitKey(s.sessionKey, a)
               /\ p.claims.audience = a /\ p.claims.action = i
               /\ p.claims.effect = d.effect
               /\ p.claims.exp = permitExpiry(s.claims)
BY DEF issueBoundPermit

\* An admission is sound when it is made.
LEMMA MintSound ==
    ASSUME AdmissionInv, NEW s \in CallerSessions, NEW i, NEW c \in Presented, NEW a, NEW g,
           AdmissionOutcome(s, i, c, a, g).permit # None
    PROVE  SoundAdmission([outcome |-> AdmissionOutcome(s, i, c, a, g), session |-> s, at |-> now])
<1> DEFINE o == AdmissionOutcome(s, i, c, a, g)
           input == KernelInput(s, i, c, g)
           m == [outcome |-> o, session |-> s, at |-> now]
           d == decideInput(input)
<1>1. now \in Nat /\ permitTtlSeconds \in Nat
  BY AdmissionAssumption DEF AdmissionInv
<1>2. /\ checkAttestedSession(s) /\ d.effect # "deny" /\ o.decision = d
      /\ o.permit = issueBoundPermit(s, i, a, d)
  BY OutcomeFacts
<1>3. input.revoked = revoked
  BY Zenon DEF KernelInput
<1> HIDE DEF o, input, d
<1>4. Authorizes(d.capability, input.intent, trustedRoots, Context(input), revoked)
  BY <1>2, <1>3, DecideFacts, Zenon DEF d
<1>5. \A k \in 1..Len(d.capability) : d.capability[k].grant \notin revoked
  BY <1>4, Zenon DEF Authorizes
<1>6. /\ o.permit.mac = deriveAudiencePermitKey(s.sessionKey, o.permit.claims.audience)
      /\ o.permit.claims.effect = d.effect
      /\ o.permit.claims.exp = permitExpiry(s.claims)
  BY <1>2, PermitFacts
<1>7. requireAttestedSession => Attested(s.claims) /\ isSafeInteger(s.claims.notAfter)
  BY <1>2, CheckedAttested, Zenon DEF AdmissionInv
<1>8. /\ o.permit.claims.exp \in Int /\ o.permit.claims.exp <= now + permitTtlSeconds
      /\ requireAttestedSession => /\ s.claims.notAfter \in Int
                                   /\ o.permit.claims.exp <= s.claims.notAfter
  BY <1>1, <1>6, <1>7, ExpiryFacts DEF isSafeInteger
<1>9. m.outcome = o /\ m.session = s /\ m.at = now
  BY Zenon
<1> HIDE DEF m
<1>10. SoundAdmission(m)
  BY <1>1, <1>2, <1>5, <1>6, <1>7, <1>8, <1>9 DEF SoundAdmission
<1>11. QED
  BY <1>10 DEF m, o

\* Time passes and grants are revoked no earlier than now.
Onwards ==
    /\ now \in Nat /\ now' \in Nat /\ now <= now'
    /\ revoked \subseteq revoked'
    /\ minted \subseteq minted'
    /\ \A g \in revoked : revokedAt'[g] = revokedAt[g]
    /\ \A g \in revoked' : g \notin revoked => revokedAt'[g] = now

\* Admissions stay sound.
LEMMA AdmissionStays ==
    ASSUME Onwards, NEW m, SoundAdmission(m)
    PROVE  SoundAdmission(m)'
<1>1. m.at \in Nat /\ m.at <= now'
  BY DEF Onwards, SoundAdmission
<1>2. ASSUME NEW g, g \in revoked', g \in revoked => m.at <= revokedAt[g]
      PROVE  m.at <= revokedAt'[g]
  BY <1>1, <1>2 DEF Onwards, SoundAdmission
<1>3. QED
  BY <1>1, <1>2, Zenon DEF SoundAdmission, Attested

\* Receipts stay sound.
LEMMA ReceiptStays ==
    ASSUME Onwards, NEW r, SoundReceipt(r)
    PROVE  SoundReceipt(r)'
<1>1. PICK i \in Inputs(r.intent) : IsReceiptOf(r, i)
  BY Zenon DEF SoundReceipt
<1>2. i \in Inputs(r.intent)'
  BY DEF Inputs, Onwards
<1>3. i.now <= now'
  <2>1. i.now \in Int
    BY GovernanceAssumption DEF Inputs
  <2>2. i.now <= now
    BY <1>1, Zenon DEF IsReceiptOf
  <2>3. QED
    BY <2>1, <2>2 DEF Onwards
<1>4. \A g \in revoked' : g \notin i.revoked => i.now <= revokedAt'[g]
  BY <1>1 DEF Onwards, IsReceiptOf
<1>5. IsReceiptOf(r, i)'
  BY <1>1, <1>3, <1>4, Zenon DEF IsReceiptOf
<1>6. QED
  BY <1>2, <1>5, Zenon DEF SoundReceipt

\* The log grows by one receipt.
LEMMA LogAppend ==
    ASSUME NEW L, L \in Seq(Range(L)), NEW r
    PROVE  /\ Append(L, r) \in Seq(Range(Append(L, r)))
           /\ Range(Append(L, r)) = Range(L) \cup {r}
<1> DEFINE M == Append(L, r)
<1>1. L \in Seq(Range(L) \cup {r}) /\ Len(L) \in Nat
  <2>1. Range(L) \subseteq Range(L) \cup {r}
    OBVIOUS
  <2>2. QED
    BY <2>1
<1>2. /\ M \in Seq(Range(L) \cup {r}) /\ DOMAIN M = 1..(Len(L) + 1)
      /\ \A k \in 1..Len(L) : M[k] = L[k]
      /\ M[Len(L) + 1] = r
      /\ DOMAIN L = 1..Len(L)
  BY <1>1
<1>3. Range(M) = Range(L) \cup {r}
  <2> HIDE DEF M
  <2>1. ASSUME NEW x \in Range(M) PROVE x \in Range(L) \cup {r}
    BY <1>1, <1>2, <2>1 DEF Range
  <2>2. ASSUME NEW x \in Range(L) PROVE x \in Range(M)
    BY <1>1, <1>2, <2>2 DEF Range
  <2>3. r \in Range(M)
    BY <1>1, <1>2 DEF Range
  <2>4. QED
    BY <2>1, <2>2, <2>3
<1>4. QED
  BY <1>2, <1>3

\* The receipt of an admission is sound when it is logged.
LEMMA NewReceiptSound ==
    ASSUME AdmissionInv, NEW s, NEW i, NEW c \in Presented, NEW g \in Aggregates, NEW m \in minted',
           m.session = s, UNCHANGED <<now, revoked, revokedAt>>,
           NEW input, input = KernelInput(s, i, c, g),
           NEW d, d = decideInput(input), d.effect # "deny",
           NEW r, r = Receipt(input, d)
    PROVE  SoundReceipt(r)' /\ r.intent = i /\ r.timestamp = now
<1>1. /\ input.intent = i /\ input.now = now /\ input.revoked = revoked
  BY DEF KernelInput
<1>2. now \in 0..MaxTime /\ now \in Nat
  BY DEF AdmissionInv
<1>3. input \in Inputs(i)'
  <2>1. s.claims.sessionPublicKey \in {n.session.claims.sessionPublicKey : n \in minted'}
    OBVIOUS
  <2>2. QED
    BY <1>2, <2>1, Zenon DEF Inputs, KernelInput
<1>4. /\ replay(buildReplayBundle(input)).inputHash = [of |-> input, canonical |-> TRUE]
      /\ replay(buildReplayBundle(input)).receiptHash =
            <<evaluatorVersion, [of |-> input, canonical |-> TRUE], d>>
  BY BundleReplays, Zenon
<1>5. /\ r.intent = i /\ r.timestamp = now
      /\ r.effect = d.effect /\ r.tier = d.tier /\ r.capability = d.capability
      /\ r.inputHash = [of |-> input, canonical |-> TRUE]
      /\ r.decisionHash = <<evaluatorVersion, r.inputHash, d>>
  BY <1>1, <1>4, Zenon DEF Receipt
<1>6. SoundReceipt(r)'
  <2>1. input \in Inputs(r.intent)' /\ input.now <= now'
    BY <1>1, <1>2, <1>3, <1>5
  <2>2. \A x \in revoked' : x \notin input.revoked => input.now <= revokedAt'[x]
    BY <1>1
  <2>3. /\ decideInput(input).effect # "deny"
        /\ r.effect = decideInput(input).effect
        /\ r.tier = decideInput(input).tier
        /\ r.capability = decideInput(input).capability
        /\ r.timestamp = input.now
        /\ r.inputHash = [of |-> input, canonical |-> TRUE]
        /\ r.decisionHash = <<evaluatorVersion, r.inputHash, decideInput(input)>>
    BY <1>1, <1>5, Zenon
  <2>4. IsReceiptOf(r, input)'
    BY <2>1, <2>2, <2>3, Zenon DEF IsReceiptOf
  <2>5. QED
    BY <2>1, <2>4, Zenon DEF SoundReceipt
<1>7. QED
  BY <1>5, <1>6, Zenon

\* An admission preserves the part of the invariant that is not about what ran, and
\* leaves its receipt in the log.
LEMMA AdmitSound ==
    ASSUME AdmissionInv, NEW s \in CallerSessions, NEW i, NEW c \in Presented, NEW a,
           NEW g \in Aggregates, admit(s, AdmissionOutcome(s, i, c, a, g))
    PROVE  LET o == AdmissionOutcome(s, i, c, a, g)
               m == [outcome |-> o, session |-> s, at |-> now]
           IN  /\ SoundRun' => AdmissionInv'
               /\ m \in minted' /\ o.permit # None /\ now' = now
               /\ o.receipt # None => \E k \in DOMAIN log' :
                                         log'[k].intent = i /\ log'[k].timestamp = now
<1> DEFINE o == AdmissionOutcome(s, i, c, a, g)
           m == [outcome |-> o, session |-> s, at |-> now]
           input == KernelInput(s, i, c, g)
           d == decideInput(input)
<1>1. /\ o.permit # None
      /\ minted' = minted \cup {m}
      /\ log' = IF o.receipt = None THEN log ELSE Append(log, o.receipt)
      /\ UNCHANGED <<govVars, sessions, revokedAt>>
  BY Zenon DEF admit
<1>2. UNCHANGED <<now, approvals, consents, revoked, sessions, revokedAt>>
  BY <1>1, Zenon DEF govVars
<1>3. SoundAdmission(m)
  BY <1>1, MintSound, Zenon
<1>4. /\ d.effect # "deny"
      /\ o.receipt = IF "nearline-receipt" \in d.obligations THEN Receipt(input, d) ELSE None
  BY <1>1, OutcomeFacts, Zenon
<1>5. m \in minted' /\ m.session = s
  BY <1>1, Zenon
<1> HIDE DEF o, m, input, d
<1>6. Onwards
  BY <1>1, <1>2 DEF Onwards, AdmissionInv
<1>7. now' \in 0..MaxTime
  BY <1>2 DEF AdmissionInv
<1>8. /\ \A x \in revoked' : revokedAt'[x] \in Nat
      /\ \A x \in sessions' : Established(x)
  BY <1>2, Zenon DEF AdmissionInv
<1>9. \A x \in minted' : SoundAdmission(x)'
  BY <1>1, <1>3, <1>6, AdmissionStays DEF AdmissionInv
<1>10. \A r \in Range(log) : SoundReceipt(r)'
  BY <1>6, ReceiptStays DEF AdmissionInv
<1>11. log \in Seq(Range(log))
  BY Zenon DEF AdmissionInv
<1>12. CASE o.receipt = None
  BY <1>1, <1>5, <1>7, <1>8, <1>9, <1>10, <1>11, <1>12, <1>2, Zenon DEF AdmissionInv, o, m
<1>13. CASE o.receipt # None
  <2>1. o.receipt = Receipt(input, d) /\ log' = Append(log, o.receipt)
    BY <1>1, <1>4, <1>13
  <2> PICK r : r = o.receipt
    BY Zenon
  <2>2. SoundReceipt(r)' /\ r.intent = i /\ r.timestamp = now
    <3>1. PICK n : n = m
      OBVIOUS
    <3>2. PICK in : in = input
      OBVIOUS
    <3>3. PICK e : e = d
      OBVIOUS
    <3>4. n \in minted' /\ n.session = s
      BY <1>5, <3>1, Zenon
    <3>5. in = KernelInput(s, i, c, g) /\ e = decideInput(in) /\ e.effect # "deny"
      BY <1>4, <3>2, <3>3 DEF d, input
    <3>6. r = Receipt(in, e)
      BY <2>1, <3>2, <3>3
    <3>7. QED
      BY <1>2, <3>4, <3>5, <3>6, NewReceiptSound
  <2>3. log' \in Seq(Range(log')) /\ Range(log') = Range(log) \cup {r}
    <3>1. log' = Append(log, r)
      BY <2>1
    <3>2. QED
      BY <1>11, <3>1, LogAppend, Zenon
  <2>4. \A x \in Range(log)' : SoundReceipt(x)'
    BY <1>10, <2>2, <2>3
  <2>5. \E k \in DOMAIN log' : log'[k] = r
    BY <2>3, Zenon DEF Range
  <2>6. AdmissionInv' \/ ~SoundRun'
    BY <1>7, <1>8, <1>9, <2>3, <2>4, Zenon DEF AdmissionInv
  <2>7. QED
    BY <1>1, <1>2, <1>5, <2>2, <2>5, <2>6, Zenon DEF o, m
<1>14. QED
  BY <1>12, <1>13, Zenon

\* A step that runs nothing leaves nothing to account for.
LEMMA IdleRun ==
    ASSUME ran' = None
    PROVE  SoundRun'
BY DEF SoundRun, RanHonestly, HighTierControlled

\* The obligations of the higher tiers.
LEMMA HighObligations ==
    /\ {"nearline-receipt", "step-up-approval"} \subseteq obligationsForTier(2)
    /\ {"nearline-receipt", "n-of-m-attestation", "dual-control", "all-planes"}
          \subseteq obligationsForTier(3)
BY DEF obligationsForTier

\* The guard runs a handler only for an admission it has just made, with a permit that
\* has not run out and every obligation of the tier discharged.
LEMMA GuardRuns ==
    ASSUME AdmissionInv, NEW s \in CallerSessions, NEW i, NEW c \in Presented, NEW a,
           NEW g \in Aggregates, guardTool(s, i, c, a, g)
    PROVE  SoundRun'
<1> DEFINE o == AdmissionOutcome(s, i, c, a, g)
           m == [outcome |-> o, session |-> s, at |-> now]
           input == KernelInput(s, i, c, g)
           d == decideInput(input)
           runs == /\ o.decision.effect = "allow"
                   /\ checkPermit(o, s, a, i)
                   /\ \A x \in o.decision.obligations : isDischarged(x, o.receipt)
<1>1. /\ admit(s, o)
      /\ ran' = IF runs THEN Run("guard", o.permit, a, i, "allow") ELSE None
  BY Zenon DEF guardTool
<1>2. CASE ~runs
  BY <1>1, <1>2, IdleRun, Zenon
<1>3. CASE runs
  <2>1. /\ m \in minted' /\ now' = now /\ o.permit # None
        /\ o.receipt # None => \E k \in DOMAIN log' :
                                  log'[k].intent = i /\ log'[k].timestamp = now
    BY <1>1, AdmitSound
  <2>2. /\ ran'.via = "guard" /\ ran'.permit = o.permit /\ ran'.audience = a
        /\ ran'.intent = i /\ ran'.effect = "allow"
    BY <1>1, <1>3, Zenon DEF Run
  <2>3. /\ o.permit.claims.audience = a /\ o.permit.claims.action = i
        /\ now <= o.permit.claims.exp
    BY <1>3, Zenon DEF checkPermit, verifyPermitForAction
  <2>4. m \in Admissions' /\ m.outcome.permit = o.permit
    <3>1. m.outcome = o
      BY Zenon
    <3> HIDE DEF m, o
    <3>2. QED
      BY <1>3, <2>1, <2>2, <2>3, <3>1, Zenon DEF Admissions
  <2>5. d.effect # "deny" /\ o.decision = d
    BY <2>1, OutcomeFacts
  <2>6. d.tier = tierOf(i.type) /\ d.obligations = obligationsForTier(d.tier)
    <3>1. input.intent = i
      BY Zenon DEF KernelInput
    <3> HIDE DEF input
    <3>2. QED
      BY <2>5, <3>1, DecideFacts, Zenon
  <2> HIDE DEF o, m, input, d
  <2>7. \A x \in obligationsForTier(tierOf(i.type)) : isDischarged(x, o.receipt)
    BY <1>3, <2>5, <2>6
  <2>8. HighTierControlled'
    <3>1. tierOf(i.type) \in 0..3
      BY TierType, Zenon DEF RiskTier
    <3>2. CASE tierOf(i.type) = 2
      BY <2>1, <2>2, <2>7, <3>2, HighObligations, Zenon DEF HighTierControlled, isDischarged
    <3>3. CASE tierOf(i.type) = 3
      BY <2>1, <2>2, <2>7, <3>3, HighObligations, Zenon DEF HighTierControlled, isDischarged
    <3>4. CASE tierOf(i.type) < 2
      BY <2>2, <3>1, <3>4 DEF HighTierControlled
    <3>5. QED
      BY <3>1, <3>2, <3>3, <3>4
  <2>9. QED
    BY <2>1, <2>3, <2>4, <2>8, Zenon DEF SoundRun
<1>4. QED
  BY <1>2, <1>3

\* Keys of different audiences differ.
LEMMA AudienceKeyNames ==
    ASSUME NEW k, NEW l, NEW a, NEW b,
           deriveAudiencePermitKey(k, a) = deriveAudiencePermitKey(l, b)
    PROVE  a = b
BY Zenon DEF deriveAudiencePermitKey

\* A resource that keeps to the protocol runs only under a permit the node minted: what
\* other audiences make carries the key of one of them.
LEMMA ResourceRunsSound ==
    ASSUME AdmissionInv, NEW permit \in Permits, NEW s \in sessions, NEW a \in Audiences,
           NEW i \in Intents, NEW effect, ResourceRuns(permit, s, a, i, effect)
    PROVE  SoundRun'
<1> DEFINE e == OrElse(effect, "allow")
<1>1. /\ permit.claims.audience = a /\ permit.claims.action = i /\ now <= permit.claims.exp
      /\ permit.claims.effect = e
      /\ permit.mac = deriveAudiencePermitKey(s.sessionKey, a)
      /\ ran' = Run("resource", permit, a, i, e)
      /\ minted' = minted /\ now' = now
  BY DEF ResourceRuns, verifyPermitForAction, govVars
<1> HIDE DEF e
<1>2. /\ ran'.via = "resource" /\ ran'.permit = permit /\ ran'.audience = a
      /\ ran'.intent = i /\ ran'.effect = e
  BY <1>1, Zenon DEF Run
<1>3. HighTierControlled'
  BY <1>2, Zenon DEF HighTierControlled
<1>4. ASSUME a \notin Rogue PROVE \E m \in Admissions' : now' <= m.outcome.permit.claims.exp
  <2>1. permit \notin MadeByRogues
    <3>1. SUFFICES ASSUME permit \in MadeByRogues PROVE FALSE
      BY Zenon
    <3>2. PICK m \in minted, r \in Rogue, b \in Audiences, j \in Intents :
             permit = [claims |-> Rewritten(m.outcome.permit.claims, b, j),
                       mac |-> deriveAudiencePermitKey(m.session.sessionKey, r)]
      BY <3>1 DEF MadeByRogues
    <3>3. permit.mac = deriveAudiencePermitKey(m.session.sessionKey, r)
      BY <3>2, Zenon
    <3>4. deriveAudiencePermitKey(s.sessionKey, a) = deriveAudiencePermitKey(m.session.sessionKey, r)
      BY <1>1, <3>3
    <3>5. a = r
      BY <3>4, AudienceKeyNames, Zenon
    <3>6. QED
      BY <1>4, <3>5
  <2>2. PICK m \in minted : permit = m.outcome.permit
    BY <2>1, Zenon DEF Permits
  <2>3. m.outcome.decision.effect = e
    BY <1>1, <2>2, Zenon DEF AdmissionInv, SoundAdmission
  <2>4. m \in Admissions'
    BY <1>1, <1>2, <2>2, <2>3 DEF Admissions
  <2>5. QED
    BY <1>1, <2>2, <2>4
<1>5. QED
  BY <1>2, <1>3, <1>4, Zenon DEF SoundRun, RanHonestly

\* The initial state satisfies the invariant.
LEMMA AdmissionInitInv == Init => AdmissionInv
<1> SUFFICES ASSUME Init PROVE AdmissionInv
  OBVIOUS
<1>1. now \in 0..MaxTime /\ revoked = {}
  BY GovernanceAssumption DEF Init, GovInit
<1>2. SoundRun
  BY DEF Init, SoundRun, RanHonestly, HighTierControlled
<1>3. log \in Seq(Range(log)) /\ Range(log) = {}
  BY DEF Init, Range
<1>4. QED
  BY <1>1, <1>2, <1>3 DEF Init, AdmissionInv

\* A step of governance: time passes or a grant is revoked, as of now.
LEMMA GovernInv ==
    ASSUME AdmissionInv, Govern
    PROVE  AdmissionInv'
<1>1. /\ revokedAt' = [g \in revoked' |-> IF g \in revoked THEN revokedAt[g] ELSE now]
      /\ ran' = None /\ UNCHANGED <<sessions, minted, log>>
  BY DEF Govern
<1>2. now' \in 0..MaxTime /\ now <= now' /\ revoked \subseteq revoked'
  <2>1. GovNext /\ now \in 0..MaxTime /\ MaxTime \in Nat
    BY GovernanceAssumption, Zenon DEF Govern, AdmissionInv
  <2>2. ASSUME NEW p \in Proposals, enactRevocation(p) PROVE now' = now /\ revoked \subseteq revoked'
    BY <2>2, Zenon DEF enactRevocation
  <2>3. ASSUME NEW m \in members, NEW p \in Proposals, Approve(m, p)
        PROVE  now' = now /\ revoked' = revoked
    BY <2>3 DEF Approve
  <2>4. ASSUME NEW p \in Proposals, NEW a \in Approval, Stray(p, a)
        PROVE  now' = now /\ revoked' = revoked
    BY <2>4 DEF Stray
  <2>5. CASE Tick
    BY <2>1, <2>5 DEF Tick
  <2>6. QED
    BY <2>1, <2>2, <2>3, <2>4, <2>5 DEF GovNext
<1>3. Onwards
  BY <1>1, <1>2 DEF Onwards, AdmissionInv
<1>4. \A g \in revoked' : revokedAt'[g] \in Nat
  BY <1>1, <1>3, Zenon DEF Onwards, AdmissionInv
<1>5. \A m \in minted' : SoundAdmission(m)'
  BY <1>1, <1>3, AdmissionStays, Zenon DEF AdmissionInv
<1>6. \A r \in Range(log)' : SoundReceipt(r)'
  BY <1>1, <1>3, ReceiptStays DEF AdmissionInv
<1>7. SoundRun'
  BY <1>1, IdleRun, Zenon
<1>8. QED
  BY <1>1, <1>2, <1>4, <1>5, <1>6, <1>7, Zenon DEF AdmissionInv

\* Nothing but a session or what ran changes.
LEMMA FrameInv ==
    ASSUME AdmissionInv, UNCHANGED <<govVars, minted, log, revokedAt>>,
           \A s \in sessions' : Established(s), SoundRun'
    PROVE  AdmissionInv'
<1>1. now' \in 0..MaxTime
  BY DEF AdmissionInv, govVars
<1>2. UNCHANGED <<now, revoked, minted, log, revokedAt>>
  BY Zenon DEF govVars
<1>3. Onwards
  BY <1>2 DEF Onwards, AdmissionInv
<1>4. \A m \in minted' : SoundAdmission(m)'
  BY <1>2, <1>3, AdmissionStays, Zenon DEF AdmissionInv
<1>5. \A r \in Range(log)' : SoundReceipt(r)'
  BY <1>2, <1>3, ReceiptStays, Zenon DEF AdmissionInv
<1>6. QED
  BY <1>1, <1>2, <1>4, <1>5, Zenon DEF AdmissionInv

\* Every step preserves the invariant.
LEMMA AdmissionNextInv == AdmissionInv /\ [Next]_vars => AdmissionInv'
<1> SUFFICES ASSUME AdmissionInv, [Next]_vars PROVE AdmissionInv'
  OBVIOUS
<1>1. CASE Govern
  BY <1>1, GovernInv, Zenon
<1>2. ASSUME NEW e \in Evidences, NEW n \in Nonces, establishSession(e, n) PROVE AdmissionInv'
  <2> DEFINE s == [sessionId |-> e.claims.sessionId, sessionKey |-> deriveSessionKey(e.claims),
                   claims |-> e.claims]
  <2>1. /\ e.sealed /\ e.attester \in trustedAttesters
        /\ sessions' = sessions \cup {s}
        /\ ran' = None /\ UNCHANGED <<govVars, minted, log, revokedAt>>
    BY <1>2, Zenon DEF establishSession, appraise
  <2>2. Established(s)
    BY <2>1, Zenon DEF Established, Attested
  <2>3. \A t \in sessions' : Established(t)
    <3> HIDE DEF s
    <3>1. QED
      BY <2>1, <2>2 DEF AdmissionInv
  <2>4. QED
    BY <2>1, <2>3, IdleRun, FrameInv, Zenon
<1>3. ASSUME NEW s \in CallerSessions, NEW i \in Intents, NEW c \in Presented,
             NEW a \in Audiences, NEW g \in Aggregates, Admit(s, i, c, a, g)
      PROVE  AdmissionInv'
  <2>1. admit(s, AdmissionOutcome(s, i, c, a, g)) /\ ran' = None
    BY <1>3, Zenon DEF Admit
  <2>2. QED
    BY <2>1, IdleRun, AdmitSound, Zenon
<1>4. ASSUME NEW s \in CallerSessions, NEW i \in Intents, NEW c \in Presented,
             NEW a \in Audiences, NEW g \in Aggregates, guardTool(s, i, c, a, g)
      PROVE  AdmissionInv'
  <2>1. admit(s, AdmissionOutcome(s, i, c, a, g))
    BY <1>4, Zenon DEF guardTool
  <2>2. QED
    BY <1>4, <2>1, GuardRuns, AdmitSound, Zenon
<1>5. ASSUME NEW permit \in Permits, NEW s \in sessions, NEW a \in Audiences, NEW i \in Intents,
             NEW effect \in {None, "transform"}, ResourceRuns(permit, s, a, i, effect)
      PROVE  AdmissionInv'
  <2>1. UNCHANGED <<govVars, sessions, minted, log, revokedAt>>
    BY <1>5, Zenon DEF ResourceRuns
  <2>2. QED
    BY <1>5, <2>1, ResourceRunsSound, FrameInv, Zenon DEF AdmissionInv
<1>6. CASE UNCHANGED vars
  <2>1. UNCHANGED <<govVars, sessions, minted, log, ran, revokedAt>>
    BY <1>6, Zenon DEF vars
  <2>2. SoundRun'
    BY <2>1 DEF AdmissionInv, SoundRun, RanHonestly, Admissions, HighTierControlled, govVars
  <2>3. QED
    BY <2>1, <2>2, FrameInv DEF AdmissionInv
<1>7. QED
  BY <1>1, <1>2, <1>3, <1>4, <1>5, <1>6 DEF Next

\* The inductive invariant of admission holds in every reachable state.
THEOREM AdmissionInvariance == Spec => []AdmissionInv
BY AdmissionInitInv, AdmissionNextInv, PTL DEF Spec

\* What runs at an honest audience has a sound admission and a permit that has not
\* run out.
LEMMA RunAccounted ==
    ASSUME AdmissionInv, RanHonestly
    PROVE  \E m \in Admissions : SoundAdmission(m) /\ now <= m.outcome.permit.claims.exp
<1>1. PICK m \in Admissions : now <= m.outcome.permit.claims.exp
  BY Zenon DEF AdmissionInv, SoundRun
<1>2. SoundAdmission(m)
  BY <1>1, Zenon DEF AdmissionInv, Admissions
<1>3. QED
  BY <1>1, <1>2, Zenon

\* Such an admission was made, and its permit runs out, no later than the time to live.
LEMMA AdmittedLately ==
    ASSUME now \in Nat, NEW m, SoundAdmission(m), now <= m.outcome.permit.claims.exp
    PROVE  m.at \in Nat /\ m.at <= now /\ now <= m.at + permitTtlSeconds
<1> DEFINE exp == m.outcome.permit.claims.exp
<1>1. /\ m.at \in Nat /\ m.at <= now
      /\ exp \in Int /\ exp <= m.at + permitTtlSeconds
  BY Zenon DEF SoundAdmission
<1> HIDE DEF exp
<1>2. now <= exp /\ permitTtlSeconds \in Nat
  BY AdmissionAssumption, Zenon DEF exp
<1>3. QED
  BY <1>1, <1>2

\* What runs was admitted at most the time to live ago, for this intent, audience and
\* effect, whatever permits other audiences make (verifyPermitForAction,
\* deriveAudiencePermitKey, permitExpiry).
THEOREM OnlyAdmittedRuns == Spec => []RunsOnlyAdmitted
<1>1. AdmissionInv => RunsOnlyAdmitted
  <2> SUFFICES ASSUME AdmissionInv, RanHonestly
               PROVE  \E m \in Admissions : m.at <= now /\ now <= m.at + permitTtlSeconds
    BY Zenon DEF RunsOnlyAdmitted
  <2>1. PICK m \in Admissions : SoundAdmission(m) /\ now <= m.outcome.permit.claims.exp
    BY RunAccounted, Zenon
  <2>2. now \in Nat
    BY ClockType
  <2>3. QED
    BY <2>1, <2>2, AdmittedLately, Zenon
<1>2. QED
  BY AdmissionInvariance, <1>1, PTL

\* On a node that requires attested sessions, what runs, runs while evidence of a
\* trusted attester for its session is live (checkAttestedSession, the clamp of
\* permitExpiry).  Without the option the code promises no such thing.
THEOREM AttestedRuns == requireAttestedSession => (Spec => []AttestationLive)
<1> SUFFICES ASSUME requireAttestedSession PROVE Spec => []AttestationLive
  OBVIOUS
<1>1. AdmissionInv => AttestationLive
  <2> SUFFICES ASSUME AdmissionInv, RanHonestly
               PROVE  \E m \in Admissions, e \in Evidences :
                         /\ e.claims = m.session.claims
                         /\ e.sealed /\ e.attester \in trustedAttesters
                         /\ now <= e.claims.notAfter
    BY Zenon DEF AttestationLive
  <2>1. PICK m \in Admissions : SoundAdmission(m) /\ now <= m.outcome.permit.claims.exp
    BY RunAccounted, Zenon
  <2> DEFINE exp == m.outcome.permit.claims.exp
             end == m.session.claims.notAfter
  <2>2. exp \in Int /\ end \in Int /\ exp <= end /\ Attested(m.session.claims)
    BY <2>1, Zenon DEF SoundAdmission
  <2>3. PICK e \in Evidences : /\ e.claims = m.session.claims
                               /\ e.sealed /\ e.attester \in trustedAttesters
    BY <2>2, Zenon DEF Attested
  <2>4. now <= end
    <3>1. now \in Nat /\ now <= exp
      BY <2>1, ClockType, Zenon
    <3> HIDE DEF exp, end
    <3>2. QED
      BY <2>2, <3>1
  <2>5. QED
    BY <2>1, <2>3, <2>4, Zenon
<1>2. QED
  BY AdmissionInvariance, <1>1, PTL

\* A grant that has been revoked for longer than the time to live runs nothing (the
\* revoked input of admit, permitExpiry).
THEOREM RevocationTakesEffect == Spec => []RevocationBites
<1>1. AdmissionInv => RevocationBites
  <2> SUFFICES ASSUME AdmissionInv, RanHonestly
               PROVE  \E m \in Admissions :
                         \A k \in 1..Len(m.outcome.decision.capability) :
                            m.outcome.decision.capability[k].grant \in revoked =>
                               now <= revokedAt[m.outcome.decision.capability[k].grant]
                                         + permitTtlSeconds
    BY Zenon DEF RevocationBites
  <2>1. PICK m \in Admissions : SoundAdmission(m) /\ now <= m.outcome.permit.claims.exp
    BY RunAccounted, Zenon
  <2>2. now \in Nat /\ permitTtlSeconds \in Nat
    BY ClockType, AdmissionAssumption, Zenon
  <2>3. m.at \in Nat /\ now <= m.at + permitTtlSeconds
    BY <2>1, <2>2, AdmittedLately, Zenon
  <2>4. ASSUME NEW g \in revoked, m.at <= revokedAt[g]
        PROVE  now <= revokedAt[g] + permitTtlSeconds
    <3>1. revokedAt[g] \in Nat
      BY Zenon DEF AdmissionInv
    <3>2. QED
      BY <2>2, <2>3, <2>4, <3>1
  <2>5. \A k \in 1..Len(m.outcome.decision.capability) :
           m.outcome.decision.capability[k].grant \in revoked =>
              m.at <= revokedAt[m.outcome.decision.capability[k].grant]
    BY <2>1, Zenon DEF SoundAdmission
  <2>6. QED
    BY <2>1, <2>4, <2>5, Zenon
<1>2. QED
  BY AdmissionInvariance, <1>1, PTL

\* The guard runs a handler of a high tier only with its receipt logged and its
\* obligations discharged (guardTool, isDischarged).
THEOREM GuardControls == Spec => []HighTierControlled
<1>1. AdmissionInv => HighTierControlled
  BY Zenon DEF AdmissionInv, SoundRun
<1>2. QED
  BY AdmissionInvariance, <1>1, PTL

\* The capability a sound receipt names authorized the intent when it says.
LEMMA ReceiptTruthful == AdmissionInv => TruthfulReceipts
<1> SUFFICES ASSUME AdmissionInv, NEW r \in Range(log)
             PROVE  /\ verifyChain(r.capability, trustedRoots)
                    /\ \A k \in 1..Len(r.capability) :
                          LET g == r.capability[k].grant
                          IN  /\ g \in revoked => r.timestamp <= revokedAt[g]
                              /\ \E agg \in Aggregates :
                                    authorizesIntent(g, r.intent,
                                       [now |-> r.timestamp, tier |-> r.tier,
                                        observedAggregate |-> agg])
  BY DEF TruthfulReceipts
<1>1. PICK i \in Inputs(r.intent) : IsReceiptOf(r, i)
  BY Zenon DEF AdmissionInv, SoundReceipt
<1>a. /\ decideInput(i).effect # "deny"
      /\ r.tier = decideInput(i).tier /\ r.capability = decideInput(i).capability
      /\ r.timestamp = i.now
      /\ \A g \in revoked : g \notin i.revoked => r.timestamp <= revokedAt[g]
  BY <1>1, Zenon DEF IsReceiptOf
<1>2. i.intent = r.intent /\ i.observedAggregate \in Aggregates
  BY DEF Inputs
<1>3. /\ r.tier = tierOf(i.intent.type)
      /\ Authorizes(r.capability, r.intent, trustedRoots, Context(i), i.revoked)
  BY <1>a, <1>2, DecideFacts, Zenon
<1>4. verifyChain(r.capability, trustedRoots)
  BY <1>3, Zenon DEF Authorizes
<1>5. ASSUME NEW k \in 1..Len(r.capability)
      PROVE  /\ r.capability[k].grant \in revoked => r.timestamp <= revokedAt[r.capability[k].grant]
             /\ \E agg \in Aggregates :
                   authorizesIntent(r.capability[k].grant, r.intent,
                      [now |-> r.timestamp, tier |-> r.tier, observedAggregate |-> agg])
  <2> DEFINE g == r.capability[k].grant
             ctx == [now |-> r.timestamp, tier |-> r.tier,
                     observedAggregate |-> i.observedAggregate]
  <2>1. g \notin i.revoked /\ authorizesIntent(g, r.intent, Context(i))
    BY <1>3, <1>5 DEF Authorizes
  <2>2. /\ ctx.now = Context(i).now /\ ctx.tier = Context(i).tier
        /\ ctx.observedAggregate = Context(i).observedAggregate
    BY <1>a, <1>3, Zenon DEF Context
  <2> HIDE DEF g, ctx
  <2>3. authorizesIntent(g, r.intent, ctx)
    BY <2>1, <2>2, Zenon DEF authorizesIntent
  <2>4. g \in revoked => r.timestamp <= revokedAt[g]
    BY <1>a, <2>1, Zenon
  <2>5. QED
    BY <1>2, <2>3, <2>4, Zenon DEF g, ctx
<1>6. QED
  BY <1>4, <1>5, Zenon

\* Of the bundles handed in with a sound receipt, those that reproduce its hashes decide
\* as it says, and the bundle of its own input is one of them.
LEMMA ReceiptReplays == AdmissionInv => ReceiptsReplay
<1> DEFINE Matches(b, r) == inputHash(b) = r.inputHash /\ replay(b).receiptHash = r.decisionHash
           Shows(b, r) == /\ replay(b).decision.effect = r.effect
                          /\ replay(b).decision.tier = r.tier
                          /\ replay(b).decision.capability = r.capability
                          /\ b.inputBytes.of.now = r.timestamp
                          /\ b = buildReplayBundle(b.inputBytes.of)
<1> SUFFICES ASSUME AdmissionInv, NEW r \in Range(log)
             PROVE  /\ \E b \in Bundles(r.intent) : Matches(b, r)
                    /\ \A b \in Bundles(r.intent) : Matches(b, r) => Shows(b, r)
  BY Zenon DEF ReceiptsReplay
<1>1. PICK i \in Inputs(r.intent) : IsReceiptOf(r, i)
  BY Zenon DEF AdmissionInv, SoundReceipt
<1> DEFINE d == decideInput(i)
           h == [of |-> i, canonical |-> TRUE]
<1>2. /\ d.effect # "deny" /\ r.timestamp = i.now
      /\ r.effect = d.effect /\ r.tier = d.tier /\ r.capability = d.capability
      /\ r.inputHash = h /\ r.decisionHash = <<evaluatorVersion, r.inputHash, d>>
  BY <1>1, Zenon DEF IsReceiptOf
<1>3. \E b \in Bundles(r.intent) : Matches(b, r)
  <2>1. buildReplayBundle(i) \in Bundles(r.intent)
    <3>1. evaluatorVersion \in {evaluatorVersion, "another"} /\ TRUE \in BOOLEAN
      OBVIOUS
    <3>2. \E j \in Inputs(r.intent), c \in BOOLEAN, v \in {evaluatorVersion, "another"} :
             buildReplayBundle(i) = [inputBytes |-> [of |-> j, canonical |-> c],
                                     evaluatorVersion |-> v]
      BY <3>1, Zenon DEF buildReplayBundle
    <3>3. QED
      BY <3>2 DEF Bundles
  <2>2. Matches(buildReplayBundle(i), r)
    BY <1>2, BundleReplays, Zenon
  <2>3. QED
    BY <2>1, <2>2, Zenon
<1>4. ASSUME NEW b \in Bundles(r.intent), Matches(b, r) PROVE Shows(b, r)
  <2>1. PICK j \in Inputs(r.intent), c \in BOOLEAN, v \in {evaluatorVersion, "another"} :
           b = [inputBytes |-> [of |-> j, canonical |-> c], evaluatorVersion |-> v]
    BY DEF Bundles
  <2>2. b = buildReplayBundle(i) /\ replay(b).decision = d
    <3>1. /\ inputHash(b) = h
          /\ replay(b).receiptHash = <<evaluatorVersion, inputHash(b), d>>
      BY <1>2, <1>4, Zenon
    <3>2. QED
      BY <1>2, <2>1, <3>1, BundleUnique
  <2>3. b.inputBytes.of = i
    BY <2>2, Zenon DEF buildReplayBundle
  <2>4. QED
    BY <1>2, <2>2, <2>3, Zenon
<1>5. QED
  BY <1>3, <1>4, Zenon

\* Receipts hold up: what one says was so, and can be replayed at any later time
\* (the receipt of admit, replay, buildReplayBundle).
THEOREM ReceiptsSound == Spec => []ReceiptsHold
<1>1. AdmissionInv => ReceiptsHold
  BY ReceiptTruthful, ReceiptReplays DEF ReceiptsHold
<1>2. QED
  BY AdmissionInvariance, <1>1, PTL
=============================================================================
