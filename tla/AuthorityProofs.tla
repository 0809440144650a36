--------------------------- MODULE AuthorityProofs --------------------------
(***************************************************************************)
(* Who gets to decide what, for every set of keys, grants, proposals and   *)
(* evidence: attenuation never amplifies, for all chains of capabilities   *)
(* anybody can put together; enact counts the consent of distinct members; *)
(* and a quorum of evidence holds for as long as it says.                  *)
(***************************************************************************)
EXTENDS Delegation, Governance, EvidenceQuorum, SequenceTheorems, FiniteSetTheorems, TLAPS

(***************************************************************************)
(* Delegation.                                                             *)
(***************************************************************************)

\* A grant that narrows another authorizes nothing the other does not.
LEMMA NarrowsAuthorizes ==
    ASSUME NEW child, NEW parent, NEW intent, NEW ctx,
           Narrows(child, parent), authorizesIntent(child, intent, ctx)
    PROVE  authorizesIntent(parent, intent, ctx)
<1> DEFINE amount == IF intent.amount = None THEN 0 ELSE intent.amount
<1> USE CapabilityAssumption DEF isSafeInteger, isCount
<1>1. amount \in Int /\ amount >= 0
  BY DEF authorizesIntent
<1>2. /\ intent.type \in parent.actions
      /\ isSafeInteger(ctx.now)
      /\ isSafeInteger(parent.notBefore) /\ isSafeInteger(parent.notAfter)
      /\ parent.notBefore <= ctx.now /\ ctx.now <= parent.notAfter
  BY DEF authorizesIntent, Narrows, isWellFormedGrantNumerics
<1>3. isCount(ctx.tier) /\ isCount(parent.maxTier) /\ ctx.tier <= parent.maxTier
  BY DEF authorizesIntent, Narrows, isWellFormedGrantNumerics
<1>4. parent.counterparties # None =>
         intent.counterparty # None /\ intent.counterparty \in parent.counterparties
  BY Zenon DEF authorizesIntent, Narrows, setNarrows
<1>5. parent.perActionCeiling # None =>
         isCount(parent.perActionCeiling) /\ amount <= parent.perActionCeiling
  BY <1>1 DEF authorizesIntent, Narrows, isWellFormedGrantNumerics, ceilingNarrows
<1>6. parent.aggregateCap # None =>
         isCount(parent.aggregateCap) /\ ctx.observedAggregate + amount <= parent.aggregateCap
  BY <1>1 DEF authorizesIntent, Narrows, isWellFormedGrantNumerics, ceilingNarrows
<1>7. (intent.amount # None => isCount(intent.amount)) /\ isCount(ctx.observedAggregate)
  BY Zenon DEF authorizesIntent
<1>8. QED
  BY <1>2, <1>3, <1>4, <1>5, <1>6, <1>7 DEF authorizesIntent

\* Narrowing composes, on every dimension.
LEMMA NarrowsTransitive ==
    ASSUME NEW a, NEW b, NEW c, Narrows(a, b), Narrows(b, c)
    PROVE  Narrows(a, c)
<1> USE CapabilityAssumption DEF isSafeInteger, isCount
<1>1. isWellFormedGrantNumerics(a) /\ isWellFormedGrantNumerics(b) /\ isWellFormedGrantNumerics(c)
  BY Zenon DEF Narrows
<1>2. ceilingNarrows(a.perActionCeiling, c.perActionCeiling)
  BY <1>1 DEF Narrows, ceilingNarrows, isWellFormedGrantNumerics
<1>3. ceilingNarrows(a.aggregateCap, c.aggregateCap)
  BY <1>1 DEF Narrows, ceilingNarrows, isWellFormedGrantNumerics
<1>4. setNarrows(a.counterparties, c.counterparties)
  BY Zenon DEF Narrows, setNarrows
<1>5. a.maxTier <= c.maxTier /\ a.notBefore >= c.notBefore /\ a.notAfter <= c.notAfter
  BY <1>1 DEF Narrows, isWellFormedGrantNumerics
<1>6. a.actions \subseteq c.actions /\ (a.delegable => c.delegable)
  BY Zenon DEF Narrows
<1>7. QED
  BY <1>1, <1>2, <1>3, <1>4, <1>5, <1>6, Zenon DEF Narrows

\* minNullable returns a ceiling within its second argument, or NaN.
LEMMA MinNullableNarrows ==
    ASSUME NEW a, NEW b,
           b # None => b \in Int,
           minNullable(a, b) # None => minNullable(a, b) \in Int
    PROVE  ceilingNarrows(minNullable(a, b), b)
<1> USE CapabilityAssumption DEF isSafeInteger, minNullable, MinNumber, ceilingNarrows
<1>1. CASE b = None
  BY <1>1
<1>2. CASE b # None /\ a = None
  BY <1>2
<1>3. CASE b # None /\ a # None /\ a \in Int
  BY <1>3
<1>4. CASE b # None /\ a # None /\ a \notin Int
  BY <1>4, Zenon
<1>5. QED
  BY <1>1, <1>2, <1>3, <1>4, Zenon

\* narrow keeps its promise ("guaranteed" to be within its parent): whatever is
\* asked for, a result with well-formed numbers is within a well-formed parent.
\* The check attenuate makes after calling it can fail on malformed numbers only.
THEOREM NarrowNarrows ==
    ASSUME NEW parent, NEW r, NEW issuer, NEW subject, NEW Parties,
           None \notin SUBSET Parties,
           parent.counterparties # None => parent.counterparties \subseteq Parties,
           parent.delegable \in BOOLEAN,
           isWellFormedGrantNumerics(parent),
           isWellFormedGrantNumerics(narrow(parent, r, issuer, subject))
    PROVE  Narrows(narrow(parent, r, issuer, subject), parent)
<1> DEFINE child == narrow(parent, r, issuer, subject)
<1> USE CapabilityAssumption DEF isSafeInteger, isCount
<1>1. child.actions \subseteq parent.actions
  BY Zenon DEF narrow
<1>2. ceilingNarrows(child.perActionCeiling, parent.perActionCeiling)
  <2>1. child.perActionCeiling = minNullable(r.perActionCeiling, parent.perActionCeiling)
    BY Zenon DEF narrow
  <2>2. QED
    BY <2>1, MinNullableNarrows, Zenon DEF isWellFormedGrantNumerics
<1>3. ceilingNarrows(child.aggregateCap, parent.aggregateCap)
  <2>1. child.aggregateCap = minNullable(r.aggregateCap, parent.aggregateCap)
    BY DEF narrow
  <2>2. QED
    BY <2>1, MinNullableNarrows, Zenon DEF isWellFormedGrantNumerics
<1>4. setNarrows(child.counterparties, parent.counterparties)
  <2>1. child.counterparties = IF r.counterparties = None THEN parent.counterparties
                               ELSE IF parent.counterparties = None THEN r.counterparties
                               ELSE r.counterparties \cap parent.counterparties
    BY DEF narrow
  <2>2. parent.counterparties # None => r.counterparties \cap parent.counterparties \in SUBSET Parties
    BY Zenon
  <2>3. QED
    BY <2>1, <2>2, Zenon DEF setNarrows
<1>5. child.maxTier <= parent.maxTier
  <2>1. child.maxTier = MinNumber(OrElse(r.maxTier, parent.maxTier), parent.maxTier)
    BY Zenon DEF narrow
  <2>2. QED
    BY <2>1 DEF MinNumber, isWellFormedGrantNumerics
<1>6. child.notBefore >= parent.notBefore
  <2>1. child.notBefore = MaxNumber(OrElse(r.notBefore, parent.notBefore), parent.notBefore)
    BY Zenon DEF narrow
  <2>2. QED
    BY <2>1 DEF MaxNumber, isWellFormedGrantNumerics
<1>7. child.notAfter <= parent.notAfter
  <2>1. child.notAfter = MinNumber(OrElse(r.notAfter, parent.notAfter), parent.notAfter)
    BY Zenon DEF narrow
  <2>2. QED
    BY <2>1 DEF MinNumber, isWellFormedGrantNumerics
<1>8. child.delegable => parent.delegable
  BY DEF narrow
<1>9. QED
  BY <1>1, <1>2, <1>3, <1>4, <1>5, <1>6, <1>7, <1>8 DEF Narrows

\* What verifyChain accepts it accepts without its last link, and the last link
\* attenuates the one before.
LEMMA PrefixVerifies ==
    ASSUME NEW S, NEW c \in Seq(S) \ {<<>>}, NEW l \in S,
           verifyChain(Append(c, l), Authorities)
    PROVE  /\ verifyChain(c, Authorities)
           /\ isAttenuationOf(l.grant, tail(c).grant)
           /\ l.signer = tail(c).grant.subject
           /\ l.sealed
<1> DEFINE d == Append(c, l)
           n == Len(c)
<1>1. /\ n \in Nat /\ n >= 1
      /\ Len(d) = n + 1
      /\ d[n + 1] = l
      /\ \A i \in 1..n : d[i] = c[i]
  BY AppendProperties, EmptySeq, LenProperties
<1> HIDE DEF d
<1>2. verifyChain(d, Authorities)
  BY Zenon DEF d
<1>3. n \in 1..MAX_CHAIN_LINKS
  BY <1>1, <1>2, CapabilityAssumption DEF verifyChain
<1>4. verifyChain(c, Authorities)
  <2> SUFFICES ASSUME NEW i \in 1..n
               PROVE  /\ c[i].suite \in ActiveSuites
                      /\ c[i].suite = c[1].suite
                      /\ c[i].grant.issuer = c[i].signer
                      /\ c[i].sealed
                      /\ i = 1 => c[i].signer \in Authorities
                      /\ i > 1 => /\ c[i - 1].grant.delegable
                                  /\ c[i].signer = c[i - 1].grant.subject
                                  /\ isAttenuationOf(c[i].grant, c[i - 1].grant)
    BY <1>3, Zenon DEF verifyChain
  <2>1. d[i] = c[i] /\ d[1] = c[1] /\ (i > 1 => d[i - 1] = c[i - 1]) /\ i \in 1..Len(d)
    BY <1>1
  <2>2. QED
    BY <1>2, <2>1 DEF verifyChain
<1>5. /\ isAttenuationOf(l.grant, tail(c).grant)
      /\ l.signer = tail(c).grant.subject
      /\ l.sealed
  <2>1. n + 1 \in 1..Len(d) /\ n + 1 > 1 /\ (n + 1) - 1 = n /\ d[n] = c[n]
    BY <1>1
  <2>2. isAttenuationOf(d[n + 1].grant, d[(n + 1) - 1].grant)
        /\ d[n + 1].signer = d[(n + 1) - 1].grant.subject /\ d[n + 1].sealed
    BY <1>2, <2>1, Zenon DEF verifyChain
  <2>3. QED
    BY <1>1, <2>1, <2>2, Zenon DEF tail
<1>6. QED
  BY <1>4, <1>5, Zenon

\* One more link keeps the tail of a verified chain within every grant above it.
LEMMA ExtendNarrows ==
    ASSUME NEW S, NEW c \in Seq(S) \ {<<>>}, NEW l \in S,
           verifyChain(c, Authorities) =>
              \A k \in 1..(Len(c) - 1) : Narrows(effectiveGrant(c), c[k].grant),
           verifyChain(Append(c, l), Authorities)
    PROVE  \A k \in 1..(Len(Append(c, l)) - 1) :
              Narrows(effectiveGrant(Append(c, l)), Append(c, l)[k].grant)
<1> DEFINE d == Append(c, l)
           n == Len(c)
<1>1. /\ n \in Nat /\ n >= 1
      /\ Len(d) = n + 1
      /\ d[n + 1] = l
      /\ \A i \in 1..n : d[i] = c[i]
  BY AppendProperties, EmptySeq, LenProperties
<1>2. /\ verifyChain(c, Authorities)
      /\ Narrows(l.grant, effectiveGrant(c))
  BY PrefixVerifies DEF isAttenuationOf, effectiveGrant
<1>3. effectiveGrant(d) = l.grant /\ effectiveGrant(c) = c[n].grant
  BY <1>1 DEF effectiveGrant, tail
<1> HIDE DEF d
<1> SUFFICES ASSUME NEW k \in 1..(Len(d) - 1)
             PROVE  Narrows(effectiveGrant(d), d[k].grant)
  BY DEF d
<1>4. k \in 1..n /\ d[k] = c[k]
  BY <1>1
<1>5. CASE k = n
  BY <1>2, <1>3, <1>4, <1>5, Zenon
<1>6. CASE k # n
  <2>1. k \in 1..(n - 1)
    BY <1>1, <1>4, <1>6
  <2>2. Narrows(effectiveGrant(c), c[k].grant)
    BY <1>2, <2>1, Zenon
  <2>3. QED
    BY <1>2, <1>3, <1>4, <2>2, NarrowsTransitive, Zenon
<1>7. QED
  BY <1>5, <1>6, Zenon

\* attenuate on a verified chain gives a verified chain, up to the length limit.
LEMMA AttenuateVerifies ==
    ASSUME NEW S, NEW c \in Seq(S) \ {<<>>}, NEW child, NEW delegator,
           SignedLink(child, tail(c).suite) \in S,
           CanAttenuate(c, child, delegator),
           verifyChain(c, Authorities),
           Len(attenuate(c, child)) <= MAX_CHAIN_LINKS
    PROVE  verifyChain(attenuate(c, child), Authorities)
<1> DEFINE l == SignedLink(child, tail(c).suite)
           d == Append(c, l)
           n == Len(c)
<1>1. /\ n \in Nat /\ n >= 1
      /\ Len(d) = n + 1
      /\ d[n + 1] = l
      /\ \A i \in 1..n : d[i] = c[i]
  BY AppendProperties, EmptySeq, LenProperties
<1>2. /\ l.grant = child /\ l.suite = c[n].suite
      /\ l.signer = child.issuer /\ l.sealed
      /\ c[n].grant.delegable
      /\ isAttenuationOf(child, c[n].grant)
      /\ child.issuer = c[n].grant.subject
  BY DEF SignedLink, CanAttenuate, tail, isAttenuationOf
<1>3. d = attenuate(c, child)
  BY DEF attenuate
<1> HIDE DEF d, l
<1>4. Len(d) \in 1..MAX_CHAIN_LINKS
  BY <1>1, <1>3, CapabilityAssumption
<1> SUFFICES ASSUME NEW i \in 1..Len(d)
             PROVE  /\ d[i].suite \in ActiveSuites
                    /\ d[i].suite = d[1].suite
                    /\ d[i].grant.issuer = d[i].signer
                    /\ d[i].sealed
                    /\ i = 1 => d[i].signer \in Authorities
                    /\ i > 1 => /\ d[i - 1].grant.delegable
                                /\ d[i].signer = d[i - 1].grant.subject
                                /\ isAttenuationOf(d[i].grant, d[i - 1].grant)
  BY <1>3, <1>4, Zenon DEF verifyChain
<1>5. d[1] = c[1]
  BY <1>1
<1>6. CASE i \in 1..n
  <2>1. d[i] = c[i] /\ (i > 1 => d[i - 1] = c[i - 1])
    BY <1>1, <1>6
  <2>2. QED
    BY <1>5, <1>6, <2>1 DEF verifyChain
<1>7. CASE i = n + 1
  <2>1. d[i] = l /\ d[i - 1] = c[n] /\ i > 1 /\ n \in 1..n
    BY <1>1, <1>7
  <2>2. c[n].suite \in ActiveSuites /\ c[n].suite = c[1].suite
    BY <2>1, Zenon DEF verifyChain
  <2>3. QED
    BY <1>2, <1>5, <2>1, <2>2
<1>8. QED
  BY <1>1, <1>6, <1>7
-----------------------------------------------------------------------------
\* A chain with one more link, or with a first link, fits TailNarrows.
LEMMA NewChain ==
    ASSUME NEW S, NEW c \in Seq(S), NEW l \in S,
           c # <<>> => (verifyChain(c, Authorities) =>
              \A k \in 1..(Len(c) - 1) : Narrows(effectiveGrant(c), c[k].grant))
    PROVE  /\ Append(c, l) \in Seq(S) \ {<<>>}
           /\ verifyChain(Append(c, l), Authorities) =>
                 \A k \in 1..(Len(Append(c, l)) - 1) :
                    Narrows(effectiveGrant(Append(c, l)), Append(c, l)[k].grant)
<1>1. Append(c, l) \in Seq(S) \ {<<>>} /\ Len(Append(c, l)) = Len(c) + 1
  BY AppendProperties
<1>2. CASE c = <<>>
  BY <1>1, <1>2, EmptySeq
<1>3. CASE c # <<>>
  BY <1>1, <1>3, ExtendNarrows, Zenon
<1>4. QED
  BY <1>2, <1>3, Zenon

\* The facts every step has about the chain it adds: the chain it extends is one
\* of caps, or empty.
LEMMA GrowCaps ==
    ASSUME IInv, NEW c \in caps \cup {<<>>}, NEW l,
           l \in Links', Links \subseteq Links',
           caps' = caps \cup {Append(c, l)}
    PROVE  caps' \subseteq Seq(Links') \ {<<>>} /\ TailNarrows'
<1>1. Seq(Links) \subseteq Seq(Links')
  <2> SUFFICES ASSUME NEW q \in Seq(Links) PROVE q \in Seq(Links')
    OBVIOUS
  <2>1. Len(q) \in Nat /\ q \in [1..Len(q) -> Links]
    BY LenProperties
  <2>2. q \in [1..Len(q) -> Links']
    BY <2>1, Zenon
  <2>3. QED
    BY <2>1, <2>2, SeqDef
<1>2. c \in Seq(Links')
  BY <1>1, EmptySeq, Zenon DEF IInv, TypeOK
<1>3. c # <<>> => (verifyChain(c, Authorities) =>
         \A k \in 1..(Len(c) - 1) : Narrows(effectiveGrant(c), c[k].grant))
  BY DEF IInv, TailNarrows
<1>4. /\ Append(c, l) \in Seq(Links') \ {<<>>}
      /\ verifyChain(Append(c, l), Authorities) =>
            \A k \in 1..(Len(Append(c, l)) - 1) :
               Narrows(effectiveGrant(Append(c, l)), Append(c, l)[k].grant)
  BY <1>2, <1>3, NewChain
<1>5. caps' \subseteq Seq(Links') \ {<<>>}
  BY <1>1, <1>4, Zenon DEF IInv, TypeOK
<1>6. TailNarrows'
  BY <1>4, Zenon DEF IInv, TailNarrows
<1>7. QED
  BY <1>5, <1>6

\* Handing out a chain keeps the invariant if the last link is what SignedLink
\* makes and the chain meets the promise of HelpersVerify.
LEMMA HandOutIInv ==
    ASSUME IInv, NEW c \in caps \cup {<<>>}, NEW grant, NEW suite,
           HandOut(Append(c, SignedLink(grant, suite))),
           LET d == Append(c, SignedLink(grant, suite))
           IN  /\ Len(d) <= MAX_CHAIN_LINKS
               /\ d[1].suite \in ActiveSuites
               /\ Len(d) > 1 => verifyChain(SubSeq(d, 1, Len(d) - 1), Authorities)
               => verifyChain(d, Authorities)
    PROVE  IInv'
<1> DEFINE l == SignedLink(grant, suite)
           d == Append(c, l)
<1>1. tail(d) = l
  <2>1. c \in Seq(Links \cup {l})
    <3>1. c # <<>> => Len(c) \in Nat /\ c \in [1..Len(c) -> Links]
      BY LenProperties DEF IInv, TypeOK
    <3>2. c # <<>> => c \in Seq(Links \cup {l})
      BY <3>1, SeqDef
    <3>3. QED
      BY <3>2, EmptySeq, Zenon
  <2>2. QED
    BY <2>1, AppendProperties DEF tail
<1> HIDE DEF l
<1>2. /\ caps' = caps \cup {d}
      /\ signed' = signed \cup {l}
      /\ made' = made \cup {d}
  BY <1>1 DEF HandOut, l
<1>3. l \in Links' /\ Links \subseteq Links'
  BY <1>2 DEF Links
<1>4. caps' \subseteq Seq(Links') \ {<<>>} /\ TailNarrows'
  BY <1>2, <1>3, GrowCaps, Zenon
<1>5. l.sealed /\ l.grant.issuer = l.signer
  BY Zenon DEF l, SignedLink
<1>6. TypeOK'
  BY <1>2, <1>4, <1>5, Zenon DEF IInv, TypeOK
<1>7. HelpersVerify'
  BY <1>2, Zenon DEF IInv, HelpersVerify, l
<1>8. QED
  BY <1>4, <1>6, <1>7 DEF IInv

\* A fresh root verifies when its suite is active.
LEMMA RootVerifies ==
    ASSUME NEW spec \in RootSpecs, NEW suite \in ActiveSuites, 1 <= MAX_CHAIN_LINKS
    PROVE  verifyChain(<<SignedLink(spec, suite)>>, Authorities)
<1> DEFINE l == SignedLink(spec, suite)
<1>1. l.suite = suite /\ l.grant = spec /\ l.signer = spec.issuer /\ l.sealed
  BY DEF SignedLink
<1>2. spec.issuer \in Authorities
  BY DelegationAssumption
<1> HIDE DEF l
<1>3. Len(<<l>>) = 1 /\ <<l>>[1] = l
  OBVIOUS
<1>4. verifyChain(<<l>>, Authorities)
  BY <1>1, <1>2, <1>3, CapabilityAssumption DEF verifyChain
<1>5. QED
  BY <1>4 DEF l

\* The inductive invariant: chains consist of links that exist, the tail of a
\* verified chain is within every grant above it, and the helpers' chains verify.
THEOREM DelegationInvariance == ChainSpec => []IInv
<1>1. ChainInit => IInv
  BY DEF ChainInit, IInv, TypeOK, TailNarrows, HelpersVerify
<1>2. IInv /\ [ChainNext]_chainVars => IInv'
  <2> SUFFICES ASSUME IInv, [ChainNext]_chainVars PROVE IInv'
    OBVIOUS
  <2>1. ASSUME NEW spec \in RootSpecs, NEW suite \in Suites, IssueRoot(spec, suite)
        PROVE  IInv'
    <3> DEFINE d == Append(<<>>, SignedLink(spec, suite))
    <3>1. d = <<SignedLink(spec, suite)>> /\ d[1].suite = suite /\ Len(d) = 1
      BY DEF SignedLink
    <3>2. HandOut(d)
      BY <2>1, <3>1 DEF IssueRoot, issueRoot
    <3>3. /\ Len(d) <= MAX_CHAIN_LINKS
          /\ d[1].suite \in ActiveSuites
          => verifyChain(d, Authorities)
      BY <3>1, RootVerifies
    <3>4. QED
      BY <3>2, <3>3, HandOutIInv, Zenon
  <2>2. ASSUME NEW delegator \in Holders, NEW chain \in caps,
               NEW r \in Restrictions, NEW s \in Subjects,
               Attenuate(delegator, chain, r, s)
        PROVE  IInv'
    <3> DEFINE child == narrow(tail(chain).grant, r, tail(chain).grant.subject, s)
               l == SignedLink(child, tail(chain).suite)
               d == Append(chain, l)
    <3>1. CanAttenuate(chain, child, delegator) /\ HandOut(d)
      BY <2>2 DEF Attenuate, attenuate
    <3> HIDE DEF child
    <3>2. chain \in Seq(Links \cup {l}) \ {<<>>}
      <4>1. chain # <<>> /\ Len(chain) \in Nat /\ chain \in [1..Len(chain) -> Links]
        BY LenProperties DEF IInv, TypeOK
      <4>2. QED
        BY <4>1, SeqDef
    <3>3. SubSeq(d, 1, Len(d) - 1) = chain /\ Len(d) > 1
      BY <3>2, AppendProperties, EmptySeq, LenProperties
    <3>4. /\ Len(d) <= MAX_CHAIN_LINKS
          /\ verifyChain(chain, Authorities)
          => verifyChain(d, Authorities)
      BY <3>1, <3>2, AttenuateVerifies DEF attenuate
    <3>5. QED
      BY <3>1, <3>3, <3>4, HandOutIInv, Zenon
  <2>3. ASSUME NEW chain \in caps \cup {<<>>}, NEW link \in Links, Splice(chain, link)
        PROVE  IInv'
    <3>1. caps' = caps \cup {Append(chain, link)} /\ signed' = signed /\ made' = made
      BY <2>3 DEF Splice
    <3>2. Links' = Links
      BY <3>1 DEF Links
    <3>3. caps' \subseteq Seq(Links') \ {<<>>} /\ TailNarrows'
      BY <3>1, <3>2, GrowCaps, Zenon
    <3>4. QED
      BY <3>1, <3>3 DEF IInv, TypeOK, HelpersVerify
  <2>4. CASE UNCHANGED chainVars
    BY <2>4 DEF chainVars, IInv, TypeOK, TailNarrows, HelpersVerify, Links
  <2>5. QED
    BY <2>1, <2>2, <2>3, <2>4 DEF ChainNext
<1>3. QED
  BY <1>1, <1>2, PTL DEF ChainSpec

\* NoAmplification for chains of any length: the tail narrows every grant above
\* it, and a grant that narrows authorizes less.
THEOREM AmplificationFree == ChainSpec => []NoAmplification
<1>1. IInv => NoAmplification
  <2> SUFFICES ASSUME IInv, NEW c \in caps, verifyChain(c, Authorities),
                      NEW i \in IntentSpace, NEW ctx \in Contexts,
                      authorizesIntent(effectiveGrant(c), i, ctx),
                      NEW k \in 1..Len(c)
               PROVE  authorizesIntent(c[k].grant, i, ctx)
    BY DEF NoAmplification
  <2>1. Len(c) \in Nat
    BY LenProperties, Zenon DEF IInv, TypeOK
  <2>2. CASE k = Len(c)
    BY <2>2, Zenon DEF effectiveGrant, tail
  <2>3. CASE k # Len(c)
    <3>1. k \in 1..(Len(c) - 1)
      BY <2>1, <2>3
    <3>2. Narrows(effectiveGrant(c), c[k].grant)
      BY <3>1 DEF IInv, TailNarrows
    <3>3. QED
      BY <3>2, NarrowsAuthorizes
  <2>4. QED
    BY <2>2, <2>3, Zenon
<1>2. QED
  BY <1>1, DelegationInvariance, PTL

\* Whatever is accepted goes back to a grant a trusted authority signed: only an
\* authority makes sealed links under its key.
THEOREM BackedByAuthority == ChainSpec => []AuthorityBacked
<1>1. IInv /\ NoAmplification => AuthorityBacked
  <2> SUFFICES ASSUME IInv, NoAmplification, NEW c \in caps, verifyChain(c, Authorities),
                      NEW i \in IntentSpace, NEW ctx \in Contexts,
                      authorizesIntent(effectiveGrant(c), i, ctx)
               PROVE  \E l \in signed : /\ l.signer \in Authorities
                                        /\ authorizesIntent(l.grant, i, ctx)
    BY Zenon DEF AuthorityBacked
  <2>1. 1 \in 1..Len(c) /\ c[1] \in Links
    BY LenProperties, EmptySeq DEF IInv, TypeOK
  <2>2. c[1].signer \in Authorities /\ c[1].sealed
    BY <2>1, Zenon DEF verifyChain
  <2>3. c[1] \in signed
    BY <2>1, <2>2, DelegationAssumption, Zenon DEF Links
  <2>4. authorizesIntent(c[1].grant, i, ctx)
    BY <2>1, Zenon DEF NoAmplification
  <2>5. QED
    BY <2>2, <2>3, <2>4, Zenon
<1>2. QED
  BY <1>1, DelegationInvariance, AmplificationFree, PTL

\* Nobody passes on an honest holder's authority without that holder's signature.
THEOREM HoldersConsent == ChainSpec => []ConsentOfHolders
<1>1. IInv => ConsentOfHolders
  <2> SUFFICES ASSUME IInv, NEW c \in caps, verifyChain(c, Authorities),
                      NEW k \in 2..Len(c), c[k - 1].grant.subject \in Holders
               PROVE  c[k] \in signed
    BY DEF ConsentOfHolders
  <2>1. Len(c) \in Nat /\ c \in [1..Len(c) -> Links]
    BY LenProperties, Zenon DEF IInv, TypeOK
  <2>2. k \in 1..Len(c) /\ k > 1 /\ c[k] \in Links
    BY <2>1
  <2>3. c[k].signer = c[k - 1].grant.subject /\ c[k].sealed
    BY <2>2 DEF verifyChain
  <2>4. QED
    BY <2>2, <2>3, DelegationAssumption, Zenon DEF Links
<1>2. QED
  BY <1>1, DelegationInvariance, PTL

(***************************************************************************)
(* A loop of the code is a recursive function on an initial segment of the *)
(* naturals.  The facts here let a proof reason about one: such a function *)
(* exists, so that its definition holds of it, and a set of naturals has a *)
(* least element, so that an invariant of the loop is shown by looking at  *)
(* the first round that breaks it.                                         *)
(***************************************************************************)

\* A set of natural numbers that is not empty has a least element.
LEMMA LeastNat ==
    ASSUME NEW T \in SUBSET Nat, T # {}
    PROVE  \E x \in T : \A y \in T : x <= y
<1>1. \E x \in T : \A y \in T : ~(y < x)
  <2>1. PICK x \in T : \A y \in T : ~(<<y, x>> \in OpToRel(<, Nat))
    BY WFMin, NatLessThanWellFounded, Zenon
  <2>2. \A y \in T : y < x => <<y, x>> \in OpToRel(<, Nat)
    BY Zenon DEF OpToRel
  <2>3. QED
    BY <2>1, <2>2, Zenon
<1>2. QED
  BY <1>1

\* What holds at 0 and passes from each number to the next holds up to n.
LEMMA UpTo ==
    ASSUME NEW n \in Nat, NEW S, 0 \in S,
           \A i \in 1..n : i - 1 \in S => i \in S
    PROVE  \A i \in 0..n : i \in S
<1>1. SUFFICES ASSUME NEW j \in 0..n, j \notin S PROVE FALSE
  OBVIOUS
<1> DEFINE T == {i \in 0..n : i \notin S}
<1>2. T \in SUBSET Nat /\ T # {}
  BY <1>1
<1>3. PICK x \in T : \A y \in T : x <= y
  BY <1>2, LeastNat, Zenon
<1>4. x \in 1..n /\ x - 1 \in 0..n /\ x - 1 \notin T
  BY <1>3
<1>5. QED
  BY <1>3, <1>4, Zenon

\* A loop over 1..n that starts with base and takes the accumulator through step.
IsLoop(f, n, base, step) ==
    f = [i \in 0..n |-> IF i = 0 THEN base ELSE step[<<i, f[i - 1]>>]]

\* A loop that stays within Acc has a function of its rounds.
LEMMA LoopExists ==
    ASSUME NEW n \in Nat, NEW Acc, NEW base \in Acc,
           NEW step \in [(1..n) \X Acc -> Acc]
    PROVE  \E f \in [0..n -> Acc] : IsLoop(f, n, base, step)
<1> DEFINE Run(f, k) == f[0] = base /\ \A i \in 1..k : f[i] = step[<<i, f[i - 1]>>]
           S == {k \in 0..n : \E f \in [0..k -> Acc] : Run(f, k)}
<1>1. 0 \in S
  <2> DEFINE f == [i \in 0..0 |-> base]
  <2>1. f \in [0..0 -> Acc] /\ Run(f, 0)
    OBVIOUS
  <2>2. \E h \in [0..0 -> Acc] : Run(h, 0)
    <3> HIDE DEF f
    <3>1. QED
      BY <2>1
  <2>3. QED
    BY <2>2
<1>2. ASSUME NEW k \in 1..n, k - 1 \in S PROVE k \in S
  <2>1. PICK f \in [0..(k - 1) -> Acc] : Run(f, k - 1)
    BY <1>2
  <2>2. step[<<k, f[k - 1]>>] \in Acc
    <3>1. k - 1 \in 0..(k - 1)
      OBVIOUS
    <3>2. f[k - 1] \in Acc
      BY <3>1
    <3>3. QED
      BY <3>2
  <2> DEFINE g == [i \in 0..k |-> IF i = k THEN step[<<k, f[k - 1]>>] ELSE f[i]]
  <2>3. g \in [0..k -> Acc]
    <3>1. ASSUME NEW i \in 0..k, i # k PROVE i \in 0..(k - 1)
      BY <3>1
    <3>2. ASSUME NEW i \in 0..k, i # k PROVE f[i] \in Acc
      BY <3>1, <3>2, Zenon
    <3>3. QED
      BY <2>2, <3>2
  <2>4. g[0] = base
    BY <2>1
  <2>5. ASSUME NEW i \in 1..k PROVE g[i] = step[<<i, g[i - 1]>>]
    <3>1. i \in 0..k /\ i - 1 \in 0..k /\ i - 1 # k
      BY <2>5
    <3>2. g[i - 1] = f[i - 1]
      BY <3>1, Zenon
    <3>3. CASE i = k
      BY <3>1, <3>2, <3>3, Zenon
    <3>4. CASE i # k
      <4>1. i \in 1..(k - 1)
        BY <3>4
      <4>2. f[i] = step[<<i, f[i - 1]>>]
        BY <2>1, <4>1
      <4>3. g[i] = f[i]
        BY <3>1, <3>4
      <4>4. QED
        BY <3>2, <4>2, <4>3, Zenon
    <3>5. QED
      BY <3>3, <3>4, Zenon
  <2>6. Run(g, k)
    BY <2>4, <2>5, Zenon
  <2>7. k \in 0..n
    OBVIOUS
  <2>8. \E h \in [0..k -> Acc] : Run(h, k)
    <3> HIDE DEF g
    <3>1. QED
      BY <2>3, <2>6, Zenon
  <2>9. QED
    BY <2>7, <2>8, Zenon
<1>3. n \in S
  <2> HIDE DEF S
  <2>1. QED
    BY <1>1, <1>2, UpTo
<1>4. PICK f \in [0..n -> Acc] : Run(f, n)
  BY <1>3
<1>5. IsLoop(f, n, base, step)
  <2>1. ASSUME NEW i \in 0..n
        PROVE  f[i] = IF i = 0 THEN base ELSE step[<<i, f[i - 1]>>]
    BY <1>4
  <2>2. QED
    BY <2>1 DEF IsLoop
<1>6. QED
  BY <1>5

(***************************************************************************)
(* The loop of enact.                                                      *)
(***************************************************************************)

\* What the loop of enact carries from round to round.
Tally == [valid : SUBSET members, verifies : Nat]

NoTally == [valid |-> {}, verifies |-> 0]

\* maxVerifies is a number.
LEMMA MaxVerifiesType == maxVerifies \in Nat
BY GovernanceAssumption, FS_CardinalityType DEF maxVerifies

\* A round leads from a tally to a tally.
LEMMA CountApprovalType ==
    ASSUME NEW p, NEW a, NEW acc \in Tally
    PROVE  CountApproval(p, acc, a) \in Tally
BY DEF CountApproval, Tally

\* The rounds of the loop: nothing counted at first, then one round per approval.
LEMMA CountLoopRounds ==
    ASSUME NEW p, NEW list, Len(list) \in Nat
    PROVE  /\ CountLoop(p, list) \in [0..Len(list) -> Tally]
           /\ CountLoop(p, list)[0] = NoTally
           /\ \A n \in 1..Len(list) :
                 CountLoop(p, list)[n] = CountApproval(p, CountLoop(p, list)[n - 1], list[n])
<1> DEFINE N == Len(list)
           Rounds(f) == f = [n \in 0..N |-> IF n = 0 THEN NoTally
                                           ELSE CountApproval(p, f[n - 1], list[n])]
           step == [x \in (1..N) \X Tally |-> CountApproval(p, x[2], list[x[1]])]
<1>1. step \in [(1..N) \X Tally -> Tally]
  <2>1. ASSUME NEW x \in (1..N) \X Tally PROVE CountApproval(p, x[2], list[x[1]]) \in Tally
    <3>1. x[2] \in Tally
      OBVIOUS
    <3>2. QED
      BY <3>1, CountApprovalType
  <2>2. QED
    BY <2>1
<1>2. NoTally \in Tally
  BY DEF NoTally, Tally
<1>3. PICK f \in [0..N -> Tally] : IsLoop(f, N, NoTally, step)
  <2> HIDE DEF step
  <2>1. QED
    BY <1>1, <1>2, LoopExists, Zenon
<1>4. Rounds(f)
  <2>1. ASSUME NEW n \in 0..N, n # 0
        PROVE  step[<<n, f[n - 1]>>] = CountApproval(p, f[n - 1], list[n])
    <3>1. n \in 1..N /\ n - 1 \in 0..N
      BY <2>1
    <3>2. f[n - 1] \in Tally
      BY <3>1
    <3>3. QED
      BY <3>1, <3>2
  <2>2. QED
    BY <1>3, <2>1, Zenon DEF IsLoop
<1>5. CountLoop(p, list) = CHOOSE g : Rounds(g)
  BY Zenon DEF CountLoop, NoTally
<1>6. Rounds(CountLoop(p, list))
  <2> HIDE DEF Rounds
  <2>1. QED
    BY <1>4, <1>5, Zenon
<1> DEFINE c == CountLoop(p, list)
<1>7. c = [n \in 0..N |-> IF n = 0 THEN NoTally ELSE CountApproval(p, c[n - 1], list[n])]
  BY <1>6, Zenon
<1> HIDE DEF c
<1>8. /\ c[0] = NoTally
      /\ \A n \in 1..N : c[n] = CountApproval(p, c[n - 1], list[n])
  BY <1>7
<1>9. c \in [0..N -> Tally]
  <2> DEFINE S == {n \in 0..N : c[n] \in Tally}
  <2>1. 0 \in S
    BY <1>2, <1>8
  <2>2. ASSUME NEW n \in 1..N, n - 1 \in S PROVE n \in S
    BY <1>8, <2>2, CountApprovalType
  <2>3. \A n \in 0..N : n \in S
    <3> HIDE DEF S
    <3>1. QED
      BY <2>1, <2>2, UpTo, Zenon
  <2>4. QED
    BY <1>7, <2>3
<1>10. QED
  BY <1>8, <1>9 DEF c

\* The signers of p among the first n approvals, and the rounds among them that
\* cost a verification without counting.
SignersUpTo(p, list, n) ==
    {list[i].signer : i \in {j \in 1..n : verifyApproval(p, list[j]) /\ list[j].signer \in members}}

WastedUpTo(p, list, n) ==
    {i \in 1..n : ~verifyApproval(p, list[i]) /\ list[i].signer \in members}

\* The invariant of the loop of enact after n rounds: only signers of p count;
\* every verification spent has counted a signer or gone to waste; and a signer
\* that does not count was met with the quorum complete or the budget spent.
LoopInv(p, list, acc, n) ==
    /\ acc \in Tally
    /\ acc.valid \subseteq SignersUpTo(p, list, n)
    /\ acc.verifies <= Cardinality(acc.valid) + Cardinality(WastedUpTo(p, list, n))
    /\ \/ Cardinality(acc.valid) >= threshold
       \/ acc.verifies >= maxVerifies
       \/ SignersUpTo(p, list, n) \subseteq acc.valid

\* The rounds wasted are finitely many.
LEMMA WastedFinite ==
    ASSUME NEW p, NEW list, NEW n \in Nat
    PROVE  IsFiniteSet(WastedUpTo(p, list, n))
<1>1. IsFiniteSet(1..n)
  BY FS_Interval
<1>2. WastedUpTo(p, list, n) \subseteq 1..n
  BY DEF WastedUpTo
<1>3. QED
  BY <1>1, <1>2, FS_Subset

\* A round of the loop of enact preserves its invariant.
LEMMA CountApprovalInv ==
    ASSUME NEW p, NEW list, NEW n \in Nat, n >= 1, NEW acc, LoopInv(p, list, acc, n - 1)
    PROVE  LoopInv(p, list, CountApproval(p, acc, list[n]), n)
<1> DEFINE a == list[n]
           new == CountApproval(p, acc, a)
           W == WastedUpTo(p, list, n - 1)
           X == WastedUpTo(p, list, n)
           good == verifyApproval(p, a) /\ a.signer \in members
<1>1. acc \in Tally /\ new \in Tally /\ acc.valid \subseteq members
  BY CountApprovalType DEF LoopInv, Tally
<1>2. /\ IsFiniteSet(W) /\ IsFiniteSet(X) /\ Cardinality(W) \in Nat /\ Cardinality(X) \in Nat
      /\ W \subseteq X /\ Cardinality(W) <= Cardinality(X)
  <2>1. IsFiniteSet(W) /\ IsFiniteSet(X)
    BY WastedFinite
  <2>2. W \subseteq X
    BY DEF WastedUpTo
  <2>3. QED
    BY <2>1, <2>2, FS_Subset, FS_CardinalityType
<1>3. IsFiniteSet(acc.valid) /\ Cardinality(acc.valid) \in Nat
  BY <1>1, GovernanceAssumption, FS_Subset, FS_CardinalityType
<1>4. SignersUpTo(p, list, n) = SignersUpTo(p, list, n - 1) \cup {s \in {a.signer} : good}
  <2>1. \A j : j \in 1..n <=> j \in 1..(n - 1) \/ j = n
    OBVIOUS
  <2>2. QED
    BY <2>1, Zenon DEF SignersUpTo
<1>5. threshold \in Nat /\ maxVerifies \in Nat /\ acc.verifies \in Nat
  BY <1>1, GovernanceAssumption, MaxVerifiesType, Zenon DEF Tally
<1>6. acc.verifies <= Cardinality(acc.valid) + Cardinality(W)
  BY Zenon DEF LoopInv
<1>7. CASE \/ Cardinality(acc.valid) >= threshold
           \/ a.signer \notin members
           \/ a.signer \in acc.valid
           \/ acc.verifies >= maxVerifies
  <2>1. new = acc
    BY <1>7, Zenon DEF CountApproval
  <2>2. acc.verifies <= Cardinality(acc.valid) + Cardinality(X)
    BY <1>2, <1>3, <1>5 DEF LoopInv
  <2>3. acc.valid \subseteq SignersUpTo(p, list, n)
    BY <1>4, Zenon DEF LoopInv
  <2>4. \/ Cardinality(acc.valid) >= threshold
        \/ acc.verifies >= maxVerifies
        \/ SignersUpTo(p, list, n) \subseteq acc.valid
    BY <1>4, <1>7, Zenon DEF LoopInv
  <2>5. QED
    BY <1>1, <2>1, <2>2, <2>3, <2>4 DEF LoopInv
<1>8. CASE ~ \/ Cardinality(acc.valid) >= threshold
             \/ a.signer \notin members
             \/ a.signer \in acc.valid
             \/ acc.verifies >= maxVerifies
  <2>1. /\ new.valid = acc.valid \cup {s \in {a.signer} : verifyApproval(p, a)}
        /\ new.verifies = acc.verifies + 1
    BY <1>8, Zenon DEF CountApproval
  <2>2. SignersUpTo(p, list, n - 1) \subseteq acc.valid
    BY <1>8, Zenon DEF LoopInv
  <2>3. new.valid \subseteq SignersUpTo(p, list, n) /\ SignersUpTo(p, list, n) \subseteq new.valid
    BY <1>4, <1>8, <2>1, <2>2, Zenon DEF LoopInv
  <2>4. CASE verifyApproval(p, a)
    <3>1. new.valid = acc.valid \cup {a.signer}
      BY <2>1, <2>4, Zenon
    <3>2. Cardinality(new.valid) = Cardinality(acc.valid) + 1
      BY <1>3, <1>8, <3>1, FS_AddElement, Zenon
    <3>3. new.verifies <= Cardinality(new.valid) + Cardinality(X)
      BY <1>2, <1>3, <1>5, <2>1, <3>2 DEF LoopInv
    <3>4. QED
      BY <1>1, <2>3, <3>3, Zenon DEF LoopInv
  <2>5. CASE ~verifyApproval(p, a)
    <3>1. new.valid = acc.valid
      BY <2>1, <2>5
    <3>2. X = W \cup {n} /\ n \notin W
      BY <1>8, <2>5 DEF WastedUpTo
    <3>3. Cardinality(X) = Cardinality(W) + 1
      BY <1>2, <3>2, FS_AddElement
    <3>4. new.verifies <= Cardinality(new.valid) + Cardinality(X)
      <4>1. \A v, c, w \in Nat : v <= c + w => v + 1 <= c + (w + 1)
        OBVIOUS
      <4>2. acc.verifies + 1 <= Cardinality(acc.valid) + (Cardinality(W) + 1)
        <5> HIDE DEF W
        <5>1. QED
          BY <1>6, <1>2, <1>3, <1>5, <4>1, Zenon
      <4>3. QED
        BY <2>1, <3>1, <3>3, <4>2, Zenon
    <3>5. QED
      BY <1>1, <2>3, <3>4 DEF LoopInv
  <2>6. QED
    BY <2>4, <2>5, Zenon
<1>9. QED
  BY <1>7, <1>8

\* The loop of enact ends with its invariant.
LEMMA DistinctValid ==
    ASSUME NEW p, NEW list, Len(list) \in Nat
    PROVE  LoopInv(p, list, CountLoop(p, list)[Len(list)], Len(list))
<1> DEFINE N == Len(list)
           c == CountLoop(p, list)
           S == {n \in 0..N : LoopInv(p, list, c[n], n)}
<1>1. 0 \in S
  <2>1. c[0] = NoTally /\ NoTally \in Tally
    BY CountLoopRounds DEF NoTally, Tally
  <2>2. NoTally.valid = {} /\ NoTally.verifies = 0
    BY DEF NoTally
  <2>3. SignersUpTo(p, list, 0) = {} /\ WastedUpTo(p, list, 0) = {}
    BY DEF SignersUpTo, WastedUpTo
  <2>a. Cardinality(NoTally.valid) = 0 /\ Cardinality(WastedUpTo(p, list, 0)) = 0
    BY <2>2, <2>3, FS_EmptySet, Zenon
  <2>4. LoopInv(p, list, NoTally, 0)
    BY <2>1, <2>2, <2>3, <2>a DEF LoopInv
  <2>5. QED
    BY <2>1, <2>4
<1>2. ASSUME NEW n \in 1..N, n - 1 \in S PROVE n \in S
  <2>1. LoopInv(p, list, c[n - 1], n - 1)
    BY <1>2
  <2>2. LoopInv(p, list, CountApproval(p, c[n - 1], list[n]), n)
    <3> HIDE DEF c
    <3>1. QED
      BY <2>1, CountApprovalInv
  <2>3. QED
    BY <2>2, CountLoopRounds
<1>3. QED
  <2> HIDE DEF S
  <2>a. \A n \in 0..N : n \in S
    BY <1>1, <1>2, UpTo, Zenon
  <2>1. N \in S
    BY <2>a
  <2>2. QED
    BY <2>1 DEF S

(***************************************************************************)
(* Governance.  A list holds an approval that verifies under a member only *)
(* when that member consented; so those enact counts are supporters.       *)
(***************************************************************************)
GovInv ==
    /\ now \in 0..MaxTime
    /\ approvals \in [Proposals -> Seq(Approval)]
    /\ consents \subseteq members \X Proposals
    /\ \A p \in Proposals : \A i \in DOMAIN approvals[p] :
          LET a == approvals[p][i]
          IN  a.valid /\ a.signer \in members => <<a.signer, a.proposal>> \in consents
    /\ RevocationQuorum

\* Supporters are finitely many, and stay supporters.
LEMMA SupportersGrow ==
    ASSUME consents \subseteq consents', NEW p
    PROVE  /\ IsFiniteSet(Supporters(p))
           /\ Cardinality(Supporters(p)) \in Nat
           /\ Cardinality(Supporters(p)') \in Nat
           /\ Cardinality(Supporters(p)) <= Cardinality(Supporters(p)')
<1>1. Supporters(p) \subseteq members /\ Supporters(p)' \subseteq members
  BY DEF Supporters
<1>2. Supporters(p) \subseteq Supporters(p)'
  BY DEF Supporters
<1>3. QED
  BY <1>1, <1>2, GovernanceAssumption, FS_Subset, FS_CardinalityType

\* The quorum of a revocation outlives further consents.
LEMMA QuorumStays ==
    ASSUME RevocationQuorum, consents \subseteq consents', revoked' = revoked
    PROVE  RevocationQuorum'
<1> SUFFICES ASSUME NEW t \in revoked
             PROVE  \E p \in Proposals : /\ p.kind = "revoke" /\ p.target = t
                                         /\ Cardinality(Supporters(p)') >= threshold
  BY DEF RevocationQuorum
<1>1. PICK p \in Proposals : /\ p.kind = "revoke" /\ p.target = t
                             /\ Cardinality(Supporters(p)) >= threshold
  BY Zenon DEF RevocationQuorum
<1>2. Cardinality(Supporters(p)') >= threshold
  BY <1>1, SupportersGrow, GovernanceAssumption
<1>3. QED
  BY <1>1, <1>2

\* An approval that arrives keeps the lists lists of approvals, and everything in
\* them that verifies under a member consented to.
LEMMA CollectInv ==
    ASSUME GovInv, NEW p \in Proposals, NEW a \in Approval, Collect(p, a),
           consents \subseteq consents', consents' \subseteq members \X Proposals,
           a.valid /\ a.signer \in members => <<a.signer, a.proposal>> \in consents',
           UNCHANGED <<now, revoked>>
    PROVE  GovInv'
<1>1. approvals \in [Proposals -> Seq(Approval)] /\ approvals[p] \in Seq(Approval)
  BY DEF GovInv
<1>2. approvals' = [approvals EXCEPT ![p] = Append(approvals[p], a)]
  BY Zenon DEF Collect
<1>3. approvals' \in [Proposals -> Seq(Approval)]
  BY <1>1, <1>2
<1>4. ASSUME NEW q \in Proposals, NEW i \in DOMAIN approvals'[q],
             approvals'[q][i].valid, approvals'[q][i].signer \in members
      PROVE  <<approvals'[q][i].signer, approvals'[q][i].proposal>> \in consents'
  <2>1. CASE q # p
    <3>1. approvals'[q] = approvals[q]
      BY <1>1, <1>2, <2>1, Zenon
    <3>2. QED
      BY <1>4, <3>1, Zenon DEF GovInv
  <2>2. CASE q = p
    <3>1. approvals'[q] = Append(approvals[p], a)
      BY <1>1, <1>2, <2>2
    <3>2. i \in DOMAIN approvals[p] \/ approvals'[q][i] = a
      BY <1>1, <3>1
    <3>3. ASSUME i \in DOMAIN approvals[p] PROVE approvals'[q][i] = approvals[p][i]
      BY <1>1, <3>1, <3>3
    <3>4. QED
      BY <1>4, <3>2, <3>3, Zenon DEF GovInv
  <2>3. QED
    BY <2>1, <2>2, Zenon
<1>5. RevocationQuorum'
  BY QuorumStays DEF GovInv
<1>6. QED
  BY <1>3, <1>4, <1>5, Zenon DEF GovInv

\* Those whom enact counts are supporters of the proposal.
LEMMA CountedSupport ==
    ASSUME GovInv, NEW p \in Proposals
    PROVE  distinctValid(p, approvals[p]) \subseteq Supporters(p)
<1> DEFINE list == approvals[p]
<1>1. list \in Seq(Approval) /\ Len(list) \in Nat /\ DOMAIN list = 1..Len(list)
  BY DEF GovInv
<1>2. distinctValid(p, list) \subseteq SignersUpTo(p, list, Len(list))
  BY <1>1, DistinctValid DEF distinctValid, LoopInv
<1>3. ASSUME NEW i \in 1..Len(list), verifyApproval(p, list[i]), list[i].signer \in members
      PROVE  list[i].signer \in Supporters(p)
  BY <1>1, <1>3, Zenon DEF GovInv, verifyApproval, Supporters
<1>4. QED
  <2> HIDE DEF list
  <2>1. SignersUpTo(p, list, Len(list)) \subseteq Supporters(p)
    BY <1>3 DEF SignersUpTo
  <2>2. QED
    BY <1>2, <2>1 DEF list

\* The initial state satisfies the invariant.
LEMMA GovInitInv == GovInit => GovInv
BY GovernanceAssumption DEF GovInit, GovInv, RevocationQuorum

\* Every step of governance preserves the invariant.
LEMMA GovNextInv ==
    ASSUME GovInv, [GovNext]_govVars
    PROVE  GovInv'
<1>1. ASSUME NEW p \in Proposals, enactRevocation(p) PROVE GovInv'
  <2>1. /\ p.kind = "revoke" /\ Cardinality(distinctValid(p, approvals[p])) >= threshold
        /\ revoked' = revoked \cup {p.target}
        /\ UNCHANGED <<now, approvals, consents>>
    BY <1>1, Zenon DEF enactRevocation, enact
  <2> DEFINE D == distinctValid(p, approvals[p])
  <2>2. D \subseteq Supporters(p)
    BY CountedSupport, Zenon
  <2>3. Cardinality(Supporters(p)) >= threshold
    <3> HIDE DEF D
    <3>1. IsFiniteSet(Supporters(p)) /\ Cardinality(Supporters(p)) \in Nat
      BY <2>1, SupportersGrow, Zenon
    <3>2. Cardinality(D) \in Nat /\ Cardinality(D) <= Cardinality(Supporters(p))
      BY <2>2, <3>1, FS_Subset, FS_CardinalityType, Zenon
    <3>3. QED
      BY <2>1, <3>1, <3>2, GovernanceAssumption DEF D
  <2>4. \A q : Supporters(q)' = Supporters(q)
    BY <2>1, Zenon DEF Supporters
  <2>5. RevocationQuorum'
    BY <2>1, <2>3, <2>4, Zenon DEF RevocationQuorum, GovInv
  <2>6. QED
    BY <2>1, <2>5, Zenon DEF GovInv
<1>2. ASSUME NEW m \in members, NEW p \in Proposals, Approve(m, p) PROVE GovInv'
  <2> DEFINE a == [proposal |-> p, signer |-> m, valid |-> TRUE]
  <2>1. a \in Approval
    BY Zenon DEF Approval
  <2>2. /\ Collect(p, a) /\ consents' = consents \cup {<<m, p>>}
        /\ UNCHANGED <<now, revoked>>
    BY <1>2, Zenon DEF Approve
  <2>3. consents' \subseteq members \X Proposals /\ consents \subseteq consents'
    BY <2>2 DEF GovInv
  <2>4. <<a.signer, a.proposal>> \in consents'
    BY <2>2, Zenon
  <2> HIDE DEF a
  <2>5. QED
    BY <2>1, <2>2, <2>3, <2>4, CollectInv, Zenon
<1>3. ASSUME NEW p \in Proposals, NEW a \in Approval, Stray(p, a) PROVE GovInv'
  <2>1. consents' \subseteq members \X Proposals
    BY <1>3, Zenon DEF Stray, GovInv
  <2>2. QED
    BY <1>3, <2>1, CollectInv, Zenon DEF Stray
<1>4. CASE Tick
  <2>1. now' \in 0..MaxTime
    BY <1>4, GovernanceAssumption DEF Tick, GovInv
  <2>2. QED
    BY <1>4, <2>1, QuorumStays, Zenon DEF Tick, GovInv
<1>5. CASE UNCHANGED govVars
  BY <1>5, QuorumStays, Zenon DEF govVars, GovInv
<1>6. QED
  BY <1>1, <1>2, <1>3, <1>4, <1>5, Zenon DEF GovNext

\* With the lists of the invariant a genuine quorum that junk leaves enough of the
\* budget is counted in full.
LEMMA GovInvDecides == GovInv => QuorumDecides
<1> SUFFICES ASSUME GovInv PROVE GenuineQuorumEnacts
  BY Zenon DEF GovInv, QuorumDecides
<1> SUFFICES ASSUME NEW p \in Proposals, inWindow(p),
                    Cardinality({approvals[p][i].signer : i \in Genuine(p)}) >= threshold,
                    Cardinality(Wasted(p)) + threshold <= maxVerifies
             PROVE  enact(p, approvals[p])
  BY Zenon DEF GenuineQuorumEnacts
<1> DEFINE list == approvals[p]
           acc == CountLoop(p, list)[Len(list)]
<1>1. list \in Seq(Approval) /\ Len(list) \in Nat /\ DOMAIN list = 1..Len(list)
  BY DEF GovInv
<1>2. LoopInv(p, list, acc, Len(list))
  BY <1>1, DistinctValid, Zenon
<1>3. Wasted(p) = WastedUpTo(p, list, Len(list))
  BY <1>1 DEF Wasted, WastedUpTo
<1>4. {approvals[p][i].signer : i \in Genuine(p)} = SignersUpTo(p, list, Len(list))
  BY <1>1, Zenon DEF Genuine, SignersUpTo
<1> HIDE DEF list, acc
<1>5. acc \in Tally /\ IsFiniteSet(acc.valid) /\ Cardinality(acc.valid) \in Nat /\ acc.verifies \in Nat
  BY <1>2, GovernanceAssumption, FS_Subset, FS_CardinalityType, Zenon DEF LoopInv, Tally
<1>6. IsFiniteSet(Wasted(p)) /\ Cardinality(Wasted(p)) \in Nat
  BY <1>1, <1>3, WastedFinite, FS_CardinalityType, Zenon
<1>7. Cardinality(acc.valid) >= threshold
  <2>1. SUFFICES ASSUME Cardinality(acc.valid) < threshold PROVE FALSE
    BY <1>5, GovernanceAssumption
  <2>2. acc.verifies < maxVerifies
    BY <1>2, <1>3, <1>5, <1>6, <2>1, GovernanceAssumption, MaxVerifiesType DEF LoopInv
  <2>3. SignersUpTo(p, list, Len(list)) \subseteq acc.valid
    BY <1>2, <1>5, <2>1, <2>2, GovernanceAssumption, MaxVerifiesType DEF LoopInv
  <2> DEFINE S == SignersUpTo(p, list, Len(list))
  <2>4. Cardinality(S) \in Nat /\ Cardinality(S) <= Cardinality(acc.valid)
    <3> HIDE DEF S
    <3>1. S \subseteq acc.valid
      BY <2>3, Zenon DEF S
    <3>2. QED
      BY <1>5, <3>1, FS_Subset, FS_CardinalityType, Zenon
  <2>5. Cardinality(S) >= threshold
    BY <1>4, Zenon
  <2>6. QED
    <3> HIDE DEF S
    <3>1. QED
      BY <1>5, <2>1, <2>4, <2>5, GovernanceAssumption
<1>8. QED
  BY <1>7, Zenon DEF enact, distinctValid, acc, list

\* Governance decides by quorum: nothing is revoked without threshold members, and
\* junk in the list does not keep threshold members from revoking (enact,
\* enactRevocation), for every quorum, threshold and budget.
THEOREM GovernanceDecides == GovSpec => []QuorumDecides
<1>1. GovInv /\ [GovNext]_govVars => GovInv'
  BY GovNextInv
<1>2. QED
  BY GovInitInv, <1>1, GovInvDecides, PTL DEF GovSpec

(***************************************************************************)
(* Evidence quorums.  A verdict is a function of the items that are valid  *)
(* at the time; an item that is valid stays so until its notAfter, so the  *)
(* verdict lasts until the earliest of them.                               *)
(***************************************************************************)

\* What a function takes from a finite set is finite.
LEMMA ImageFinite ==
    ASSUME NEW S, NEW T, IsFiniteSet(S), NEW g \in [S -> T], \A y \in T : \E x \in S : g[x] = y
    PROVE  IsFiniteSet(T)
<1>1. g \in Surjection(S, T)
  BY Zenon DEF Surjection
<1>2. QED
  BY <1>1, FS_Surjection, Zenon

\* A finite set with at most one element has at most one.
LEMMA AtMostOne ==
    ASSUME NEW S, IsFiniteSet(S), ~(Cardinality(S) > 1), NEW x \in S, NEW y \in S
    PROVE  x = y
<1>1. SUFFICES ASSUME x # y PROVE FALSE
  OBVIOUS
<1>2. IsFiniteSet({x}) /\ Cardinality({x}) = 1
  BY FS_Singleton, Zenon
<1>3. Cardinality({x} \cup {y}) = 2
  <2>1. y \notin {x}
    BY <1>1
  <2>2. Cardinality({x} \cup {y}) = Cardinality({x}) + 1
    BY <1>2, <2>1, FS_AddElement, Zenon
  <2>3. QED
    BY <1>2, <2>2
<1>4. {x} \cup {y} \in SUBSET S
  OBVIOUS
<1>5. Cardinality({x} \cup {y}) <= Cardinality(S) /\ Cardinality(S) \in Nat
  BY <1>4, FS_Subset, FS_CardinalityType, Zenon
<1>6. QED
  BY <1>3, <1>5

\* The positions of the statements that are valid at t.
ValidAt(t) == {i \in DOMAIN evidences : appraise(evidences[i], expectedNonce, t, quoteFormats)}

\* The times their claims end.
EndsOf(valid) == {c.notAfter : c \in {evidences[i].claims : i \in valid}}

\* A list of statements that came in, and a clock.
EvidenceOK == clock \in Nat /\ evidences \in Seq(Offered)

\* The verdict depends on the time through the valid statements only.
LEMMA VerdictFrom ==
    ASSUME NEW t, NEW u, ValidAt(t) = ValidAt(u)
    PROVE  Verdict(t) = Verdict(u)
BY Zenon DEF Verdict, appraiseNofM, ValidAt

\* What a valid verdict says of its statements.
LEMMA VerdictParts ==
    ASSUME NEW t, Verdict(t).valid
    PROVE  LET V == ValidAt(t)
               Claims == {evidences[i].claims : i \in V}
           IN  /\ nRequired \in Int /\ ~(nRequired < 1)
               /\ ~(Cardinality({c.sessionPublicKey : c \in Claims}) > 1)
               /\ ~(Cardinality({c.sessionId : c \in Claims}) > 1)
               /\ ~(Cardinality({c.format : c \in Claims}) < nRequired)
               /\ ~(Cardinality({evidences[i].attester : i \in V}) < nRequired)
               /\ Verdict(t).claims = [evidences[Min(V)].claims EXCEPT !.notAfter = Min(EndsOf(V))]
<1> DEFINE V == ValidAt(t)
           Claims == {evidences[i].claims : i \in V}
           Refused == \/ nRequired \notin Int \/ nRequired < 1
                      \/ Len(evidences) > MAX_EVIDENCES
                      \/ Cardinality({c.sessionPublicKey : c \in Claims}) > 1
                      \/ Cardinality({c.sessionId : c \in Claims}) > 1
                      \/ Cardinality({c.format : c \in Claims}) < nRequired
                      \/ Cardinality({evidences[i].attester : i \in V}) < nRequired
           claims == [evidences[Min(V)].claims EXCEPT !.notAfter = Min(EndsOf(V))]
<1>1. Verdict(t) = IF Refused THEN Rejected ELSE [valid |-> TRUE, claims |-> claims]
  BY Zenon DEF Verdict, appraiseNofM, ValidAt, EndsOf
<1> HIDE DEF claims
<1>2. ~Refused
  <2>1. ~Rejected.valid
    BY DEF Rejected
  <2> HIDE DEF Refused
  <2>2. QED
    BY <1>1, <2>1, Zenon
<1>3. Verdict(t).claims = claims
  <2> HIDE DEF Refused
  <2>1. Verdict(t) = [valid |-> TRUE, claims |-> claims]
    BY <1>1, <1>2, Zenon
  <2>2. QED
    BY <2>1
<1>4. QED
  BY <1>2, <1>3, Zenon DEF claims

\* A quorum has a statement, and ends with the first of its statements.
LEMMA EarliestEnd ==
    ASSUME EvidenceOK, Verdict(clock).valid
    PROVE  LET V == ValidAt(clock)
               end == Min(EndsOf(V))
           IN  /\ V # {} /\ V \subseteq Nat /\ Min(V) \in V
               /\ end \in Nat /\ clock <= end
               /\ \A i \in V : evidences[i].claims.notAfter \in Int /\ end <= evidences[i].claims.notAfter
<1> DEFINE V == ValidAt(clock)
           A == {evidences[i].attester : i \in V}
           E == EndsOf(V)
<1>1. DOMAIN evidences = 1..Len(evidences) /\ Len(evidences) \in Nat
  BY DEF EvidenceOK
<1>2. V \in SUBSET Nat
  BY <1>1 DEF ValidAt
<1>3. V # {}
  <2>1. SUFFICES ASSUME V = {} PROVE FALSE
    OBVIOUS
  <2>2. A = {}
    BY <2>1
  <2>3. ~(0 < nRequired) /\ nRequired \in Int /\ ~(nRequired < 1)
    BY <2>2, VerdictParts, FS_EmptySet, Zenon
  <2>4. QED
    BY <2>3
<1>4. Min(V) \in V
  <2>1. \E x \in V : \A y \in V : x <= y
    BY <1>2, <1>3, LeastNat, Zenon
  <2>2. QED
    BY <2>1, Zenon DEF Min
<1>5. \A i \in V : /\ evidences[i].claims.notAfter \in Int
                   /\ clock <= evidences[i].claims.notAfter
  BY Zenon DEF ValidAt, appraise
<1>6. \A x : x \in E <=> \E i \in V : x = evidences[i].claims.notAfter
  BY Zenon DEF EndsOf
<1>7. E \in SUBSET Nat /\ E # {} /\ \A x \in E : clock <= x
  <2>1. \A x \in E : x \in Int /\ clock <= x
    BY <1>5, <1>6, Zenon
  <2>2. \A x \in E : x \in Nat
    BY <2>1 DEF EvidenceOK
  <2>3. QED
    BY <1>3, <1>6, <2>1, <2>2, Zenon
<1>8. Min(E) \in E /\ \A x \in E : Min(E) <= x
  <2>1. \E x \in E : \A y \in E : x <= y
    BY <1>7, LeastNat, Zenon
  <2>2. QED
    BY <2>1, Zenon DEF Min
<1> HIDE DEF E, V
<1>9. /\ V # {} /\ V \subseteq Nat /\ Min(V) \in V
      /\ Min(E) \in Nat /\ clock <= Min(E)
      /\ \A i \in V : evidences[i].claims.notAfter \in Int /\ Min(E) <= evidences[i].claims.notAfter
  BY <1>2, <1>3, <1>4, <1>5, <1>6, <1>7, <1>8, Zenon
<1>10. QED
  BY <1>9, Zenon DEF E, V

\* The valid statements stay the same until the end of the quorum.
LEMMA ValidLasts ==
    ASSUME EvidenceOK, Verdict(clock).valid,
           NEW t \in Int, clock <= t, t <= Min(EndsOf(ValidAt(clock)))
    PROVE  ValidAt(t) = ValidAt(clock)
<1> DEFINE end == Min(EndsOf(ValidAt(clock)))
           ends(i) == evidences[i].claims.notAfter
<1>1. end \in Nat /\ \A i \in ValidAt(clock) : ends(i) \in Int /\ end <= ends(i)
  BY EarliestEnd, Zenon
<1>2. t <= end
  OBVIOUS
<1> HIDE DEF end
<1>3. \A i \in ValidAt(clock) : t <= ends(i)
  <2> HIDE DEF ends
  <2>1. QED
    BY <1>1, <1>2
<1>4. \A x \in Int : t <= x => clock <= x /\ clock \in Int
  BY DEF EvidenceOK
<1>5. \A i : i \in ValidAt(t) <=> i \in ValidAt(clock)
  BY <1>3, <1>4, Zenon DEF ValidAt, appraise
<1>6. QED
  BY <1>5, Zenon

\* A valid verdict is corroborated by as many attesters and formats as were asked for.
LEMMA EvidenceCorroborates ==
    ASSUME EvidenceOK
    PROVE  QuorumCorroborates
<1> SUFFICES ASSUME Verdict(clock).valid
             PROVE  LET c == Verdict(clock).claims
                        E == {e \in Range(evidences) : Corroborates(e, c, c.notAfter)}
                    IN  /\ Cardinality({e.attester : e \in E}) >= nRequired
                        /\ Cardinality({e.claims.format : e \in E}) >= nRequired
  BY Zenon DEF QuorumCorroborates
<1> DEFINE V == ValidAt(clock)
           end == Min(EndsOf(V))
           first == evidences[Min(V)].claims
           c == Verdict(clock).claims
           E == {e \in Range(evidences) : Corroborates(e, c, c.notAfter)}
           Claims == {evidences[i].claims : i \in V}
           Keys == {d.sessionPublicKey : d \in Claims}
           Ids == {d.sessionId : d \in Claims}
           Formats == {d.format : d \in Claims}
           Endorsers == {evidences[i].attester : i \in V}
<1>1. /\ V # {} /\ V \subseteq Nat /\ Min(V) \in V
      /\ end \in Nat /\ clock <= end
  BY EarliestEnd, Zenon
<1>2. /\ nRequired \in Int
      /\ ~(Cardinality(Keys) > 1) /\ ~(Cardinality(Ids) > 1)
      /\ ~(Cardinality(Formats) < nRequired) /\ ~(Cardinality(Endorsers) < nRequired)
      /\ c = [first EXCEPT !.notAfter = end]
  BY VerdictParts, Zenon
<1>3. /\ evidences \in Seq(Offered) /\ Len(evidences) \in Nat
      /\ DOMAIN evidences = 1..Len(evidences)
      /\ \A i \in DOMAIN evidences : evidences[i] \in Offered
  BY DEF EvidenceOK
<1>4. \A i \in V : i \in DOMAIN evidences
  BY Zenon DEF ValidAt
<1>5. IsFiniteSet(DOMAIN evidences) /\ IsFiniteSet(V)
  <2>1. IsFiniteSet(1..Len(evidences))
    BY <1>3, FS_Interval
  <2>2. IsFiniteSet(DOMAIN evidences)
    BY <1>3, <2>1, Zenon
  <2>3. V \in SUBSET DOMAIN evidences
    BY Zenon DEF ValidAt
  <2> HIDE DEF V
  <2>4. QED
    BY <2>2, <2>3, FS_Subset, Zenon
<1>6. IsFiniteSet(Keys) /\ IsFiniteSet(Ids)
  <2> DEFINE g == [i \in V |-> evidences[i].claims.sessionPublicKey]
             k == [i \in V |-> evidences[i].claims.sessionId]
  <2>1. g \in [V -> Keys] /\ \A y \in Keys : \E i \in V : g[i] = y
    BY Zenon
  <2>2. k \in [V -> Ids] /\ \A y \in Ids : \E i \in V : k[i] = y
    BY Zenon
  <2> HIDE DEF g, k, V, Keys, Ids
  <2>3. IsFiniteSet(Keys)
    BY <1>5, <2>1, ImageFinite, Zenon
  <2>4. IsFiniteSet(Ids)
    BY <1>5, <2>2, ImageFinite, Zenon
  <2>5. QED
    BY <2>3, <2>4
<1>7. /\ c.notAfter = end
      /\ c.sessionPublicKey = first.sessionPublicKey
      /\ c.sessionId = first.sessionId
  <2>1. evidences[Min(V)] \in Offered
    BY <1>1, <1>3, <1>4, Zenon
  <2>2. first = [format |-> first.format, sessionId |-> first.sessionId,
                 sessionPublicKey |-> first.sessionPublicKey, nonce |-> first.nonce,
                 notAfter |-> first.notAfter]
    BY <2>1, EvidenceAssumption, Zenon
  <2> HIDE DEF first, c, end
  <2>3. QED
    BY <1>2, <2>2
<1>8. \A i \in V : evidences[i] \in E
  <2> SUFFICES ASSUME NEW i \in V PROVE evidences[i] \in E
    BY Zenon
  <2>1. i \in ValidAt(end)
    <3>1. end \in Int /\ end <= end
      BY <1>1
    <3>2. QED
      BY <1>1, <3>1, ValidLasts, Zenon
  <2>2. appraise(evidences[i], expectedNonce, end, quoteFormats)
    BY <2>1, Zenon DEF ValidAt
  <2>3. evidences[i].claims.sessionPublicKey \in Keys /\ first.sessionPublicKey \in Keys
    BY <1>1, Zenon
  <2>4. evidences[i].claims.sessionId \in Ids /\ first.sessionId \in Ids
    BY <1>1, Zenon
  <2>5. evidences[i].claims.sessionPublicKey = c.sessionPublicKey
    <3> HIDE DEF Keys, first, c
    <3>1. QED
      BY <1>2, <1>6, <1>7, <2>3, AtMostOne, Zenon
  <2>6. evidences[i].claims.sessionId = c.sessionId
    <3> HIDE DEF Ids, first, c
    <3>1. QED
      BY <1>2, <1>6, <1>7, <2>4, AtMostOne, Zenon
  <2>7. evidences[i] \in Range(evidences)
    BY <1>4, Zenon DEF Range
  <2> HIDE DEF c, end
  <2>8. QED
    BY <1>7, <2>2, <2>5, <2>6, <2>7, Zenon DEF Corroborates
<1>9. IsFiniteSet(E)
  <2> DEFINE R == {evidences[i] : i \in DOMAIN evidences}
  <2>1. evidences \in [DOMAIN evidences -> R]
    BY <1>3
  <2>2. IsFiniteSet(R)
    <3>1. \A y \in R : \E i \in DOMAIN evidences : evidences[i] = y
      BY Zenon
    <3> HIDE DEF R
    <3>2. QED
      BY <1>5, <2>1, <3>1, ImageFinite, Zenon
  <2>3. E \in SUBSET R
    BY Zenon DEF Range
  <2> HIDE DEF E, R
  <2>4. QED
    BY <2>2, <2>3, FS_Subset, Zenon
<1> HIDE DEF E, V
<1>10. Cardinality({e.attester : e \in E}) >= nRequired
  <2> DEFINE g == [e \in E |-> e.attester]
             B == {e.attester : e \in E}
  <2>1. g \in [E -> B] /\ \A y \in B : \E e \in E : g[e] = y
    BY Zenon
  <2>2. Endorsers \in SUBSET B
    BY <1>8, Zenon
  <2> HIDE DEF g, B, Endorsers
  <2>3. IsFiniteSet(B)
    BY <1>9, <2>1, ImageFinite, Zenon
  <2>4. Cardinality(Endorsers) <= Cardinality(B) /\ Cardinality(B) \in Nat /\ Cardinality(Endorsers) \in Nat
    BY <2>2, <2>3, FS_Subset, FS_CardinalityType, Zenon
  <2>5. Cardinality(B) >= nRequired
    BY <1>2, <2>4
  <2>6. QED
    BY <2>5, Zenon DEF B
<1>11. Cardinality({e.claims.format : e \in E}) >= nRequired
  <2> DEFINE g == [e \in E |-> e.claims.format]
             B == {e.claims.format : e \in E}
  <2>1. g \in [E -> B] /\ \A y \in B : \E e \in E : g[e] = y
    BY Zenon
  <2>2. Formats \in SUBSET B
    BY <1>8, Zenon
  <2> HIDE DEF g, B, Formats
  <2>3. IsFiniteSet(B)
    BY <1>9, <2>1, ImageFinite, Zenon
  <2>4. Cardinality(Formats) <= Cardinality(B) /\ Cardinality(B) \in Nat /\ Cardinality(Formats) \in Nat
    BY <2>2, <2>3, FS_Subset, FS_CardinalityType, Zenon
  <2>5. Cardinality(B) >= nRequired
    BY <1>2, <2>4
  <2>6. QED
    BY <2>5, Zenon DEF B
<1>12. QED
  BY <1>10, <1>11, Zenon DEF E

\* A valid verdict lasts until the end it gives.
LEMMA EvidenceLasts ==
    ASSUME EvidenceOK
    PROVE  VerdictLasts
<1> SUFFICES ASSUME Verdict(clock).valid, NEW t \in clock..Verdict(clock).claims.notAfter
             PROVE  Verdict(t) = Verdict(clock)
  BY Zenon DEF VerdictLasts
<1> DEFINE V == ValidAt(clock)
           end == Min(EndsOf(V))
           first == evidences[Min(V)].claims
<1>1. Min(V) \in V /\ end \in Nat /\ Verdict(clock).claims = [first EXCEPT !.notAfter = end]
  BY EarliestEnd, VerdictParts, Zenon
<1>2. evidences[Min(V)] \in Offered
  <2>1. Min(V) \in DOMAIN evidences
    BY <1>1, Zenon DEF ValidAt
  <2>2. QED
    BY <2>1 DEF EvidenceOK
<1>3. first = [format |-> first.format, sessionId |-> first.sessionId,
               sessionPublicKey |-> first.sessionPublicKey, nonce |-> first.nonce,
               notAfter |-> first.notAfter]
  BY <1>2, EvidenceAssumption, Zenon
<1> HIDE DEF first, end
<1>4. Verdict(clock).claims.notAfter = end
  BY <1>1, <1>3
<1>5. t \in clock..end
  BY <1>4, Zenon
<1>6. t \in Int /\ clock <= t /\ t <= end
  BY <1>1, <1>5 DEF EvidenceOK
<1>7. ValidAt(t) = ValidAt(clock)
  BY <1>6, ValidLasts, Zenon DEF end
<1>8. QED
  BY <1>7, VerdictFrom, Zenon

\* For every policy and every sequence of statements, while the clock runs: a valid N-of-M
\* verdict is corroborated by n trusted attesters and n formats until the notAfter it
\* returns, and the same statements give the same verdict until then (appraiseNofM).
THEOREM EvidenceHolds == EvidenceSpec => []QuorumHolds
<1>1. EvidenceInit => EvidenceOK
  BY DEF EvidenceInit, EvidenceOK
<1>2. EvidenceOK /\ [EvidenceNext]_evidenceVars => EvidenceOK'
  <2> SUFFICES ASSUME EvidenceOK, [EvidenceNext]_evidenceVars PROVE EvidenceOK'
    OBVIOUS
  <2>1. ASSUME NEW e \in Offered, Receive(e) PROVE EvidenceOK'
    BY <2>1 DEF EvidenceOK, Receive
  <2>2. CASE Expiry
    BY <2>2 DEF EvidenceOK, Expiry
  <2>3. CASE UNCHANGED evidenceVars
    BY <2>3 DEF EvidenceOK, evidenceVars
  <2>4. QED
    BY <2>1, <2>2, <2>3, Zenon DEF EvidenceNext
<1>3. EvidenceOK => QuorumHolds
  BY EvidenceCorroborates, EvidenceLasts, Zenon DEF QuorumHolds
<1>4. QED
  BY <1>1, <1>2, <1>3, PTL DEF EvidenceSpec
=============================================================================
