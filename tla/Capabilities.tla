---------------------------- MODULE Capabilities ----------------------------
(***************************************************************************)
(* The capability library: what a grant authorizes, when one grant         *)
(* attenuates another, and when a chain of signed grants verifies.         *)
(*                                                                         *)
(* The id of a grant is the content hash of its body, so a grant is        *)
(* identified with its body.  A link says whether it is sealed: its id is  *)
(* that hash and its signature over suite and grant verifies under the     *)
(* signer key.  None is the code's null and undefined.  A number that is   *)
(* not a safe integer is any value outside Int; NaN is the one that        *)
(* Math.min and Math.max pass on (infinities and fractions, which they may *)
(* also drop, are not asked for in a restriction).                         *)
(***************************************************************************)
EXTENDS Integers, Sequences

CONSTANTS
    None,               \* null: no restriction, or a field left out
    NaN,                \* what arithmetic on a malformed number gives
    ActiveSuites,       \* activeSuiteIds()
    MAX_CHAIN_LINKS

ASSUME CapabilityAssumption ==
    /\ None \notin Int
    /\ NaN \notin Int /\ NaN # None
    /\ MAX_CHAIN_LINKS \in Nat

isSafeInteger(x) == x \in Int

\* A safe integer that is not negative.
isCount(x) == isSafeInteger(x) /\ x >= 0

authorizesIntent(grant, intent, ctx) ==
    /\ intent.type \in grant.actions
    /\ isSafeInteger(ctx.now)
    /\ isSafeInteger(grant.notBefore) /\ isSafeInteger(grant.notAfter)
    /\ grant.notBefore <= ctx.now /\ ctx.now <= grant.notAfter
    /\ isCount(ctx.tier)
    /\ isCount(grant.maxTier)
    /\ ctx.tier <= grant.maxTier
    /\ grant.counterparties # None =>
          intent.counterparty # None /\ intent.counterparty \in grant.counterparties
    /\ intent.amount # None => isCount(intent.amount)
    /\ isCount(ctx.observedAggregate)
    /\ LET amount == IF intent.amount = None THEN 0 ELSE intent.amount
       IN  /\ grant.perActionCeiling # None =>
                 isCount(grant.perActionCeiling) /\ amount <= grant.perActionCeiling
           /\ grant.aggregateCap # None =>
                 /\ isCount(grant.aggregateCap)
                 /\ ctx.observedAggregate + amount <= grant.aggregateCap

\* Mutant: an unrestricted child passes under a restricted parent.
CeilingNarrows_NullChild(child, parent) ==
    parent # None => child = None \/ child <= parent

ceilingNarrows(child, parent) ==
    parent # None => child # None /\ child <= parent

setNarrows(child, parent) ==
    parent # None => child # None /\ child \subseteq parent

isWellFormedGrantNumerics(g) ==
    /\ isCount(g.maxTier)
    /\ isSafeInteger(g.notBefore) /\ isSafeInteger(g.notAfter)
    /\ g.perActionCeiling # None => isCount(g.perActionCeiling)
    /\ g.aggregateCap # None => isCount(g.aggregateCap)

\* The scope of child is within the scope of parent.
Narrows(child, parent) ==
    /\ isWellFormedGrantNumerics(child) /\ isWellFormedGrantNumerics(parent)
    /\ child.actions \subseteq parent.actions
    /\ ceilingNarrows(child.perActionCeiling, parent.perActionCeiling)
    /\ ceilingNarrows(child.aggregateCap, parent.aggregateCap)
    /\ setNarrows(child.counterparties, parent.counterparties)
    /\ child.maxTier <= parent.maxTier
    /\ child.notBefore >= parent.notBefore
    /\ child.notAfter <= parent.notAfter
    /\ child.delegable => parent.delegable

isAttenuationOf(child, parent) ==
    /\ Narrows(child, parent)
    /\ child.issuer = parent.subject

\* Math.min and Math.max on integers and NaN.
MinNumber(a, b) ==
    IF isSafeInteger(a) /\ isSafeInteger(b) THEN IF a <= b THEN a ELSE b ELSE NaN
MaxNumber(a, b) ==
    IF isSafeInteger(a) /\ isSafeInteger(b) THEN IF a >= b THEN a ELSE b ELSE NaN

minNullable(a, b) ==
    IF a = None THEN b ELSE IF b = None THEN a ELSE MinNumber(a, b)

\* a ?? b
OrElse(a, b) == IF a = None THEN b ELSE a

narrow(parent, r, issuer, subject) ==
    [issuer |-> issuer,
     subject |-> subject,
     actions |-> OrElse(r.actions, parent.actions) \cap parent.actions,
     perActionCeiling |-> minNullable(r.perActionCeiling, parent.perActionCeiling),
     aggregateCap |-> minNullable(r.aggregateCap, parent.aggregateCap),
     counterparties |->
        IF r.counterparties = None THEN parent.counterparties
        ELSE IF parent.counterparties = None THEN r.counterparties
        ELSE r.counterparties \cap parent.counterparties,
     maxTier |-> MinNumber(OrElse(r.maxTier, parent.maxTier), parent.maxTier),
     notBefore |-> MaxNumber(OrElse(r.notBefore, parent.notBefore), parent.notBefore),
     notAfter |-> MinNumber(OrElse(r.notAfter, parent.notAfter), parent.notAfter),
     delegable |-> OrElse(r.delegable, parent.delegable) /\ parent.delegable]

tail(chain) == chain[Len(chain)]

\* A link that really is signed: by its issuer, over this suite and grant.
SignedLink(grant, suite) ==
    [grant |-> grant, suite |-> suite, signer |-> grant.issuer, sealed |-> TRUE]

issueRoot(spec, suite) == <<SignedLink(spec, suite)>>

\* Mutant: delegation of a grant that may not be delegated.
CanAttenuate_NotDelegable(chain, child, delegator) ==
    /\ delegator = tail(chain).grant.subject
    /\ isAttenuationOf(child, tail(chain).grant)

\* attenuate throws unless this holds of the child grant it built.
CanAttenuate(chain, child, delegator) ==
    /\ tail(chain).grant.delegable
    /\ delegator = tail(chain).grant.subject
    /\ isAttenuationOf(child, tail(chain).grant)

attenuate(chain, child) == Append(chain, SignedLink(child, tail(chain).suite))

\* Mutant: links whose signature is not checked.
VerifyChain_Unsealed(chain, trustedRoots) ==
    /\ Len(chain) \in 1..MAX_CHAIN_LINKS
    /\ \A i \in 1..Len(chain) :
          /\ chain[i].suite \in ActiveSuites
          /\ chain[i].suite = chain[1].suite
          /\ chain[i].grant.issuer = chain[i].signer
          /\ i = 1 => chain[i].signer \in trustedRoots
          /\ i > 1 => /\ chain[i - 1].grant.delegable
                      /\ chain[i].signer = chain[i - 1].grant.subject
                      /\ isAttenuationOf(chain[i].grant, chain[i - 1].grant)

verifyChain(chain, trustedRoots) ==
    /\ Len(chain) \in 1..MAX_CHAIN_LINKS
    /\ \A i \in 1..Len(chain) :
          /\ chain[i].suite \in ActiveSuites
          /\ chain[i].suite = chain[1].suite
          /\ chain[i].grant.issuer = chain[i].signer
          /\ chain[i].sealed
          /\ i = 1 => chain[i].signer \in trustedRoots
          /\ i > 1 => /\ chain[i - 1].grant.delegable
                      /\ chain[i].signer = chain[i - 1].grant.subject
                      /\ isAttenuationOf(chain[i].grant, chain[i - 1].grant)

effectiveGrant(chain) == tail(chain).grant

\* One candidate of resolve authorizes the intent.
Authorizes(chain, intent, trustedRoots, ctx, revoked) ==
    /\ verifyChain(chain, trustedRoots)
    /\ \A i \in 1..Len(chain) : chain[i].grant \notin revoked
    /\ effectiveGrant(chain).subject = ctx.holder
    /\ \A i \in 1..Len(chain) : authorizesIntent(chain[i].grant, intent, ctx)
=============================================================================
