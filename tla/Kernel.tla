------------------------------- MODULE Kernel -------------------------------
(***************************************************************************)
(* The policy kernel: a pure function from an intent, the capabilities     *)
(* presented, the clock and the revoked grants to a decision.              *)
(*                                                                         *)
(* An action type is the sequence of its dot-separated segments, so "pay." *)
(* is <<"pay", "">>.  The params of an intent are left out: governedView   *)
(* drops them before anything is decided.                                  *)
(***************************************************************************)
EXTENDS Capabilities, Functions

CONSTANTS
    Segments,       \* what [A-Za-z0-9_-]+ matches
    policy,         \* tierRules, denyActions, transformActions, defaultTier
    trustedRoots,
    MAX_CANDIDATES

RiskTier == 0..3

ASSUME KernelAssumption ==
    /\ "" \notin Segments
    /\ policy.defaultTier \in RiskTier
    /\ \A k \in DOMAIN policy.tierRules : policy.tierRules[k].tier \in RiskTier

\* The index at which a search that stops at its first hit stops, if it hits at all.
First(hits) == {k \in hits : \A j \in hits : k <= j}

actionMatches(type, entry) ==
    LET base == IF entry[Len(entry)] = "" THEN SubSeq(entry, 1, Len(entry) - 1) ELSE entry
    IN  type = entry \/ (Len(base) < Len(type) /\ SubSeq(type, 1, Len(base)) = base)

actionInList(type, list) == \E entry \in list : actionMatches(type, entry)

isCanonicalActionType(type) == type # <<>> /\ Range(type) \subseteq Segments

tierOf(type) ==
    LET rules == policy.tierRules
        first == First({k \in DOMAIN rules : actionMatches(type, rules[k].prefix)})
    IN  IF first = {} THEN policy.defaultTier ELSE rules[CHOOSE k \in first : TRUE].tier

obligationsForTier(tier) ==
    CASE tier = 0 -> {}
      [] tier = 1 -> {"session-attestation"}
      [] tier = 2 -> {"nearline-receipt", "step-up-approval"}
      [] tier = 3 -> {"nearline-receipt", "n-of-m-attestation", "dual-control", "all-planes"}

\* The first candidate that authorizes the intent, or None.
resolve(intent, candidates, ctx, revoked) ==
    LET first == First({k \in DOMAIN candidates :
                           Authorizes(candidates[k], intent, trustedRoots, ctx, revoked)})
    IN  IF ctx.holder = None \/ Len(candidates) > MAX_CANDIDATES \/ first = {}
        THEN None ELSE candidates[CHOOSE k \in first : TRUE]

Deny(tier) == [effect |-> "deny", tier |-> tier, obligations |-> {}, capability |-> None]

decide(intent, candidates, now, observedAggregate, holder, revoked) ==
    LET tier == tierOf(intent.type)
        ctx == [now |-> now, tier |-> tier, observedAggregate |-> observedAggregate,
                holder |-> holder]
        cap == resolve(intent, candidates, ctx, revoked)
    IN  IF ~isCanonicalActionType(intent.type) THEN Deny(3)
        ELSE IF actionInList(intent.type, policy.denyActions) \/ cap = None THEN Deny(tier)
        ELSE [effect |-> IF actionInList(intent.type, policy.transformActions)
                         THEN "transform" ELSE "allow",
              tier |-> tier,
              obligations |-> obligationsForTier(tier),
              capability |-> cap]

\* A digest of the policy, which is a constant here.
evaluatorVersion == "this-policy"

\* input: what a decision depends on besides the policy and the roots.
decideInput(i) == decide(i.intent, i.capabilities, i.now, i.observedAggregate, i.holder, i.revoked)

\* The bytes are the canonical encoding of the input.
buildReplayBundle(input) ==
    [inputBytes |-> [of |-> input, canonical |-> TRUE], evaluatorVersion |-> evaluatorVersion]

inputHash(bundle) == bundle.inputBytes

replay(bundle) ==
    LET version == IF bundle.inputBytes.canonical THEN evaluatorVersion ELSE "none"
        d == IF bundle.inputBytes.canonical /\ bundle.evaluatorVersion = version
             THEN decideInput(bundle.inputBytes.of) ELSE Deny(3)
    IN  [decision |-> d, inputHash |-> inputHash(bundle),
         receiptHash |-> <<version, inputHash(bundle), d>>]
=============================================================================
