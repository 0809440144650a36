--------------------------- MODULE QuorumReceipts ---------------------------
(***************************************************************************)
(* Quorum receipts (receipts/src/quorum.ts): a receipt that validators     *)
(* sign together with the set, threshold, epoch and suite they sign for,   *)
(* verified from a list of attestations that anybody may have put          *)
(* together.  A signature is the key that made it and the body it is on.   *)
(* The id of a set is the set itself (members with stakes) with k and      *)
(* epoch; "own" is the set the verifier trusts, the one of module Stake.   *)
(***************************************************************************)
EXTENDS Stake, Sequences, FiniteSetsExt

CONSTANTS
    Bodies,             \* quorum receipt bodies in circulation
    Cosignatures,       \* attestations that may be in the list
    Thresholds, Epochs, \* what verifiers may ask for
    SIGS_PER_MEMBER, MIN_SIGS,  \* 4 and 256 in the code
    MaxCosigned         \* bound on the list

VARIABLE cosigned

\* A body has the fields the code signs; thresholds and caps are numbers.
ASSUME ReceiptAssumption ==
    /\ \A b \in Bodies : b = [receipt |-> b.receipt, setId |-> b.setId, k |-> b.k,
                              epoch |-> b.epoch, suite |-> b.suite]
    /\ Thresholds \subseteq Int
    /\ SIGS_PER_MEMBER \in Nat /\ MIN_SIGS \in Nat

quorumSetId(set, k, epoch) == [set |-> set, k |-> k, epoch |-> epoch]

\* One body for a receipt; buildQuorumReceipt signs it under every signer given.
QuorumBody(receipt, set, k, epoch, suite) ==
    [receipt |-> receipt, setId |-> quorumSetId(set, k, epoch), k |-> k, epoch |-> epoch, suite |-> suite]

cosign(v, body) == [validator |-> v, suite |-> body.suite, sig |-> [by |-> v, on |-> body]]

buildQuorumReceipt(body, signers) == [i \in DOMAIN signers |-> cosign(signers[i], body)]

maxAttestations == Max({Cardinality(Validators) * SIGS_PER_MEMBER, MIN_SIGS})

\* Mutant: a member whose first attestation does not verify is not tried again.
CountCosigner_TriesOnce(body, list, n, seen) ==
    LET a == list[n]
    IN  IF \/ a.suite # body.suite \/ a.validator \notin Validators
           \/ \E i \in 1..n - 1 : list[i].validator = a.validator
        THEN seen
        ELSE seen \cup {v \in {a.validator} : a.sig = [by |-> v, on |-> body]}

\* One round of the loop: the nth attestation counts its validator if that is a member
\* not counted yet and the signature verifies.
CountCosigner(body, list, n, seen) ==
    LET a == list[n]
    IN  IF a.suite # body.suite \/ a.validator \notin Validators \/ a.validator \in seen
        THEN seen
        ELSE seen \cup {v \in {a.validator} : a.sig = [by |-> v, on |-> body]}

\* The members counted after each number of rounds.
CosignerLoop(body, list) ==
    LET seen[n \in 0..Len(list)] ==
          IF n = 0 THEN {} ELSE CountCosigner(body, list, n, seen[n - 1])
    IN  seen

\* The members counted: each on its first attestation that verifies.
countDistinctValid(body, list) == CosignerLoop(body, list)[Len(list)]

Counted(body, list) == IF Len(list) > maxAttestations THEN {} ELSE countDistinctValid(body, list)

verifyQuorumReceipt(body, list, k, epoch) ==
    /\ k >= 1
    /\ body.k = k
    /\ body.epoch = epoch
    /\ body.setId = quorumSetId("own", k, epoch)
    /\ Len(list) <= maxAttestations
    /\ Cardinality(Counted(body, list)) >= k

verifyQuorumReceiptByStake(body, list, stakeThreshold, epoch) ==
    /\ stakeThreshold > 0
    /\ body.epoch = epoch
    /\ body.setId = quorumSetId("own", body.k, epoch)
    /\ Len(list) <= maxAttestations
    /\ StakeHeld(Counted(body, list)) >= stakeThreshold

ReceiptInit == cosigned = <<>>

HandCosignature(a) ==
    /\ Len(cosigned) < MaxCosigned
    /\ cosigned' = Append(cosigned, a)

ReceiptNext == \E a \in Cosignatures : HandCosignature(a)

ReceiptSpec == ReceiptInit /\ [][ReceiptNext]_cosigned
-----------------------------------------------------------------------------
\* Members whose own signature on the body is in the list under their own name.
Cosigners(body) ==
    {v \in Validators : \E i \in DOMAIN cosigned :
        /\ cosigned[i].validator = v /\ cosigned[i].suite = body.suite
        /\ cosigned[i].sig = [by |-> v, on |-> body]}

Expected(body, k, epoch) == body = QuorumBody(body.receipt, "own", k, epoch, body.suite)

\* Neither order nor copies nor forgeries in a list of admissible length change the
\* verdict: a quorum receipt is accepted exactly when k members of the verifier's
\* own set signed it for that set, threshold and epoch (countDistinctValid).
QuorumExact ==
    cosigned # <<>> => \A b \in Bodies, k \in Thresholds, e \in Epochs :
        verifyQuorumReceipt(b, cosigned, k, e) <=>
            /\ k >= 1 /\ Expected(b, k, e)
            /\ Len(cosigned) <= maxAttestations
            /\ Cardinality(Cosigners(b)) >= k

\* The same for the stake variant, in which the committed k is not compared with a
\* k of the verifier (verifyQuorumReceiptByStake).
StakeQuorumExact ==
    cosigned # <<>> => \A b \in Bodies, w \in Thresholds, e \in Epochs :
        verifyQuorumReceiptByStake(b, cosigned, w, e) <=>
            /\ w >= 1 /\ Expected(b, b.k, e)
            /\ Len(cosigned) <= maxAttestations
            /\ StakeHeld(Cosigners(b)) >= w

\* A quorum receipt says what its list says, counted by heads and by stake
\* (verifyQuorumReceipt, verifyQuorumReceiptByStake).
CosignedExactly == QuorumExact /\ StakeQuorumExact
=============================================================================
