------------------------------- MODULE Ledger -------------------------------
(***************************************************************************)
(* The pure part of the proof-of-stake ledger: what a header, a block and  *)
(* an attestation are, the light-client verdict verifyFinalized, and the   *)
(* equivocation evidence (ledger/src/chain.ts, equivocation.ts, types.ts). *)
(*                                                                         *)
(* A header is identified with its hash (SHAKE256 over the canonical       *)
(* encoding is injective), so the header fields are functions of the hash. *)
(* The proposer signature, the suite label and the absence of a VRF proof  *)
(* are NOT covered by the hash: a block is a header together with the      *)
(* verdict on those, `sealed'.  An attestation's suite, signature and      *)
(* validator-set id are abstracted to whether it verifies, `valid'.        *)
(***************************************************************************)
EXTENDS Stake, Sequences

CONSTANTS
    Nodes,      \* identities that run the GossipNode code
    Hashes,     \* the headers that occur
    Genesis,    \* GENESIS_PREV
    Height,     \* header fields, by hash
    Prev,
    Round,
    Proposer,
    Seed,       \* the unit of stake sortition draws, by prevHash
    MAX_ATTESTATIONS_PER_SIDE,
    MAX_PROOFS_PER_SLASH

Ids == Validators \cup Nodes

\* The set has stake (selectLeader throws otherwise).
ASSUME LedgerAssumption ==
    /\ IsFiniteSet(Hashes)
    /\ Genesis \notin Hashes
    /\ Height \in [Hashes -> Nat]
    /\ Prev \in [Hashes -> Hashes \cup {Genesis}]
    /\ Round \in [Hashes -> Nat]
    /\ Proposer \in [Hashes -> Ids]
    /\ Seed \in [Hashes \cup {Genesis} -> Units]
    /\ MAX_ATTESTATIONS_PER_SIDE \in Nat
    /\ MAX_PROOFS_PER_SLASH \in Nat

canonicalRound(height) == 0

\* The validator whose interval of the cumulative stakes holds the drawn unit.
selectLeader(prev) == Owner[Seed[prev]]

Block == [hash : Hashes, sealed : BOOLEAN]

Attestation == [blockHash : Hashes, height : Nat, validator : Ids, valid : BOOLEAN]

\* A FinalizedBlock keeps the block and the attestations it was submitted with.
FinalizedBlock == [hash : Hashes, attestations : SUBSET Attestation]

\* Ledger.attest: an attestation signed by an honest validator for its block.
attest(h, v) == [blockHash |-> h, height |-> Height[h], validator |-> v, valid |-> TRUE]

\* verifyFinalized without the test that an attestation names the block's height.
Counted_AnyHeight(h, atts) ==
    {v \in Ids : stakeOf(v) > 0 /\ \E a \in atts :
        /\ a.validator = v
        /\ a.blockHash = h
        /\ a.valid}

\* The validators whose stake verifyFinalized counts for header h.  The code
\* tries the first attestation of a validator only; the callers modelled here
\* pass at most one per validator (the pool is keyed by validator).
counted(h, atts) ==
    {v \in Ids : stakeOf(v) > 0 /\ \E a \in atts :
        /\ a.validator = v
        /\ a.blockHash = h
        /\ a.height = Height[h]
        /\ a.valid}

\* The verdict `finalized' of verifyFinalized for a set without VRF keys:
\* full validity of the block AND the stake quorum.
verifyFinalized(b, atts, expectedPrev, expectedHeight) ==
    /\ b.sealed
    /\ Height[b.hash] = expectedHeight
    /\ Prev[b.hash] = expectedPrev
    /\ Round[b.hash] = canonicalRound(Height[b.hash])
    /\ selectLeader(expectedPrev) = Proposer[b.hash]
    /\ stakeMet(counted(b.hash, atts))

\* One candidate proof per validator that attested both of two distinct
\* headers of one height; nothing when a side exceeds the input cap.
detectEquivocations(hA, attsA, hB, attsB) ==
    IF \/ Cardinality(attsA) > MAX_ATTESTATIONS_PER_SIDE
       \/ Cardinality(attsB) > MAX_ATTESTATIONS_PER_SIDE
       \/ Height[hA] # Height[hB]
       \/ hA = hB
    THEN {}
    ELSE {[validator |-> p[1].validator, height |-> Height[hA], attA |-> p[1], attB |-> p[2]] :
             p \in {q \in attsA \X attsB : /\ q[1].blockHash = hA
                                           /\ q[2].blockHash = hB
                                           /\ q[1].validator = q[2].validator}}

\* A proof is slashable when both attestations are the validator's, for two
\* hashes at ONE height, and verify under the set.
verifyEquivocationProof(p) ==
    /\ p.attA.blockHash # p.attB.blockHash
    /\ p.attA.validator = p.validator
    /\ p.attB.validator = p.validator
    /\ p.attA.height = p.attB.height
    /\ p.height = p.attA.height
    /\ stakeOf(p.validator) > 0
    /\ p.attA.valid
    /\ p.attB.valid

\* slash: the validators a batch of proofs removes from the set; an over-cap
\* batch is refused wholesale.
slash(proofs) ==
    IF Cardinality(proofs) > MAX_PROOFS_PER_SLASH
    THEN {}
    ELSE {p.validator : p \in {q \in proofs : verifyEquivocationProof(q)}}

\* Stake of the validators that do not run the node code is below what two
\* quorums must share (one third, for the default fraction).
MinorityAdversary ==
    StakeHeld(Validators \ Nodes) * finalityDen < (2 * finalityNum - finalityDen) * totalStake
=============================================================================
