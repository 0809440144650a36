---------------------------- MODULE LightClient ----------------------------
(***************************************************************************)
(* Leader election, view change and the portable finality proof: the       *)
(* stateless verdicts a light client or a bridge takes on lists it is      *)
(* handed (ledger/src/leader.ts, vrf.ts, the VRF half of chain.ts,         *)
(* portable.ts).                                                           *)
(*                                                                         *)
(* Whoever relays a block chooses the timeout votes and the attestations   *)
(* that come with it, their order and their copies.  A signature is the    *)
(* pair of the key that made it and the message it is on; a VRF proof is   *)
(* the key and the input it was made for, and beta is drawn once for each  *)
(* such pair (what RFC 9381 uniqueness gives).  beta mod totalStake is the *)
(* unit of stake it falls on.  A header stands for its hash, a validator   *)
(* set for its id: the sets here have the same members and stakes, and     *)
(* differ in their epoch and in whether the members carry VRF keys.        *)
(***************************************************************************)
EXTENDS Stake, Sequences, FiniteSetsExt

CONSTANTS
    Votes,          \* timeout votes that may be handed over
    Attestations,   \* attestations that may be handed over
    Blocks,         \* blocks that may be claimed final, without their certificate
    Sets,           \* configurations of the validator set: epoch, keyed
    Fractions,      \* pairs <<num, den>> that callers and proofs ask for
    Draw,           \* <<validator, prevHash, round>> -> unit of stake
    LegacySeed,     \* prevHash -> unit of stake, in a set without VRF keys
    VOTES_PER_VALIDATOR, MIN_VOTES,     \* 4 and 256 in the code
    MaxLists,       \* bound on the two lists together
    Nothing         \* undefined

\* Blocks and headers are the records of the code, what a caller asks for is a pair of
\* numbers, every draw a block can name falls on a unit of stake, and undefined is none of
\* these values.
ASSUME ClientAssumption ==
    /\ \A b \in Blocks :
          /\ b = [header |-> b.header, suite |-> b.suite, vrfProof |-> b.vrfProof, cert |-> b.cert, sig |-> b.sig]
          /\ b.header = [height |-> b.header.height, prevHash |-> b.header.prevHash, round |-> b.header.round,
                         proposer |-> b.header.proposer, vrfOutput |-> b.header.vrfOutput]
          /\ b.header.round \in Int
          /\ Draw[<<b.header.proposer, b.header.prevHash, b.header.round>>] \in Units
          /\ LET proof == [key |-> b.header.proposer, alpha |-> <<b.header.prevHash, b.header.round>>]
             IN  /\ Nothing # proof
                 /\ Nothing \notin [header : {b.header}, suite : {b.suite}, vrfProof : {proof},
                                    cert : {Nothing} \cup [round : Int, votes : Seq(Votes)],
                                    sig : {[by |-> b.header.proposer, on |-> <<b.suite, b.header>>]}]
    /\ Nothing \notin Units
    /\ Nothing \notin [round : Int, votes : Seq(Votes)]
    /\ Fractions \subseteq Int \X Int
    /\ VOTES_PER_VALIDATOR \in Nat /\ MIN_VOTES \in Nat

VARIABLES votes, atts

clientVars == <<votes, atts>>

maxVotes == Max({Cardinality(Validators) * VOTES_PER_VALIDATOR, MIN_VOTES})

FractionOK(f) == 1 <= f[1] /\ f[1] <= f[2]

Reaches(stake, f) == totalStake > 0 /\ stake * f[2] >= f[1] * totalStake

\* Mutant: an entry that does not fit uses up the attempt.
CountEntry_AnyAttempt(list, fits, good, i, acc) ==
    LET v == list[i].validator
    IN  IF v \in acc.attempted THEN acc
        ELSE [attempted |-> acc.attempted \cup {v},
              stake |-> acc.stake + IF i \in fits \cap good THEN stakeOf(v) ELSE 0]

\* One round of the loop over a list.  The loops of verifyViewChangeCert and
\* verifyFinalized share this shape: an entry that does not fit is skipped, the first
\* that fits is the only one tried for its validator, and it counts when its
\* signature verifies.  fits and good are the positions that fit and those whose
\* signature verifies.
CountEntry(list, fits, good, i, acc) ==
    LET v == list[i].validator
    IN  IF i \notin fits \/ v \in acc.attempted THEN acc
        ELSE [attempted |-> acc.attempted \cup {v},
              stake |-> acc.stake + IF i \in good THEN stakeOf(v) ELSE 0]

\* What the loop has counted after each number of rounds.
StakeLoop(list, fits, good) ==
    LET count[i \in 0..Len(list)] ==
          IF i = 0 THEN [attempted |-> {}, stake |-> 0]
          ELSE CountEntry(list, fits, good, i, count[i - 1])
    IN  count

\* Stake of the validators a list is counted for.
CountedStake(list, fits, good) == StakeLoop(list, fits, good)[Len(list)].stake

viewChangeMessage(suite, height, prev, round, set) ==
    [tag |-> "timeout", suite |-> suite, height |-> height, prev |-> prev, round |-> round, set |-> set]

attestMessage(suite, height, hash, set) ==
    [tag |-> "attest", suite |-> suite, height |-> height, hash |-> hash, set |-> set]

VoteFits(v, suite, height, prev, certRound) ==
    /\ v.suite = suite /\ v.height = height /\ v.prevHash = prev /\ v.round = certRound
    /\ stakeOf(v.validator) > 0

verifyViewChangeCert(set, suite, height, prev, certRound, cert, f) ==
    /\ certRound >= 0
    /\ FractionOK(f)
    /\ cert # Nothing
    /\ cert.round = certRound
    /\ Len(cert.votes) <= maxVotes
    /\ LET m == viewChangeMessage(suite, height, prev, certRound, set)
           L == cert.votes
       IN  Reaches(CountedStake(L, {i \in DOMAIN L : VoteFits(L[i], suite, height, prev, certRound)},
                                   {i \in DOMAIN L : L[i].sig = [by |-> L[i].validator, on |-> m]}),
                   f)

vrfAlpha(prev, round) == <<prev, round>>

prove(v, prev, round) == [key |-> v, alpha |-> vrfAlpha(prev, round)]

\* beta of a proof that verifies under the key of v for this input.
verify(v, prev, round, proof) ==
    IF proof = prove(v, prev, round) THEN Draw[<<v, prev, round>>] ELSE Nothing

vrfLeaderEligible(proposer, beta) == Owner[beta] = proposer

selectLeader(prev) == Owner[LegacySeed[prev]]

\* Mutant: the first change of round needs no certificate.
VrfLeader_FreeFirst(b, set, prev, f) ==
    LET h == b.header
        beta == verify(h.proposer, prev, h.round, b.vrfProof)
    IN  /\ b.vrfProof # Nothing
        /\ h.round > 1 => verifyViewChangeCert(set, b.suite, h.height, prev, h.round - 1, b.cert, f)
        /\ h.proposer \in Validators
        /\ beta # Nothing /\ beta = h.vrfOutput
        /\ vrfLeaderEligible(h.proposer, beta)

\* Leader checks of a set whose members carry VRF keys.
VrfLeader(b, set, prev, f) ==
    LET h == b.header
        beta == verify(h.proposer, prev, h.round, b.vrfProof)
    IN  /\ b.vrfProof # Nothing
        /\ h.round > 0 => verifyViewChangeCert(set, b.suite, h.height, prev, h.round - 1, b.cert, f)
        /\ h.proposer \in Validators
        /\ beta # Nothing /\ beta = h.vrfOutput
        /\ vrfLeaderEligible(h.proposer, beta)

LegacyLeader(b, prev) ==
    /\ b.vrfProof = Nothing
    /\ b.header.round = 0
    /\ selectLeader(prev) = b.header.proposer

AttestationFits(a, b, opts) ==
    /\ a.blockHash = b.header /\ a.height = b.header.height /\ a.suite = b.suite
    /\ opts.suite # Nothing => a.suite = opts.suite
    /\ stakeOf(a.validator) > 0

attestingStake(b, list, set, opts) ==
    LET m == attestMessage(b.suite, b.header.height, b.header, set)
    IN  CountedStake(list, {i \in DOMAIN list : AttestationFits(list[i], b, opts)},
                           {i \in DOMAIN list : list[i].sig = [by |-> list[i].validator, on |-> m]})

\* The verdict `finalized': every check and the stake quorum.
verifyFinalized(b, list, set, prev, f, opts) ==
    LET h == b.header
    IN  /\ Len(list) <= maxVotes
        /\ opts.suite # Nothing => b.suite = opts.suite
        /\ opts.height # Nothing => h.height = opts.height
        /\ h.prevHash = prev
        /\ h.round >= 0
        /\ totalStake > 0
        /\ IF set.keyed THEN VrfLeader(b, set, prev, f) ELSE LegacyLeader(b, prev)
        /\ b.sig = [by |-> h.proposer, on |-> <<b.suite, h>>]
        /\ FractionOK(f)
        /\ Reaches(attestingStake(b, list, set, opts), f)

\* Ledger.proposeVrf: a block, or Nothing when it throws.
proposeVrf(suite, height, prev, round, proposer, set, cert, f) ==
    LET proof == prove(proposer, prev, round)
        beta == Draw[<<proposer, prev, round>>]
        header == [height |-> height, prevHash |-> prev, round |-> round,
                   proposer |-> proposer, vrfOutput |-> beta]
    IN  IF /\ round >= 0
           /\ vrfLeaderEligible(proposer, beta)
           /\ round > 0 => verifyViewChangeCert(set, suite, height, prev, round - 1, cert, f)
        THEN [header |-> header, suite |-> suite, vrfProof |-> proof, cert |-> cert,
              sig |-> [by |-> proposer, on |-> <<suite, header>>]]
        ELSE Nothing

exportFinalityProof(b, list, prev, f, epoch) ==
    [block |-> b, attestations |-> list, expectedPrev |-> prev, fraction |-> f, epoch |-> epoch]

\* The consumer brings its own set; the fraction and the expected head are the proof's.
verifyPortableFinality(proof, set, expect) ==
    /\ (proof.epoch # Nothing /\ set.epoch # Nothing) => proof.epoch = set.epoch
    /\ verifyFinalized(proof.block, proof.attestations, set, proof.expectedPrev, proof.fraction, expect)

\* The view for relayers keeps the attestations about the block of the proof.
KeepEntry(proof, i, kept) ==
    LET a == proof.attestations[i]
    IN  IF a.blockHash = proof.block.header /\ a.height = proof.block.header.height
        THEN Append(kept, a) ELSE kept

\* What the filter has kept after each number of attestations.
KeepLoop(proof) ==
    LET kept[i \in 0..Len(proof.attestations)] ==
          IF i = 0 THEN <<>> ELSE KeepEntry(proof, i, kept[i - 1])
    IN  kept

finalityProofToEvmInput(proof) == KeepLoop(proof)[Len(proof.attestations)]

ClientInit == votes = <<>> /\ atts = <<>>

HandVote(v) ==
    /\ Len(votes) + Len(atts) < MaxLists
    /\ votes' = Append(votes, v)
    /\ UNCHANGED atts

HandAttestation(a) ==
    /\ Len(votes) + Len(atts) < MaxLists
    /\ atts' = Append(atts, a)
    /\ UNCHANGED votes

ClientNext ==
    \/ \E v \in Votes : HandVote(v)
    \/ \E a \in Attestations : HandAttestation(a)

ClientSpec == ClientInit /\ [][ClientNext]_clientVars
-----------------------------------------------------------------------------
Certified(b) == [b EXCEPT !.cert = IF b.header.round > 0
                                   THEN [round |-> b.header.round - 1, votes |-> votes] ELSE Nothing]

Handed == Len(votes) + Len(atts) > 0

AnyOpts == [suite |-> Nothing, height |-> Nothing]

\* Validators whose own signature on a message is somewhere in a list.
Signers(list, m) == {v \in Validators : \E i \in DOMAIN list : list[i].sig = [by |-> v, on |-> m]}

Attesters(b, set) == Signers(atts, attestMessage(b.suite, b.header.height, b.header, set))

GaveUp(b, set) ==
    Signers(votes, viewChangeMessage(b.suite, b.header.height, b.header.prevHash, b.header.round - 1, set))

\* Whatever lists come with a block, it is final only when validators holding the
\* fraction signed it for this very set and epoch, its proposer is the one the
\* draw of its round chose, and a later round was opened by validators holding the
\* fraction who gave up the round before (verifyFinalized, verifyViewChangeCert).
FinalityIsEarned ==
    Handed => \A c \in Blocks, set \in Sets, f \in Fractions : LET b == Certified(c) IN
        verifyFinalized(b, atts, set, b.header.prevHash, f, AnyOpts) =>
            /\ Reaches(StakeHeld(Attesters(b, set)), f)
            /\ b.header.round >= 0
            /\ IF set.keyed
               THEN Owner[Draw[<<b.header.proposer, b.header.prevHash, b.header.round>>]] = b.header.proposer
               ELSE b.header.round = 0 /\ b.vrfProof = Nothing
            /\ b.header.round > 0 => Reaches(StakeHeld(GaveUp(b, set)), f)

\* Of the entries in fits, the first of every validator is signed by it on m.
Untainted(list, fits, m) ==
    \A i \in fits :
        \/ list[i].sig = [by |-> list[i].validator, on |-> m]
        \/ \E j \in fits : j < i /\ list[j].validator = list[i].validator

\* Stake of the validators whose entry in fits carries their signature on m.
Gathered(list, fits, m) ==
    StakeHeld({v \in Validators : \E i \in fits : list[i].validator = v /\ list[i].sig = [by |-> v, on |-> m]})

Assembled(list, fits, m, f) == Reaches(Gathered(list, fits, m), f) /\ Untainted(list, fits, m)

\* The drawn proposer of c has what it takes: a quorum opened the round, another signed.
ElectedAssembled(c, set, f) ==
    LET h == c.header
    IN  /\ h.round >= 0 /\ h.vrfOutput = Draw[<<h.proposer, h.prevHash, h.round>>]
        /\ Owner[h.vrfOutput] = h.proposer
        /\ Len(votes) <= maxVotes /\ Len(atts) <= maxVotes
        /\ h.round > 0 =>
              Assembled(votes, {i \in DOMAIN votes : VoteFits(votes[i], c.suite, h.height, h.prevHash, h.round - 1)},
                        viewChangeMessage(c.suite, h.height, h.prevHash, h.round - 1, set), f)
        /\ Assembled(atts, {i \in DOMAIN atts : AttestationFits(atts[i], c, AnyOpts)},
                     attestMessage(c.suite, h.height, h, set), f)

\* The elected proposer is not refused: a block that proposeVrf builds for a round
\* that a quorum opened becomes final with a quorum of attestations, in any order,
\* with copies and among attestations and votes about other blocks and rounds, as
\* long as no entry about this very block or round that does not verify comes
\* before the validator's genuine one (attempted in verifyFinalized).
ElectedFinalizes ==
    Handed => \A c \in Blocks, set \in Sets, f \in Fractions :
        LET h == c.header
            b == proposeVrf(c.suite, h.height, h.prevHash, h.round, h.proposer, set, Certified(c).cert, f)
        IN  set.keyed /\ FractionOK(f) /\ ElectedAssembled(c, set, f) =>
                b # Nothing /\ verifyFinalized(b, atts, set, h.prevHash, f, [suite |-> c.suite, height |-> h.height])

\* The proofs that can be handed over about a block.
Proofs == {exportFinalityProof(Certified(c), atts, c.header.prevHash, f, e) :
              c \in Blocks, f \in Fractions, e \in {s.epoch : s \in Sets} \cup {Nothing}}

\* A consumer that knows only its own set and an accepted portable proof knows that
\* the validators of this set, in its epoch, hold the fraction the proof names and
\* signed its block (verifyPortableFinality).
PortableIsEarned ==
    Handed => \A p \in Proofs, set \in Sets :
        verifyPortableFinality(p, set, AnyOpts) =>
            /\ Reaches(StakeHeld(Attesters(p.block, set)), p.fraction)
            /\ StakeHeld(Attesters(p.block, set)) > 0
            /\ set.epoch # Nothing => p.epoch \in {Nothing, set.epoch}

\* A relayer that forwards only the attestations finalityProofToEvmInput keeps does
\* not turn the verdict on a proof, unless the list was over the cap before.
RelayedViewKeepsVerdict ==
    Handed => \A p \in Proofs, set \in Sets :
        Len(p.attestations) <= maxVotes =>
            (verifyPortableFinality([p EXCEPT !.attestations = finalityProofToEvmInput(p)], set, AnyOpts)
                <=> verifyPortableFinality(p, set, AnyOpts))

\* What the header of portable.ts says of every accepted proof: its trust root is
\* the signatures of more than two thirds of the stake.
TwoThirdsTrustRoot ==
    Handed => \A p \in Proofs, set \in Sets :
        verifyPortableFinality(p, set, AnyOpts) =>
            StakeHeld(Attesters(p.block, set)) * 3 > 2 * totalStake

\* Nothing is final that was not earned, for a light client and for the consumer of a
\* portable proof (verifyFinalized, verifyPortableFinality).
OnlyEarnedFinality == FinalityIsEarned /\ PortableIsEarned

\* What was earned is recognized, directly and from what a relayer passes on
\* (proposeVrf, verifyFinalized, finalityProofToEvmInput).
EarnedFinalityCounts == ElectedFinalizes /\ RelayedViewKeepsVerdict
=============================================================================
