---------------------------- MODULE EvmFinality ----------------------------
(***************************************************************************)
(* Finality for EVM chains, twice: the reference verifier in TypeScript    *)
(* (ledger/src/evmprofile.ts) and the contract that has to agree with it   *)
(* (contracts/NerionFinalityVerifier.sol).                                 *)
(*                                                                         *)
(* A validator set is the sequence of its members as the caller passes it. *)
(* A public key is a sequence of bytes, since the fold of the set id is in *)
(* their lexicographic order.  keccak is injective: the id of a set is the *)
(* sequence it folds over and the epoch, a message is the record of its    *)
(* parts.  A signature is the key that made it and the message.  The       *)
(* integers of the contract are WORD wide (2^256 - 1) and its arithmetic   *)
(* reverts beyond; the reference has bigints.                              *)
(***************************************************************************)
EXTENDS Integers, Sequences, FiniteSets, FiniteSetsExt

CONSTANTS
    EvmSets,            \* sequences of members: pubkey, stake, vrf
    EvmSignatures,      \* signed attestations that may be in a list
    EvmFractions,
    EvmSuites, KnownSuites, BlockHashes, EvmHeights, Targets,
    Here,               \* <<block.chainid, address(this)>> of the deployment
    Word,               \* the largest uint256
    MAX_VALIDATORS, MAX_ATTESTATIONS,
    MaxEvmList          \* bound on the list

\* Sets are sequences of the records of the code, with bytes and stakes that are numbers;
\* chain ids are words, heights no negative numbers, and whoever signs has a signer.
ASSUME EvmAssumption ==
    /\ \A set \in EvmSets : /\ set \in Seq({set[i] : i \in DOMAIN set})
                             /\ \A i \in DOMAIN set :
                                   /\ set[i] = [pubkey |-> set[i].pubkey, stake |-> set[i].stake, vrf |-> set[i].vrf]
                                   /\ set[i].pubkey \in Seq(Int) /\ set[i].stake \in Int
    /\ \A a \in EvmSignatures : a.sig.on.suite \in KnownSuites
    /\ EvmFractions \subseteq Int \X Int /\ EvmHeights \subseteq Nat
    /\ Word \in Nat /\ Word >= 1 /\ Here[1] \in 0..Word /\ MAX_VALIDATORS \in Nat /\ MAX_ATTESTATIONS \in Nat

VARIABLE evmAtts

\* Lexicographic order on bytes, a proper prefix first (cmpBytes, _lt).
_lt(x, y) ==
    \/ \E i \in DOMAIN x \cap DOMAIN y : x[i] < y[i] /\ \A j \in 1..i - 1 : x[j] = y[j]
    \/ Len(x) < Len(y) /\ \A j \in DOMAIN x : x[j] = y[j]

-----------------------------------------------------------------------------
(* evmprofile.ts *)

\* canonicalMembers throws otherwise.
WellFormed(set) ==
    /\ \A i \in DOMAIN set : set[i].pubkey # <<>> /\ set[i].stake <= Word
    /\ \A i, j \in DOMAIN set : set[i].pubkey = set[j].pubkey => i = j

\* The members in the order of their keys: the k-th has k - 1 smaller ones.
canonicalMembers(set) ==
    LET member(m) == [pubkey |-> m.pubkey, stake |-> Max({m.stake, 0}), vrf |-> m.vrf]
        smaller(i) == {j \in DOMAIN set : _lt(set[j].pubkey, set[i].pubkey)}
    IN  [k \in DOMAIN set |-> member(set[CHOOSE i \in DOMAIN set : Cardinality(smaller(i)) = k - 1])]

evmSetId(members, epoch) == [members |-> members, epoch |-> epoch]

evmAttestMessage(suite, height, hash, setId, target) ==
    [suite |-> suite, target |-> target, height |-> height, hash |-> hash, setId |-> setId]

\* The message throws on a height that is no safe uint or a chain id out of range.
Encodable(height, target, epoch) == height >= 0 /\ epoch >= 0 /\ target[1] \in 0..Word

\* The stakes at the positions in P, added up from the first on.
SumLoop(set, P) ==
    LET sum[i \in 0..Len(set)] ==
          IF i = 0 THEN 0 ELSE sum[i - 1] + IF i \in P THEN set[i].stake ELSE 0
    IN  sum

TotalStake(set) == SumLoop(set, DOMAIN set)[Len(set)]

StakeIn(set, pubkey) ==
    LET I == {i \in DOMAIN set : set[i].pubkey = pubkey}
    IN  IF I = {} THEN 0 ELSE set[Min(I)].stake

\* An entry that counts: of a staked member, with a signature that verifies.
Verifies(set, a, msg) == StakeIn(set, a.pubkey) > 0 /\ a.sig = [by |-> a.pubkey, on |-> msg]

\* One round of the loop over the attestations, the same in both languages: a key is
\* counted on its first signature that verifies.
TallyEntry(set, list, msg, i, acc) ==
    IF list[i].pubkey \in acc.seen \/ ~Verifies(set, list[i], msg) THEN acc
    ELSE [seen |-> acc.seen \cup {list[i].pubkey}, stake |-> acc.stake + StakeIn(set, list[i].pubkey)]

TallyLoop(set, list, msg) ==
    LET tally[i \in 0..Len(list)] ==
          IF i = 0 THEN [seen |-> {}, stake |-> 0] ELSE TallyEntry(set, list, msg, i, tally[i - 1])
    IN  tally

AttestedStake(set, list, msg) == TallyLoop(set, list, msg)[Len(list)].stake

\* Keys with an entry that counts.
CountedKeys(set, list, msg) == {list[i].pubkey : i \in {j \in DOMAIN list : Verifies(set, list[j], msg)}}

\* "final", "open" or, for a suite without a signer, "throws".
verifyEvmFinality(set, epoch, list, suite, height, hash, target, f) ==
    LET canon == canonicalMembers(set)
        msg == evmAttestMessage(suite, height, hash, evmSetId(canon, epoch), target)
        total == TotalStake(canon)
    IN  IF \/ ~(1 <= f[1] /\ f[1] <= f[2])
           \/ Len(set) > MAX_VALIDATORS \/ Len(list) > MAX_ATTESTATIONS
           \/ ~WellFormed(set) \/ ~Encodable(height, target, epoch)
           \/ total <= 0
        THEN "open"
        ELSE IF suite \notin KnownSuites THEN "throws"
        ELSE IF AttestedStake(canon, list, msg) * f[2] >= f[1] * total
        THEN "final" ELSE "open"

\* For a suite with a signer: one proof for each staked key with a valid signature for both blocks: the
\* first valid one on each side.
detectEvmEquivocations(set, epoch, suite, height, target, hashA, attsA, hashB, attsB) ==
    LET canon == canonicalMembers(set)
        msg(h) == evmAttestMessage(suite, height, h, evmSetId(canon, epoch), target)
    IN  IF \/ hashA = hashB
           \/ Len(attsA) > MAX_ATTESTATIONS \/ Len(attsB) > MAX_ATTESTATIONS
           \/ ~WellFormed(set) \/ ~Encodable(height, target, epoch)
        THEN {}
        ELSE {[validator |-> p, height |-> height, hashA |-> hashA, hashB |-> hashB,
               sigA |-> [by |-> p, on |-> msg(hashA)], sigB |-> [by |-> p, on |-> msg(hashB)]] :
                 p \in CountedKeys(canon, attsA, msg(hashA)) \cap CountedKeys(canon, attsB, msg(hashB))}

\* Mutant: the two messages may be of any heights.
verifyEvmEquivocationProof_AnyHeight(p, set, epoch, suite, target) ==
    /\ p.hashA # p.hashB
    /\ WellFormed(set) /\ Encodable(p.height, target, epoch)
    /\ StakeIn(canonicalMembers(set), p.validator) > 0
    /\ p.sigA.by = p.validator /\ p.sigA.on.hash = p.hashA
    /\ p.sigB.by = p.validator /\ p.sigB.on.hash = p.hashB

verifyEvmEquivocationProof(p, set, epoch, suite, target) ==
    LET canon == canonicalMembers(set)
        msg(h) == evmAttestMessage(suite, p.height, h, evmSetId(canon, epoch), target)
    IN  /\ p.hashA # p.hashB
        /\ WellFormed(set) /\ Encodable(p.height, target, epoch)
        /\ StakeIn(canon, p.validator) > 0
        /\ p.sigA = [by |-> p.validator, on |-> msg(p.hashA)]
        /\ p.sigB = [by |-> p.validator, on |-> msg(p.hashB)]
-----------------------------------------------------------------------------
(* NerionFinalityVerifier.sol: "yes", "no" or "revert" *)

\* evmSetId reverts otherwise.
Sorted(set) ==
    /\ \A i \in DOMAIN set : set[i].pubkey # <<>>
    /\ \A i \in 2..Len(set) : _lt(set[i - 1].pubkey, set[i].pubkey)

\* The requires in front of both functions.
Admitted(set, target) == target = Here /\ Len(set) <= MAX_VALIDATORS

\* Mutant: the signatures are checked on the message for the target of the call.
verifyFinality_AnyTarget(set, epoch, list, suite, height, hash, target, f) ==
    LET msg == evmAttestMessage(suite, height, hash, evmSetId(set, epoch), target)
        attesting == AttestedStake(set, list, msg)
        total == TotalStake(set)
    IN  IF Sorted(set) /\ total \in 1..Word /\ attesting * f[2] >= f[1] * total THEN "yes" ELSE "no"

verifyFinality(set, epoch, list, suite, height, hash, target, f) ==
    LET msg == evmAttestMessage(suite, height, hash, evmSetId(set, epoch), target)
        attesting == AttestedStake(set, list, msg)
        total == TotalStake(set)
    IN  IF \/ ~(1 <= f[1] /\ f[1] <= f[2])
           \/ ~Admitted(set, target) \/ Len(list) > MAX_ATTESTATIONS
           \/ ~Sorted(set)
           \/ total = 0 \/ total > Word
           \/ attesting * f[2] > Word \/ f[1] * total > Word
        THEN "revert"
        ELSE IF attesting * f[2] >= f[1] * total THEN "yes" ELSE "no"

verifyEquivocation(p, set, epoch, suite, target) ==
    LET msg(h) == evmAttestMessage(suite, p.height, h, evmSetId(set, epoch), target)
    IN  IF ~Admitted(set, target) THEN "revert"
        ELSE IF p.hashA = p.hashB \/ StakeIn(set, p.validator) = 0 THEN "no"
        ELSE IF ~Sorted(set) THEN "revert"
        ELSE IF /\ p.sigA = [by |-> p.validator, on |-> msg(p.hashA)]
                /\ p.sigB = [by |-> p.validator, on |-> msg(p.hashB)]
        THEN "yes" ELSE "no"
-----------------------------------------------------------------------------
EvmInit == evmAtts = <<>>

HandEvm(a) ==
    /\ Len(evmAtts) < MaxEvmList
    /\ evmAtts' = Append(evmAtts, a)

EvmNext == \E a \in EvmSignatures : HandEvm(a)

EvmSpec == EvmInit /\ [][EvmNext]_evmAtts

\* What can be put in calldata: the stakes are unsigned words.
Callable(set) == \A i \in DOMAIN set : set[i].stake \in 0..Word

\* No product of the contract's threshold test leaves the word.
Fits(set, f) == f[2] * TotalStake(set) <= Word

\* The contract never finalizes what the reference does not, for any set, order of
\* members, list, destination and fraction; and it finalizes what the reference
\* does when it runs at the destination, gets the members in order and no product
\* of its threshold test overflows (verifyFinality against verifyEvmFinality).
EvmParity ==
    evmAtts # <<>> => \A set \in EvmSets, f \in EvmFractions, s \in EvmSuites, t \in Targets, h \in BlockHashes, n \in EvmHeights :
        LET ts == verifyEvmFinality(set, 1, evmAtts, s, n, h, t, f)
            sol == verifyFinality(set, 1, evmAtts, s, n, h, t, f)
        IN  Callable(set) =>
                /\ sol = "yes" => ts = "final"
                /\ (t = Here /\ Sorted(set) /\ Fits(set, f) /\ ts = "final") => sol = "yes"

\* Proofs that can be put together with the signature that came last and an
\* earlier one (all the others were in the list before).
Accusations ==
    {[validator |-> evmAtts[i].pubkey, height |-> n, hashA |-> hA, hashB |-> hB,
      sigA |-> evmAtts[i].sig, sigB |-> evmAtts[Len(evmAtts)].sig] :
        i \in DOMAIN evmAtts, n \in EvmHeights, hA \in BlockHashes, hB \in BlockHashes}

DoubleSigned(p) ==
    /\ p.sigA.by = p.validator /\ p.sigB.by = p.validator
    /\ p.sigA.on.height = p.sigB.on.height
    /\ p.sigA.on.target = p.sigB.on.target
    /\ p.sigA.on.hash # p.sigB.on.hash

\* A validator that signs one block per height and destination cannot be blamed:
\* every proof that either verifier accepts, of all those that can be put together
\* from signatures in circulation, carries two signatures of the validator on
\* different blocks of one height, for one destination.
BlameIsEarned ==
    \A p \in Accusations, set \in EvmSets, s \in EvmSuites, t \in Targets :
        \/ verifyEvmEquivocationProof(p, set, 1, s, t)
        \/ verifyEquivocation(p, set, 1, s, t) = "yes"
        => DoubleSigned(p)

\* Double signing does not go unpunished: what detectEvmEquivocations reports from
\* what two relayers hold, junk and copies included, both verifiers accept.
BlameSticks ==
    evmAtts # <<>> => \A set \in EvmSets, n \in EvmHeights, hA \in BlockHashes, hB \in BlockHashes :
        \A p \in detectEvmEquivocations(set, 1, "PS-5", n, Here, hA, evmAtts, hB, evmAtts) :
            /\ verifyEvmEquivocationProof(p, set, 1, "PS-5", Here)
            /\ (Callable(set) /\ Sorted(set) /\ Len(set) <= MAX_VALIDATORS) =>
                  verifyEquivocation(p, set, 1, "PS-5", Here) = "yes"

\* Blame falls on those who signed twice and on nobody else, off chain and on chain
\* (detectEvmEquivocations, verifyEvmEquivocationProof, verifyEquivocation).
BlameExact == BlameIsEarned /\ BlameSticks
=============================================================================
