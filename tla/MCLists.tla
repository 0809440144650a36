------------------------------ MODULE MCLists ------------------------------
(***************************************************************************)
(* An instance for TLC of the verifiers that judge a list somebody else    *)
(* put together: governance approvals, attestation evidence, quorum        *)
(* receipts, timeout votes and attestations of a block, signatures for     *)
(* EVM chains.  The parts share nothing; each is explored with the others  *)
(* at rest.                                                                *)
(***************************************************************************)
EXTENDS Governance, EvidenceQuorum, LightClient, QuorumReceipts, EvmFinality, SequencesExt

CONSTANTS m1, m2, o1, va, vb, vc

\* A revocation and a rotation of the same target.
MCProposals ==
    {[kind |-> "revoke", target |-> [grant |-> "cap"], notBefore |-> 0, notAfter |-> 0],
     [kind |-> "rotate", target |-> [grant |-> "cap"], notBefore |-> 0, notAfter |-> 1]}

-----------------------------------------------------------------------------
Statement(label, format, attester, key, nonce, notAfter, quote) ==
    [format |-> label, attester |-> attester, suite |-> "PS-5", sealed |-> TRUE,
     quoteOK |-> quote,
     claims |-> [format |-> format, sessionId |-> "s", sessionPublicKey |-> key,
                 nonce |-> nonce, notAfter |-> notAfter]]

\* Two attesters in two formats that expire at different times, one of them also
\* in a second format; then a relabelled quote, one that does not verify, a stale
\* nonce, another session and an unknown attester.
MCOffered ==
    {Statement("software-dev", "software-dev", "a", "k", "n1", 1, FALSE),
     Statement("software-dev", "software-dev", "b", "k", "n1", 2, FALSE),
     Statement("tdx", "tdx", "b", "k", "n1", 3, TRUE),
     Statement("tdx", "tdx", "a", "k", "n1", 2, TRUE),
     Statement("software-dev", "tdx", "a", "k", "n1", 3, TRUE),
     Statement("tdx", "tdx", "a", "k", "n1", 3, FALSE),
     Statement("tdx", "tdx", "a", "k", "n0", 3, TRUE),
     Statement("tdx", "tdx", "a", "other", "n1", 1, TRUE),
     Statement("software-dev", "software-dev", "c", "k", "n1", 3, FALSE)}
-----------------------------------------------------------------------------
\* Stakes 2, 1 and 1: va and one of the others are two thirds, va alone one third.
MCValidators == {va, vb, vc}

MCOwner == [u \in 1..4 |-> IF u <= 2 THEN va ELSE IF u = 3 THEN vb ELSE vc]

MCFractions == {<<2, 3>>, <<1, 3>>, <<0, 3>>}

Keyed == [epoch |-> 1, keyed |-> TRUE]
KeyedLater == [epoch |-> 2, keyed |-> TRUE]
Keyless == [epoch |-> 1, keyed |-> FALSE]

MCSets == {Keyed, KeyedLater, Keyless}

\* va leads round 0, vb round 1.
MCDraw == [k \in MCValidators \X {"p"} \X {-1, 0, 1} |-> CASE k[3] = 0 -> 1 [] k[3] = 1 -> 3 [] OTHER -> 4]

MCSeed == [p \in {"p"} |-> 1]

MCBlock(round, proposer, out, proof) ==
    LET h == [height |-> 5, prevHash |-> "p", round |-> round, proposer |-> proposer, vrfOutput |-> out]
    IN  [header |-> h, suite |-> "PS-5", vrfProof |-> proof, cert |-> Nothing,
         sig |-> [by |-> proposer, on |-> <<"PS-5", h>>]]

Elected0 == MCBlock(0, va, 1, prove(va, "p", 0))
Elected1 == MCBlock(1, vb, 3, prove(vb, "p", 1))
Negative == MCBlock(-1, vc, 4, prove(vc, "p", -1))
Borrowed == MCBlock(1, va, 1, prove(va, "p", 0))
Proofless == MCBlock(0, va, Nothing, Nothing)

MCBlocks == {Elected0, Elected1, Negative, Borrowed, Proofless}

Vote(v, round, by, set) ==
    [validator |-> v, suite |-> "PS-5", height |-> 5, prevHash |-> "p", round |-> round,
     sig |-> [by |-> by, on |-> viewChangeMessage("PS-5", 5, "p", round, set)]]

\* A genuine vote of everybody; one under a false name, of another round, of
\* another epoch.
MCVotes ==
    {Vote(v, 0, v, Keyed) : v \in MCValidators}
    \cup {Vote(va, 0, vc, Keyed), Vote(va, 1, va, Keyed), Vote(vb, 0, vb, KeyedLater)}

Attests(v, b, by, set) ==
    [validator |-> v, blockHash |-> b.header, height |-> 5, suite |-> "PS-5",
     sig |-> [by |-> by, on |-> attestMessage("PS-5", 5, b.header, set)]]

MCAttestations ==
    {Attests(v, Elected1, v, Keyed) : v \in MCValidators}
    \cup {Attests(va, Elected1, vc, Keyed), Attests(vb, Elected1, vb, KeyedLater),
          Attests(va, Elected0, va, Keyed)}
    \cup {Attests(v, Proofless, v, Keyless) : v \in {va, vb}}
    \cup {Attests(v, Negative, v, Keyed) : v \in {va, vb}}
-----------------------------------------------------------------------------
Body == QuorumBody("r", "own", 2, 1, "PS-5")

\* The expected body, one for a substituted set, a lower threshold, a later epoch.
MCBodies == {Body, QuorumBody("r", "other", 2, 1, "PS-5"), QuorumBody("r", "own", 1, 1, "PS-5"),
             QuorumBody("r", "own", 2, 2, "PS-5")}

MCCosignatures ==
    UNION {ToSet(buildQuorumReceipt(b, <<va, vb>>)) : b \in MCBodies}
    \cup {[cosign(vc, Body) EXCEPT !.validator = va], [cosign(vb, Body) EXCEPT !.suite = "PS-1"],
          cosign(o1, Body)}
-----------------------------------------------------------------------------
Member(p, s) == [pubkey |-> p, stake |-> s, vrf |-> <<>>]

\* Three keys, the second a prefix extension of the first.
kA == <<1>>
kB == <<1, 0>>
kC == <<2>>

InOrder == <<Member(kA, 2), Member(kB, 1), Member(kC, 1)>>
OutOfOrder == <<Member(kB, 1), Member(kA, 2)>>
Rich == <<Member(kA, 9), Member(kC, 7)>>
Negatives == <<Member(kA, -1), Member(kB, 1)>>

MCEvmSets == {InOrder, OutOfOrder, Rich, Negatives, <<Member(kA, 1), Member(kA, 1)>>, <<Member(<<>>, 1), Member(kA, 2)>>}

MCEvmFractions == {<<2, 3>>, <<1, 2>>, <<0, 1>>}

MCHere == <<1, "addr">>
MCThere == <<2, "addr">>
MCTargets == {MCHere, MCThere}

EvmSig(k, by, height, h, target, set) ==
    [pubkey |-> k, sig |-> [by |-> by, on |->
        evmAttestMessage("PS-5", height, h, evmSetId(canonicalMembers(set), 1), target)]]

MCEvmSignatures ==
    {EvmSig(k, k, 1, h, MCHere, InOrder) : k \in {kA, kB}, h \in {"A", "B"}}
    \cup {EvmSig(kC, kC, 1, "A", MCHere, InOrder), EvmSig(kA, kC, 1, "A", MCHere, InOrder),
          EvmSig(kA, kA, 1, "A", MCThere, InOrder), EvmSig(kA, kA, 2, "B", MCHere, InOrder),
          EvmSig(kA, kA, 1, "A", MCHere, OutOfOrder), EvmSig(kA, kA, 1, "A", MCHere, Rich),
          EvmSig(kB, kB, 1, "A", MCHere, Negatives)}
-----------------------------------------------------------------------------
MCInit == GovInit /\ EvidenceInit /\ ClientInit /\ ReceiptInit /\ EvmInit

MCNext ==
    \/ EvidenceInit /\ ClientInit /\ ReceiptInit /\ EvmInit /\ GovNext
       /\ UNCHANGED <<evidenceVars, clientVars, cosigned, evmAtts>>
    \/ GovInit /\ ClientInit /\ ReceiptInit /\ EvmInit /\ EvidenceNext
       /\ UNCHANGED <<govVars, clientVars, cosigned, evmAtts>>
    \/ GovInit /\ EvidenceInit /\ ReceiptInit /\ EvmInit /\ ClientNext
       /\ UNCHANGED <<govVars, evidenceVars, cosigned, evmAtts>>
    \/ GovInit /\ EvidenceInit /\ ClientInit /\ EvmInit /\ ReceiptNext
       /\ UNCHANGED <<govVars, evidenceVars, clientVars, evmAtts>>
    \/ GovInit /\ EvidenceInit /\ ClientInit /\ ReceiptInit /\ EvmNext
       /\ UNCHANGED <<govVars, evidenceVars, clientVars, cosigned>>
=============================================================================
