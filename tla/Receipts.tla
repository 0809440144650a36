------------------------------ MODULE Receipts ------------------------------
(***************************************************************************)
(* Evidence receipts: what the issuer signs, what is published in the log, *)
(* and what an outsider checks.  Commitments are salted digests, modelled  *)
(* as the term they are computed from; the salt travels with the receipt   *)
(* and never with the published body.                                      *)
(***************************************************************************)
EXTENDS Merkle

CONSTANT ActiveSuites       \* the suites activeSuiteIds() returns

commitField(value, salt) == <<"commit", salt, value>>

\* p: the suite, the kernel's verdict and what it was about.  The replay hashes are
\* functions of those.
buildReceipt(p, salt, issuer) ==
    [body |-> [suite |-> p.suite, effect |-> p.effect, tier |-> p.tier,
               commitments |->
                   [intent |-> commitField(p.intent, salt),
                    capability |-> IF p.capability = "null" THEN <<"none">>
                                   ELSE commitField(p.capability, salt),
                    policy |-> commitField(p.policy, salt),
                    inputHash |-> commitField(<<p.intent, p.policy>>, salt),
                    decisionHash |-> commitField(<<p.effect, p.tier>>, salt)]],
     signedBy |-> issuer, signerPublicKey |-> issuer, intentSalt |-> salt]

receiptLeaf(r) == r.body

\* signedBy: whose signature over the tagged body the receipt carries.
verifyReceipt(r) == r.body.suite \in ActiveSuites /\ r.signedBy = r.signerPublicKey

checkInclusion(w, root) == verifyInclusion(w.index, w.size, w.leaf, w.proof, root)

verifyReceiptInclusion(r, witness, gossipedRoot, trustedIssuerKey) ==
    /\ verifyReceipt(r)
    /\ r.signerPublicKey = trustedIssuerKey
    /\ witness.leaf = receiptLeaf(r)
    /\ checkInclusion(witness, gossipedRoot)

\* What an operator hands out; it carries the issuer and the root it claims for itself.
makeBundle(r, witness, root, issuer) ==
    [receipt |-> r, witness |-> witness, gossipedRoot |-> root, issuerPublicKey |-> issuer]

\* An anchor that is not given is taken from the bundle.
verifyBundle_SelfAnchored(b, issuer, root) ==
    IF verifyReceiptInclusion(b.receipt, b.witness,
                              IF root = <<>> THEN b.gossipedRoot ELSE root[1],
                              IF issuer = <<>> THEN b.issuerPublicKey ELSE issuer[1])
    THEN 0 ELSE 1

\* The exit code of the command-line verifier.  An anchor that was not given is <<>>.
verifyBundle(b, issuer, root) ==
    IF issuer = <<>> \/ root = <<>> THEN 2
    ELSE IF verifyReceiptInclusion(b.receipt, b.witness, root[1], issuer[1]) THEN 0 ELSE 1
=============================================================================
