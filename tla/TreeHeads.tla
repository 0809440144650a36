------------------------------ MODULE TreeHeads ------------------------------
(***************************************************************************)
(* Signed tree heads and the people who watch them.  Operators sign        *)
(* whatever sizes and roots they like, relays alter heads on the way, and  *)
(* monitors look at the list they have collected.                          *)
(***************************************************************************)
EXTENDS Receipts

CONSTANTS
    Operators,
    Views,          \* logs, sequences of leaves
    Claims,         \* sizes and roots operators may sign, those of Views and others
    Shown,          \* the receipts presented to an outsider
    trustedIssuer,
    MaxHeads,       \* bound on the heads collected
    MaxProof        \* bound on the length of the proofs tried

VARIABLE sths

\* What the log with these entries hands out: the witness for the entry at index, counted
\* from 0, and the one that leads from an earlier size to the size it has.
proveInclusion(entries, index) ==
    [index |-> index, size |-> Len(entries), leaf |-> entries[index + 1],
     proof |-> inclusionProof(entries, index), root |-> merkleRoot(entries)]

proveConsistency(entries, fromSize) ==
    [from |-> fromSize, to |-> Len(entries),
     proof |-> consistencyProof(entries, fromSize, Len(entries)),
     oldRoot |-> merkleRoot(Take(entries, fromSize)), newRoot |-> merkleRoot(entries)]

checkConsistency(w) == verifyConsistency(w.from, w.to, w.proof, w.oldRoot, w.newRoot)

signTreeHead(size, root, suite, operator) ==
    [operator |-> operator, size |-> size, root |-> root, suite |-> suite, sealed |-> TRUE]

verifyTreeHead(sth, operatorPublicKey) ==
    /\ operatorPublicKey = sth.operator
    /\ sth.suite \in ActiveSuites
    /\ sth.sealed

verifyTreeHeadSelf_Trusting(sth) == sth.suite \in ActiveSuites
verifyTreeHeadSelf(sth) == verifyTreeHead(sth, sth.operator)

SameSlot(a, b) == a.operator = b.operator /\ a.size = b.size

\* A conflict is reported against the first authentic head of the operator at a size.
detectEquivocation(list) ==
    LET s == SelectSeq(list, verifyTreeHeadSelf)
        prior(i) == s[Min({j \in 1..i : SameSlot(s[j], s[i])})]
    IN  {[operator |-> s[i].operator, size |-> s[i].size,
          rootA |-> prior(i).root, rootB |-> s[i].root] :
            i \in {k \in 1..Len(s) : prior(k).root # s[k].root}}

checkAppendOnly(older, newer, proof) ==
    /\ verifyTreeHeadSelf(older) /\ verifyTreeHeadSelf(newer)
    /\ older.operator = newer.operator
    /\ older.size <= newer.size
    /\ verifyConsistency(older.size, newer.size, proof, older.root, newer.root)
-----------------------------------------------------------------------------
HeadsInit == sths = <<>>

\* An operator signs a head, of a log it has or of none.
Sign(op, suite) ==
    \E c \in Claims : sths' = Append(sths, signTreeHead(c.size, c.root, suite, op))

\* A relay changes a head or makes one up: the signature does not fit.
Alter(op, suite) ==
    \E c \in Claims : sths' = Append(sths, [signTreeHead(c.size, c.root, suite, op)
                                               EXCEPT !.sealed = FALSE])

HeadsNext ==
    /\ Len(sths) < MaxHeads
    /\ \E op \in Operators, suite \in ActiveSuites : Sign(op, suite) \/ Alter(op, suite)
-----------------------------------------------------------------------------
Signed == {h \in ToSet(sths) : h.sealed}

\* A split view never hides and never is made up: a conflict is reported for an
\* operator and a size exactly when that operator signed two roots for it, in
\* whatever order the heads came and whatever forgeries are among them
\* (detectEquivocation, verifyTreeHeadSelf).
SplitViewsExposed ==
    {<<e.operator, e.size>> : e \in detectEquivocation(sths)} =
    {<<h.operator, h.size>> : h \in {x \in Signed :
        \E y \in Signed : SameSlot(x, y) /\ x.root # y.root}}

RECURSIVE Subterms(_)
Subterms(h) == {h} \cup (IF h[1] = "node" THEN Subterms(h[2]) \cup Subterms(h[3]) ELSE {})

\* A proof that ends in root is made of parts of root.
Proofs(root) == BoundedSeq(Subterms(root), MaxProof)

RootOf == [v \in Views |-> merkleRoot(v)]

\* The view an honest monitor has of a head: the log of that size with that root.
ViewOf(h) == {v \in Views : Len(v) = h.size /\ RootOf[v] = h.root}

\* The number of hashes a proof from size m to the log v has.
GenuineLength(v, m) == Len(consistencyProof(v, m, Len(v)))

\* No proof hides a rewrite: when a later head is the head of a log and some proof
\* passes checkAppendOnly, the older head is the head of the first entries of that
\* log.  This needs the older head to be the head of some log, or the proof to have
\* the length of a genuine one: verifyConsistency rebuilds both roots from one path
\* and checks no exact length.
RewritesRefused ==
    Len(sths) = 2 => \A a, b \in Signed : \A v \in ViewOf(b) :
        /\ a.operator = b.operator /\ a.size <= b.size
        /\ a.root # merkleRoot(Take(v, a.size))
        => ~ \E proof \in Proofs(b.root) :
                /\ ViewOf(a) # {} \/ Len(proof) = GenuineLength(v, a.size)
                /\ checkAppendOnly(a, b, proof)

\* Every head of a log answers: the witnesses the log makes for any entry and any earlier
\* size pass the verifiers, which work from the bits of the index and the size alone, and
\* end in the roots that were signed (proveInclusion, proveConsistency; checkInclusion,
\* checkConsistency).
WitnessesVerify ==
    Len(sths) = 1 => \A h \in Signed : h.size <= MAX_TREE_SIZE => \A v \in ViewOf(h) :
        /\ \A m \in 0..h.size - 1 : checkInclusion(proveInclusion(v, m), h.root)
        /\ \A m \in 0..h.size :
              LET w == proveConsistency(v, m)
              IN  checkConsistency(w) /\ w.newRoot = h.root

\* A log can prove its history and no other (proveConsistency, proveInclusion,
\* checkAppendOnly).
HistoryProvable == RewritesRefused /\ WitnessesVerify

\* What an outsider accepts is in the log: a bundle that passes the command-line verifier
\* with the root of a head and the trusted issuer, or with one of the two left out, holds a
\* receipt that issuer signed, and its body is the entry at that index of the log, whatever
\* the bundle says of itself (verifyReceiptInclusion, verify-receipt.mjs).
ReceiptsIncluded ==
    Len(sths) = 1 => \A h \in Signed, r \in Shown : \A v \in ViewOf(h) :
        \A m \in 0..h.size, leaf \in ToSet(v), proof \in Proofs(h.root) :
            LET w == [index |-> m, size |-> h.size, leaf |-> leaf, proof |-> proof, root |-> h.root]
                b == makeBundle(r, w, h.root, r.signerPublicKey)
            IN  \A issuer \in {<<>>, <<trustedIssuer>>}, root \in {<<>>, <<h.root>>} :
                    verifyBundle(b, issuer, root) = 0
                    => /\ r.signedBy = trustedIssuer
                       /\ m < h.size /\ v[m + 1] = receiptLeaf(r)
=============================================================================
