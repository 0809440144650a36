------------------------------- MODULE Merkle -------------------------------
(***************************************************************************)
(* The hash trees of the transparency log: roots, audit paths, consistency *)
(* proofs, and the verifiers that rebuild a root from a path with bit      *)
(* arithmetic and never see the tree.  A hash is the term it was computed  *)
(* from, so two hashes are equal when their inputs are (no collisions).    *)
(***************************************************************************)
EXTENDS Integers, Sequences, SequencesExt, FiniteSets, FiniteSetsExt, Bitwise

CONSTANT MAX_TREE_SIZE      \* the largest size the verifiers take

emptyRoot == <<"empty">>
leafHash(data) == <<"leaf", data>>
nodeHash(l, r) == <<"node", l, r>>

Bit(x, i) == (x \div 2^i) % 2

bitLength(x) == Min({n \in 0..x : x < 2^n})
popcount(x) == Cardinality({i \in 0..x : Bit(x, i) = 1})
trailingZeros(x) == IF x <= 0 THEN 0 ELSE Min({i \in 0..x : Bit(x, i) = 1})

\* The largest power of two below n.
splitPoint(n) == 2^Max({i \in 0..n : i = 0 \/ 2^i < n})

Take(s, k) == SubSeq(s, 1, IF k < Len(s) THEN k ELSE Len(s))
Drop(s, k) == SubSeq(s, k + 1, Len(s))
-----------------------------------------------------------------------------
RECURSIVE merkleRoot(_)
merkleRoot(entries) ==
    LET n == Len(entries)
        k == splitPoint(n)
    IN  CASE n = 0 -> emptyRoot
          [] n = 1 -> leafHash(entries[1])
          [] OTHER -> nodeHash(merkleRoot(Take(entries, k)), merkleRoot(Drop(entries, k)))

\* The path for entry m, counted from 0, of a log that has one.
RECURSIVE inclusionProof(_, _)
inclusionProof(entries, m) ==
    LET n == Len(entries)
        k == splitPoint(n)
    IN  CASE n = 1 -> <<>>
          [] n > 1 /\ m < k ->
                Append(inclusionProof(Take(entries, k), m), merkleRoot(Drop(entries, k)))
          [] OTHER ->
                Append(inclusionProof(Drop(entries, k), m - k), merkleRoot(Take(entries, k)))

RECURSIVE subproof(_, _, _)
subproof(entries, m, b) ==
    LET n == Len(entries)
        k == splitPoint(n)
    IN  CASE m = n -> IF b THEN <<>> ELSE <<merkleRoot(entries)>>
          [] m < n /\ m <= k ->
                Append(subproof(Take(entries, k), m, b), merkleRoot(Drop(entries, k)))
          [] OTHER ->
                Append(subproof(Drop(entries, k), m - k, FALSE), merkleRoot(Take(entries, k)))

consistencyProof(entries, m, n) ==
    IF m = 0 \/ m = n THEN <<>> ELSE subproof(Take(entries, n), m, TRUE)
-----------------------------------------------------------------------------
Siblings(proof, index) == [i \in 1..Len(proof) |-> [hash |-> proof[i], bit |-> Bit(index, i - 1)]]

chainInner(seed, proof, index) ==
    FoldLeft(LAMBDA acc, p : IF p.bit = 0 THEN nodeHash(acc, p.hash) ELSE nodeHash(p.hash, acc),
             seed, Siblings(proof, index))

chainInnerRight(seed, proof, index) ==
    FoldLeft(LAMBDA acc, p : IF p.bit = 1 THEN nodeHash(p.hash, acc) ELSE acc,
             seed, Siblings(proof, index))

chainBorderRight(seed, proof) == FoldLeft(LAMBDA acc, h : nodeHash(h, acc), seed, proof)

\* Bits of m below inner tell left from right; above it every sibling is on the left.
verifyInclusion(m, n, leaf, proof, root) ==
    LET inner == bitLength(m ^^ (n - 1))
        border == popcount(m \div 2^inner)
    IN  /\ 0 <= m /\ m < n /\ n <= MAX_TREE_SIZE
        /\ Len(proof) = inner + border
        /\ root = chainBorderRight(chainInner(leafHash(leaf), Take(proof, inner), m),
                                   Drop(proof, inner))

\* The part of verifyConsistency for 0 < m < n: rebuild both roots from one path.
LinksRoots(m, n, proof, root1, root2) ==
    LET shift == trailingZeros(m)
        inner == bitLength((m - 1) ^^ (n - 1)) - shift
        whole == m = 2^shift        \* the older tree is a subtree of the newer one
        seed == IF whole THEN root1 ELSE proof[1]
        p == IF whole THEN proof ELSE Tail(proof)
        mask == (m - 1) \div 2^shift
    IN  /\ inner >= 0
        /\ whole \/ proof # <<>>
        /\ Len(proof) <= 2 * bitLength(n) + 1
        /\ root1 = chainBorderRight(chainInnerRight(seed, Take(p, inner), mask), Drop(p, inner))
        /\ root2 = chainBorderRight(chainInner(seed, Take(p, inner), mask), Drop(p, inner))

\* The root of an empty log is not looked at.
verifyConsistency_AnyEmpty(m, n, proof, root1, root2) ==
    /\ 0 <= m /\ m <= n /\ n <= MAX_TREE_SIZE
    /\ CASE m = n -> proof = <<>> /\ root1 = root2
         [] m = 0 /\ m < n -> proof = <<>>
         [] OTHER -> LinksRoots(m, n, proof, root1, root2)

verifyConsistency(m, n, proof, root1, root2) ==
    /\ 0 <= m /\ m <= n /\ n <= MAX_TREE_SIZE
    /\ CASE m = n -> proof = <<>> /\ root1 = root2
         [] m = 0 /\ m < n -> proof = <<>> /\ root1 = emptyRoot
         [] OTHER -> LinksRoots(m, n, proof, root1, root2)
=============================================================================
