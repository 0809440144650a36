--------------------------- MODULE RevocationTree ---------------------------
(***************************************************************************)
(* The sparse hash tree of revoked capabilities: a leaf for every index a  *)
(* capability id can have, of which only the nodes that are not default    *)
(* are stored, and proofs that an id is not revoked, which a verifier      *)
(* checks against the root alone.  A hash is the term it was computed      *)
(* from; an id is a sequence of bits in the place of its hex digits.       *)
(***************************************************************************)
EXTENDS Integers, Sequences, SequencesExt, FiniteSets, Functions, Bitwise

CONSTANTS
    DEPTH,      \* the levels of the tree, 32 in the code
    CapIds

VARIABLES
    nodes,      \* _store: <<depth, index>> -> hash, where it is not the default
    count,      \* _count
    revokedIds  \* history: the ids revoke was called with

treeVars == <<nodes, count, revokedIds>>

notRevoked == <<"not-revoked">>
revokedLeaf(capId) == <<"revoked", capId>>
hash(l, r) == <<"node", l, r>>

DEFAULT[d \in 0..DEPTH] == IF d = 0 THEN notRevoked ELSE hash(DEFAULT[d - 1], DEFAULT[d - 1])

\* The first DEPTH bits of the id, filled up with zeros.
capIndex(capId) ==
    FoldLeft(LAMBDA acc, i : 2 * acc + (IF i <= Len(capId) THEN capId[i] ELSE 0), 0,
             [i \in 1..DEPTH |-> i])

sibling(index) == index ^^ 1

_get(tree, d, index) == IF <<d, index>> \in DOMAIN tree.nodes THEN tree.nodes[d, index] ELSE DEFAULT[d]

\* A default hash is removed from the store, any other is kept in it.
_set(tree, d, index, h) ==
    LET k == <<d, index>>
    IN  IF h = DEFAULT[d]
        THEN [nodes |-> Restrict(tree.nodes, DOMAIN tree.nodes \ {k}),
              count |-> tree.count - Cardinality({k} \cap DOMAIN tree.nodes)]
        ELSE [nodes |-> [x \in DOMAIN tree.nodes \cup {k} |-> IF x = k THEN h ELSE tree.nodes[x]],
              count |-> tree.count + Cardinality({k} \ DOMAIN tree.nodes)]

root(tree) == _get(tree, DEPTH, 0)

\* Every path is hashed as if it came from the left.
Rehash_Left(tree, d, index) ==
    _set(tree, d + 1, index \div 2, hash(_get(tree, d, index), _get(tree, d, sibling(index))))

\* The hash of the node above <<d, index>>, from its two children.
Rehash(tree, d, index) ==
    LET own == _get(tree, d, index)
        other == _get(tree, d, sibling(index))
    IN  _set(tree, d + 1, index \div 2,
             IF index % 2 = 1 THEN hash(other, own) ELSE hash(own, other))

\* The leaf of the id is marked and the nodes above it are hashed again.
revoke(tree, capId) ==
    FoldLeft(LAMBDA t, d : Rehash(t, d, capIndex(capId) \div 2^d),
             _set(tree, 0, capIndex(capId), revokedLeaf(capId)), [i \in 1..DEPTH |-> i - 1])

\* The siblings on the way to the root, if the leaf of the id is not marked.
proveNonMembership(tree, capId) ==
    IF _get(tree, 0, capIndex(capId)) # DEFAULT[0] THEN [ok |-> FALSE, proof |-> <<>>]
    ELSE [ok |-> TRUE,
          proof |-> [i \in 1..DEPTH |->
                        _get(tree, i - 1, sibling(capIndex(capId) \div 2^(i - 1)))]]

\* The root is rebuilt from a leaf that is not revoked and the siblings of the proof.
verifyNonMembership(top, capId, proof) ==
    /\ Len(proof) = DEPTH
    /\ top = FoldLeft(LAMBDA cur, i : IF (capIndex(capId) \div 2^(i - 1)) % 2 = 1
                                      THEN hash(proof[i], cur) ELSE hash(cur, proof[i]),
                      DEFAULT[0], [i \in 1..DEPTH |-> i])
-----------------------------------------------------------------------------
Tree == [nodes |-> nodes, count |-> count]

TreeInit == nodes = <<>> /\ count = 0 /\ revokedIds = {}

Revoke(capId) ==
    LET t == revoke(Tree, capId)
    IN  /\ nodes' = t.nodes /\ count' = t.count
        /\ revokedIds' = revokedIds \cup {capId}

TreeNext == \E capId \in CapIds : Revoke(capId)
-----------------------------------------------------------------------------
RECURSIVE Hashes(_)
Hashes(h) == {h} \cup (IF h[1] = "node" THEN Hashes(h[2]) \cup Hashes(h[3]) ELSE {})

RevokedSlots == {capIndex(c) : c \in revokedIds}

\* The revocations can be relied on after any of them in any order, also of ids that
\* share an index: an id gets a proof exactly when no id of its index is revoked, that
\* proof verifies, and no proof at all, an old one included, verifies for a revoked id
\* against the root that followed (revoke, proveNonMembership, verifyNonMembership).
NonRevocationExact ==
    revokedIds # {} => \A c \in CapIds :
        LET made == proveNonMembership(Tree, c)
        IN  /\ made.ok <=> capIndex(c) \notin RevokedSlots
            /\ made.ok => verifyNonMembership(root(Tree), c, made.proof)
            /\ ~made.ok => \A proof \in [1..DEPTH -> Hashes(root(Tree))] :
                              ~verifyNonMembership(root(Tree), c, proof)

\* The store stays sparse and is counted right: it holds the revoked leaves and the nodes
\* above them and nothing else, however often an index is revoked again (_set).
StoreStaysSparse ==
    /\ count = Cardinality(DOMAIN nodes)
    /\ DOMAIN nodes = {<<d, i \div 2^d>> : d \in 0..DEPTH, i \in RevokedSlots}

\* The tree stands for the set of revocations, in what it proves and in what it stores
\* (revoke, proveNonMembership, verifyNonMembership, _set).
RevocationsExact == NonRevocationExact /\ StoreStaysSparse
=============================================================================
