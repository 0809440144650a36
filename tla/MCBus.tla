------------------------------- MODULE MCBus -------------------------------
(* Instances of GossipBus for TLC. *)
EXTENDS GossipBus

CONSTANTS n1, n2, n3, x1, A, B, C, D, G, S

\* Three honest validators and x1, which runs other code: a unit of stake each.
MCUnits == 1..4
MCOwner == <<n1, n2, n3, x1>>
MCRegistered == <<n1, n2, n3>>

\* n1 leads height 0 and may propose A, B or both; n2 leads height 1.  G is a
\* header nobody ever proposes, S one at height 0 by a validator that does not
\* lead it.
MCHeight == [h \in Hashes |-> IF h \in {A, B, S} THEN 0 ELSE 1]
MCPrev == [h \in Hashes |-> IF MCHeight[h] = 0 THEN Genesis ELSE IF h = D THEN B ELSE A]
MCRound == [h \in Hashes |-> 0]
MCProposer == [h \in Hashes |-> IF h \in {G, S} THEN x1 ELSE IF h \in {A, B} THEN n1 ELSE n2]
MCSeed == [p \in Hashes \cup {Genesis} |-> IF p = Genesis THEN 1 ELSE 2]

Whole == {Nodes \X Nodes}
Split == Whole \cup {({n1} \X {n1}) \cup ({n2, n3} \X {n2, n3})}

Vote(v, h, k, ok) ==
    AttestationMsg([blockHash |-> h, height |-> k, validator |-> v, valid |-> ok])

\* x1 attests headers nobody knows and a block under a height that is not its own;
\* someone forges an attestation of n2.
VoteStrays == {<<Vote(n2, A, 0, FALSE), Vote(x1, G, 1, TRUE), Vote(x1, S, 0, TRUE),
                 Vote(x1, C, 0, TRUE)>>}

\* x1 attests A, perhaps long after the others.
LateVote == {<<Vote(x1, A, 0, TRUE)>>}

\* A correctly signed block by a validator that does not lead the height.
BlockStrays == {<<BlockMsg([hash |-> S, sealed |-> TRUE])>>}
=============================================================================
