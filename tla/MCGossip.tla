------------------------------ MODULE MCGossip ------------------------------
(* Instances of GossipNetwork for TLC. *)
EXTENDS GossipNetwork, TLC

CONSTANTS n1, n2, x1, A, B, C, D

\* Two honest validators and one that is not: 2 + 1 + 1 units of stake (the
\* adversary holds a quarter) or one unit each (it holds exactly a third).
QuarterUnits == 1..4
QuarterOwner == <<n1, n1, n2, x1>>
ThirdUnits == 1..3
ThirdOwner == <<n1, n2, x1>>

\* A and B compete for height 0, C extends A and D extends B at height 1.
MCHeight == [h \in Hashes |-> IF h \in {A, B} THEN 0 ELSE 1]
MCPrev == [h \in Hashes |-> CASE h = C -> A [] h = D -> B [] OTHER -> Genesis]
MCRound == [h \in Hashes |-> 0]

\* x1 leads height 0 and proposes both A and B; n1 leads after A, x1 after B.
MCProposer == [h \in Hashes |-> IF h = C THEN n1 ELSE x1]
MCSeed == [p \in Hashes \cup {Genesis} |->
              CHOOSE u \in Units : Owner[u] = IF p = A THEN n1 ELSE x1]

Vote(v, h, k, ok) ==
    AttestationMsg([blockHash |-> h, height |-> k, validator |-> v, valid |-> ok])

\* x1 seals its blocks and attests everything.
Blocks(H) == {BlockMsg([hash |-> h, sealed |-> TRUE]) : h \in H}
Votes(H) == {Vote(x1, h, Height[h], TRUE) : h \in H}

\* Someone forges an attestation of n1.
QuarterAdversary == Blocks({A, B, D}) \cup Votes({A, B, C}) \cup {Vote(n1, B, 0, FALSE)}

\* x1 attests C also under the height before its own; someone relays C under a
\* broken seal.
ThirdAdversary ==
    Blocks({A, B}) \cup Votes({A, B}) \cup {Vote(x1, C, 0, TRUE), Vote(x1, A, 1, TRUE)}
    \cup {BlockMsg([hash |-> C, sealed |-> FALSE])}
=============================================================================
