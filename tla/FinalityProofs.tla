--------------------------- MODULE FinalityProofs ---------------------------
(***************************************************************************)
(* Finality by stake, for any stake assignment, any finality fraction and  *)
(* any tree of headers, in three sections.  Sums of stake: the share two   *)
(* quorums must have in common.  The networked ledger, given what a        *)
(* handler does to one node: the end of a handler preserves the inductive  *)
(* invariant IInv, IInv implies the safety properties, and a handler is a  *)
(* step of StakeFinality.  StakeFinality itself, on variables of its own:  *)
(* its ledgers agree.                                                      *)
(***************************************************************************)
EXTENDS GossipNetwork, StakeFinality, FiniteSetTheorems, TLAPS

-----------------------------------------------------------------------------
(* Sums of stake. *)

\* The units of any group of validators form a finite set of natural size,
\* bounded by the total stake.
LEMMA StakeHeldType ==
    ASSUME NEW S
    PROVE  /\ IsFiniteSet(UnitsOf(S))
           /\ StakeHeld(S) \in Nat
           /\ totalStake \in Nat
           /\ StakeHeld(S) <= totalStake
<1>1. UnitsOf(S) \subseteq Units
  BY DEF UnitsOf
<1>2. IsFiniteSet(Units)
  BY StakeAssumption
<1>3. QED
  BY <1>1, <1>2, FS_Subset, FS_CardinalityType DEF StakeHeld, totalStake

\* More validators hold at least as much stake.
LEMMA StakeHeldMonotone ==
    ASSUME NEW S, NEW T, S \subseteq T
    PROVE  StakeHeld(S) <= StakeHeld(T)
<1>1. UnitsOf(S) \subseteq UnitsOf(T)
  BY DEF UnitsOf
<1>2. QED
  BY <1>1, StakeHeldType, FS_Subset DEF StakeHeld

\* A group that contains a quorum is a quorum (the test attestingStake * den
\* >= num * total is monotone in the attesting stake).
LEMMA QuorumMonotone ==
    ASSUME NEW S, NEW T, S \subseteq T, stakeMet(S)
    PROVE  stakeMet(T)
<1>1. finalityDen \in Int /\ finalityDen >= 1 /\ finalityNum \in Int
  BY StakeAssumption DEF stakeMet, validThreshold
<1>2. /\ StakeHeld(S) \in Nat
      /\ StakeHeld(T) \in Nat
      /\ StakeHeld(S) <= StakeHeld(T)
      /\ totalStake \in Nat
  BY StakeHeldType, StakeHeldMonotone
<1>3. \A a, b, d \in Int : d >= 1 /\ a <= b => a * d <= b * d
  OBVIOUS
<1>4. StakeHeld(S) * finalityDen <= StakeHeld(T) * finalityDen
  BY <1>1, <1>2, <1>3
<1>5. StakeHeld(S) * finalityDen >= finalityNum * totalStake
  BY DEF stakeMet
<1>6. /\ StakeHeld(S) * finalityDen \in Int
      /\ StakeHeld(T) * finalityDen \in Int
      /\ finalityNum * totalStake \in Int
  BY <1>1, <1>2
<1>7. StakeHeld(T) * finalityDen >= finalityNum * totalStake
  BY <1>4, <1>5, <1>6
<1>8. QED
  BY <1>7 DEF stakeMet

\* The arithmetic of quorum intersection.
LEMMA ShareArithmetic ==
    ASSUME NEW a \in Int, NEW b \in Int, NEW c \in Int, NEW t \in Int,
           NEW num \in Int, NEW den \in Int,
           den >= 1, a + b <= t + c, a * den >= num * t, b * den >= num * t
    PROVE  c * den >= (2 * num - den) * t
<1>1. \A x, d \in Int : d >= 1 /\ x >= 0 => x * d >= 0
  OBVIOUS
<1>2. (t + c - a - b) * den >= 0
  BY <1>1
<1>3. (t + c - a - b) * den = t * den + c * den - a * den - b * den
  OBVIOUS
<1>4. (2 * num - den) * t = num * t + num * t - t * den
  OBVIOUS
<1>5. QED
  BY <1>2, <1>3, <1>4

\* Two quorums that verifyFinalized accepts share at least 2*num - den parts
\* in den of the stake: a third of it for the default fraction 2/3.
THEOREM QuorumIntersection ==
    ASSUME NEW S, NEW T, stakeMet(S), stakeMet(T)
    PROVE  StakeHeld(S \cap T) * finalityDen >= (2 * finalityNum - finalityDen) * totalStake
<1> DEFINE U == UnitsOf(S)
           V == UnitsOf(T)
<1>1. /\ finalityDen \in Int /\ finalityDen >= 1 /\ finalityNum \in Int
      /\ StakeHeld(S) * finalityDen >= finalityNum * totalStake
      /\ StakeHeld(T) * finalityDen >= finalityNum * totalStake
  BY StakeAssumption DEF stakeMet, validThreshold
<1>2. U \cap V = UnitsOf(S \cap T)
  BY DEF UnitsOf
<1>3. IsFiniteSet(U) /\ IsFiniteSet(V)
  BY StakeHeldType
<1>4. /\ IsFiniteSet(U \cup V)
      /\ Cardinality(U \cup V) = Cardinality(U) + Cardinality(V) - Cardinality(U \cap V)
  BY <1>3, FS_Union
<1>5. Cardinality(U \cup V) <= totalStake
  <2>1. U \cup V \subseteq Units
    BY DEF UnitsOf
  <2>2. QED
    BY <2>1, StakeAssumption, FS_Subset DEF totalStake
<1>6. /\ StakeHeld(S) \in Int /\ StakeHeld(T) \in Int
      /\ StakeHeld(S \cap T) \in Int /\ totalStake \in Int
  BY StakeHeldType
<1>7. Cardinality(U \cup V) \in Int
  BY <1>4, FS_CardinalityType
<1>8. StakeHeld(S) + StakeHeld(T) <= totalStake + StakeHeld(S \cap T)
  <2>1. /\ Cardinality(U \cap V) = StakeHeld(S \cap T)
        /\ Cardinality(U) = StakeHeld(S)
        /\ Cardinality(V) = StakeHeld(T)
    BY <1>2, Zenon DEF StakeHeld
  <2>2. QED
    BY <2>1, <1>4, <1>5, <1>6, <1>7
<1>9. QED
  BY <1>1, <1>6, <1>8, ShareArithmetic
-----------------------------------------------------------------------------
(* The networked ledger. *)

Wire == sent \cup Adversary

\* The messages on the wire are messages.
LEMMA WireMessages ==
    ASSUME TypeOK
    PROVE  Wire \subseteq GossipMessage
BY AdversaryAssumption DEF TypeOK, Wire

\* The initial state satisfies the invariant: the adversary holds no valid
\* attestation of a node.
LEMMA InitIInv == Init => IInv
<1> SUFFICES ASSUME Init PROVE IInv
  OBVIOUS
<1>1. InitNode \in NodeState
  BY DEF InitNode, NodeState
<1>2. /\ InitNode.out = <<>>
      /\ InitNode.chain = <<>>
      /\ InitNode.attestations = {}
      /\ InitNode.attestedAt = {}
  BY DEF InitNode
<1>3. TypeOK
  BY <1>1, <1>2 DEF Init, TypeOK
<1>4. ASSUME NEW n \in Nodes PROVE Sound(n, node[n], sent \cup Adversary)
  <2>1. node[n] = InitNode /\ sent = {}
    BY DEF Init
  <2>2. OutSet(InitNode) = {} /\ OutOK(n, InitNode, Adversary)
    BY <1>2 DEF OutSet, OutOK
  <2>3. Authentic(InitNode.attestations, Adversary) /\ ChainOK(InitNode, Adversary)
    BY <1>2 DEF Authentic, ChainOK
  <2>4. VotesOK(n, InitNode, Adversary)
    <3>1. \A m \in Adversary : ~(/\ m.kind = "attestation"
                                 /\ m.attestation.valid
                                 /\ m.attestation.validator = n)
      BY AdversaryAssumption
    <3>2. QED
      BY <1>2, <3>1 DEF VotesOK
  <2>5. sent \cup Adversary = Adversary /\ Adversary \cup OutSet(InitNode) = Adversary
    BY <2>1, <2>2
  <2>6. QED
    BY <1>1, <2>1, <2>2, <2>3, <2>4, <2>5, SMTT(60) DEF Sound
<1>5. QED
  BY <1>3, <1>4 DEF IInv

\* The end of a handler: n's state is sound with what it sent on the wire, and
\* so is that of every other node, for which n cannot have voted.
LEMMA CommitIInv ==
    ASSUME IInv, NEW n \in Nodes, NEW s, Sound(n, s, Wire), Commit(n, s)
    PROVE  IInv'
<1> DEFINE M == Wire
           W == M \cup OutSet(s)
           r == [s EXCEPT !.out = <<>>]
<1>1. M \subseteq GossipMessage
  BY WireMessages DEF IInv
<1>2. s \in NodeState
  BY DEF Sound
<1>3. W \subseteq GossipMessage
  BY <1>1, <1>2 DEF NodeState, OutSet
<1>4. sent' \cup Adversary = W
  BY DEF Commit, Wire, OutSet
<1>5. sent' \subseteq GossipMessage
  BY <1>3, <1>4
<1>6. <<>> \in Seq(GossipMessage)
  OBVIOUS
<1>7. /\ r \in NodeState
      /\ r.out = <<>>
      /\ r.chain = s.chain
      /\ r.attestations = s.attestations
      /\ r.attestedAt = s.attestedAt
  BY <1>2, <1>6, ZenonT(60) DEF NodeState
<1>8. /\ node' = [node EXCEPT ![n] = r]
      /\ node \in [Nodes -> NodeState]
      /\ \A k \in Nodes : node[k].out = <<>>
  BY DEF Commit, IInv, TypeOK
<1> HIDE DEF r
<1>9. TypeOK'
  <2>1. node' \in [Nodes -> NodeState]
    BY <1>7, <1>8
  <2>2. \A k \in Nodes : node'[k].out = <<>>
    BY <1>7, <1>8
  <2>3. QED
    BY <1>5, <2>1, <2>2 DEF TypeOK
<1>10. Sound(n, r, W)
  <2>1. OutSet(r) = {} /\ OutOK(n, r, W)
    BY <1>7 DEF OutSet, OutOK
  <2>2. W \cup OutSet(r) = W /\ height(r) = height(s)
    BY <1>7, <2>1 DEF height
  <2>3. Authentic(s.attestations, W) /\ ChainOK(s, W) /\ VotesOK(n, s, W)
    BY DEF Sound
  <2> HIDE DEF W
  <2>4. Authentic(r.attestations, W)
    BY <1>7, <2>3, SMTT(60)
  <2>5. ChainOK(r, W)
    BY <1>7, <2>3, SMTT(60) DEF ChainOK, PrevOf
  <2>6. VotesOK(n, r, W)
    BY <1>7, <2>2, <2>3, SMTT(60) DEF VotesOK
  <2>7. QED
    BY SMTT(60), <1>7, <2>1, <2>2, <2>4, <2>5, <2>6 DEF Sound
<1>11. ASSUME NEW k \in Nodes, k # n PROVE Sound(k, node[k], W)
  <2> DEFINE t == node[k]
  <2>1. t \in NodeState /\ t.out = <<>>
    BY <1>8
  <2>2. Sound(k, t, M)
    BY DEF IInv, Wire
  <2> HIDE DEF t
  <2>3. OutSet(t) = {} /\ OutOK(k, t, W)
    BY <2>1 DEF OutSet, OutOK
  <2>4. M \cup OutSet(t) = M /\ W \cup OutSet(t) = W /\ M \subseteq W
    BY <2>3
  <2>5. Authentic(t.attestations, M) /\ ChainOK(t, M) /\ VotesOK(k, t, M)
    BY <2>2, <2>4, SMTT(60) DEF Sound
  <2> HIDE DEF M, W
  <2>6. Authentic(t.attestations, W)
    BY <2>4, <2>5, SMTT(60) DEF Authentic
  <2>7. ChainOK(t, W)
    <3>1. \A atts : Authentic(atts, M) => Authentic(atts, W)
      BY <2>4 DEF Authentic
    <3>2. QED
      BY <2>5, <3>1 DEF ChainOK
  <2>8. ASSUME NEW m \in W, m.kind = "attestation", m.attestation.validator = k
        PROVE  m \in M
    <3>1. OutOK(n, s, M)
      BY Zenon DEF Sound, M
    <3>2. QED
      BY <1>11, <2>8, <3>1, SMTT(60) DEF OutOK, W
  <2>9. VotesOK(k, t, W)
    BY <2>5, <2>8 DEF VotesOK
  <2>10. Sound(k, t, W)
    BY <2>1, <2>3, <2>4, <2>6, <2>7, <2>9, SMTT(60) DEF Sound
  <2>11. QED
    BY <2>10 DEF t
<1>12. \A k \in Nodes : Sound(k, node'[k], W)
  <2>1. node'[n] = r /\ \A k \in Nodes : k # n => node'[k] = node[k]
    BY <1>8
  <2>2. QED
    BY <1>10, <1>11, <2>1
<1>13. \A k \in Nodes : Sound(k, node'[k], sent' \cup Adversary)
  BY <1>4, <1>12
<1>14. QED
  BY <1>9, <1>13 DEF IInv

-----------------------------------------------------------------------------
(* Consequences of the invariant.                                          *)

\* The invariant gives one signature per honest node and height.
LEMMA IInvVoteOnce == IInv => HonestVoteOnce
<1> SUFFICES ASSUME IInv, NEW n \in Nodes, NEW a \in VotesOf(n), NEW b \in VotesOf(n),
                    a.height = b.height
             PROVE  a.blockHash = b.blockHash
  BY DEF HonestVoteOnce
<1>1. VotesOK(n, node[n], Wire \cup OutSet(node[n]))
  BY Zenon DEF IInv, Sound, Wire
<1>2. PICK p \in sent : p.kind = "attestation" /\ a = p.attestation
  BY DEF VotesOf
<1>3. PICK q \in sent : q.kind = "attestation" /\ b = q.attestation
  BY DEF VotesOf
<1>4. a.validator = n /\ b.validator = n /\ a.valid /\ b.valid
  BY DEF VotesOf
<1>5. QED
  BY SMTT(60), <1>1, <1>2, <1>3, <1>4 DEF VotesOK, Wire

\* What a positive verdict of verifyFinalized says of height and quorum.
LEMMA VerdictFacts ==
    ASSUME NEW b, NEW atts, NEW p, NEW h, verifyFinalized(b, atts, p, h)
    PROVE  Height[b.hash] = h /\ stakeMet(counted(b.hash, atts))
BY ZenonT(60) DEF verifyFinalized

\* A validator that verifyFinalized counts has stake and a vote for the block.
LEMMA CountedVote ==
    ASSUME NEW h, NEW atts, NEW v \in counted(h, atts)
    PROVE  /\ stakeOf(v) > 0
           /\ \E a \in atts : a.validator = v /\ a.blockHash = h /\ a.height = Height[h] /\ a.valid
BY ZenonT(60) DEF counted

\* What the invariant says of position i of a ledger.
LEMMA Finalized ==
    ASSUME IInv, NEW n \in Nodes, NEW i \in DOMAIN node[n].chain
    PROVE  LET fb == node[n].chain[i]
           IN  /\ fb.hash \in Hashes
               /\ fb.attestations \subseteq Attestation
               /\ verifyFinalized([hash |-> fb.hash, sealed |-> TRUE], fb.attestations,
                                  PrevOf(node[n], i), i - 1)
               /\ Height[fb.hash] = i - 1
               /\ stakeMet(counted(fb.hash, fb.attestations))
               /\ Authentic(fb.attestations, Wire)
               /\ \A a \in fb.attestations : a.blockHash = fb.hash
<1> DEFINE s == node[n]
           fb == s.chain[i]
<1>1. s \in NodeState /\ s.out = <<>> /\ ChainOK(s, Wire \cup OutSet(s))
  BY DEF IInv, TypeOK, Sound, Wire
<1>2. OutSet(s) = {}
  BY <1>1 DEF OutSet
<1>3. ChainOK(s, Wire)
  BY <1>1, <1>2, SMTT(60)
<1>4. s.chain \in Seq(FinalizedBlock)
  BY <1>1 DEF NodeState
<1>5. fb \in FinalizedBlock
  BY <1>4, SMTT(60)
<1> DEFINE b == [hash |-> fb.hash, sealed |-> TRUE]
<1>6. /\ verifyFinalized(b, fb.attestations, PrevOf(s, i), i - 1)
      /\ Authentic(fb.attestations, Wire)
      /\ \A a \in fb.attestations : a.blockHash = fb.hash
  BY <1>3, ZenonT(60) DEF ChainOK
<1>7. Height[fb.hash] = i - 1 /\ stakeMet(counted(fb.hash, fb.attestations))
  <2>1. b.hash = fb.hash
    BY ZenonT(60)
  <2> HIDE DEF b, fb
  <2>2. QED
    BY <1>6, <2>1, VerdictFacts, ZenonT(60)
<1>8. QED
  BY <1>5, <1>6, <1>7, SMTT(60) DEF FinalizedBlock

\* The invariant gives reverification: the ledger holds what ChainOK says.
LEMMA IInvReverifies == IInv => FinalityReverifies
<1> SUFFICES ASSUME IInv PROVE FinalityReverifies
  OBVIOUS
<1>1. QED
  BY Finalized DEF FinalityReverifies, PrevOf

\* A key with stake is a listed validator.
LEMMA StakedIsValidator ==
    ASSUME NEW v, stakeOf(v) > 0
    PROVE  v \in Validators
<1>1. UnitsOf({v}) # {}
  BY FS_EmptySet, SMTT(60) DEF stakeOf, StakeHeld
<1>2. QED
  BY <1>1, StakeAssumption DEF UnitsOf

\* A node that two finalized blocks of one height both count signed only one
\* of them: the two blocks are the same.
LEMMA HonestCountedOnce ==
    ASSUME IInv, NEW v \in Nodes, NEW a, NEW b,
           a.valid, b.valid, a.validator = v, b.validator = v, a.height = b.height,
           AttestationMsg(a) \in Wire, AttestationMsg(b) \in Wire
    PROVE  a.blockHash = b.blockHash
<1>1. VotesOK(v, node[v], Wire \cup OutSet(node[v]))
  BY ZenonT(60) DEF IInv, Sound, Wire
<1>2. /\ AttestationMsg(a).kind = "attestation" /\ AttestationMsg(a).attestation = a
      /\ AttestationMsg(b).kind = "attestation" /\ AttestationMsg(b).attestation = b
  BY Zenon DEF AttestationMsg
<1>3. QED
  BY <1>1, <1>2, SMTT(60) DEF VotesOK

\* The invariant gives agreement: two quorums share more stake than the
\* adversary has, hence an honest node, which signed one block of the height.
LEMMA IInvAgreement == IInv => Agreement
<1> SUFFICES ASSUME IInv, MinorityAdversary, NEW m \in Nodes, NEW n \in Nodes,
                    NEW i \in DOMAIN node[m].chain \cap DOMAIN node[n].chain
             PROVE  node[m].chain[i].hash = node[n].chain[i].hash
  BY DEF Agreement
<1> DEFINE fa == node[m].chain[i]
           fb == node[n].chain[i]
           S == counted(fa.hash, fa.attestations)
           T == counted(fb.hash, fb.attestations)
<1>1. /\ stakeMet(S)
      /\ Height[fa.hash] = i - 1
      /\ Authentic(fa.attestations, Wire)
  BY Finalized, ZenonT(60)
<1>2. /\ stakeMet(T)
      /\ Height[fb.hash] = i - 1
      /\ Authentic(fb.attestations, Wire)
  BY Finalized, ZenonT(60)
<1>3. PICK v \in S \cap T : v \in Nodes
  <2>1. StakeHeld(S \cap T) * finalityDen >= (2 * finalityNum - finalityDen) * totalStake
    BY <1>1, <1>2, QuorumIntersection
  <2>2. ASSUME S \cap T \cap Nodes = {} PROVE FALSE
    <3>1. S \cap T \subseteq Validators \ Nodes
      <4>1. \A v \in S \cap T : stakeOf(v) > 0
        BY CountedVote, SMTT(60)
      <4>2. QED
        BY <2>2, <4>1, StakedIsValidator, SMTT(60)
    <3> DEFINE x == StakeHeld(S \cap T)
               y == StakeHeld(Validators \ Nodes)
    <3>2. x \in Nat /\ y \in Nat /\ totalStake \in Nat /\ x <= y
      BY <3>1, StakeHeldType, StakeHeldMonotone, SMTT(60)
    <3>3. finalityDen \in Int /\ finalityNum \in Int /\ finalityDen >= 1
      BY <1>1, StakeAssumption, SMTT(60) DEF stakeMet, validThreshold
    <3>4. y * finalityDen < (2 * finalityNum - finalityDen) * totalStake
      BY DEF MinorityAdversary
    <3> HIDE DEF x, y
    <3>5. x * finalityDen <= y * finalityDen
      BY <3>2, <3>3, SMTT(60)
    <3> DEFINE p == x * finalityDen
               q == y * finalityDen
               z == (2 * finalityNum - finalityDen) * totalStake
    <3>6. p \in Int /\ q \in Int /\ z \in Int
      BY <3>2, <3>3, SMTT(60)
    <3>7. p >= z /\ q < z /\ p <= q
      BY <2>1, <3>4, <3>5, SMTT(60) DEF x
    <3> HIDE DEF p, q, z
    <3>8. QED
      BY <3>6, <3>7, SMTT(60)
  <2>3. QED
    BY SMTT(60), <2>2
<1> HIDE DEF fa, fb
<1>4. PICK a \in fa.attestations :
         a.validator = v /\ a.blockHash = fa.hash /\ a.height = Height[fa.hash] /\ a.valid
  BY <1>3, CountedVote, SMTT(60)
<1>5. PICK b \in fb.attestations :
         b.validator = v /\ b.blockHash = fb.hash /\ b.height = Height[fb.hash] /\ b.valid
  BY <1>3, CountedVote, SMTT(60)
<1>6. AttestationMsg(a) \in Wire /\ AttestationMsg(b) \in Wire
  BY <1>1, <1>2, <1>4, <1>5, ZenonT(60) DEF Authentic
<1>7. a.height = b.height
  BY <1>1, <1>2, <1>4, <1>5, ZenonT(60)
<1> HIDE DEF S, T
<1>8. a.blockHash = b.blockHash
  BY <1>3, <1>4, <1>5, <1>6, <1>7, HonestCountedOnce, ZenonT(60)
<1>9. fa.hash = fb.hash
  BY <1>4, <1>5, <1>8, ZenonT(60)
<1>10. QED
  BY <1>9, Zenon DEF fa, fb

-----------------------------------------------------------------------------
(* Accountability.                                                         *)

\* The input caps of detectEquivocations and slash admit a whole quorum.
CapsCoverValidators ==
    /\ Cardinality(Validators) <= MAX_ATTESTATIONS_PER_SIDE
    /\ Cardinality(Validators) <= MAX_PROOFS_PER_SLASH

\* Things told apart by their validator are no more than the validators.
LEMMA AtMostValidators ==
    ASSUME NEW X, \A x \in X : x.validator \in Validators,
           \A x, y \in X : x.validator = y.validator => x = y
    PROVE  /\ Cardinality(X) \in Nat
           /\ Cardinality(Validators) \in Nat
           /\ Cardinality(X) <= Cardinality(Validators)
<1> DEFINE f == [x \in X |-> x.validator]
<1>1. f \in Injection(X, Validators)
  BY DEF Injection, IsInjective
<1>2. IsFiniteSet(Validators)
  BY StakeAssumption
<1>3. IsFiniteSet(X) /\ Cardinality(X) <= Cardinality(Validators)
  BY <1>1, <1>2, FS_Injection, SMTT(60)
<1>4. QED
  BY <1>2, <1>3, FS_CardinalityType, SMTT(60)

\* The invariant gives accountability: when two ledgers differ at a position,
\* the validators both blocks count are all slashed, and no honest one is.
LEMMA IInvAccountable ==
    ASSUME CapsCoverValidators, IInv
    PROVE  AccountableSafety
<1> SUFFICES ASSUME NEW m \in Nodes, NEW n \in Nodes,
                    NEW i \in DOMAIN node[m].chain \cap DOMAIN node[n].chain,
                    node[m].chain[i].hash # node[n].chain[i].hash
             PROVE  LET Z == Slashed(node[m].chain[i], node[n].chain[i])
                    IN  /\ StakeHeld(Z) * finalityDen
                              >= (2 * finalityNum - finalityDen) * totalStake
                        /\ Z \cap Nodes = {}
  BY SMTT(60) DEF AccountableSafety
<1> DEFINE fa == node[m].chain[i]
           fb == node[n].chain[i]
           S == counted(fa.hash, fa.attestations)
           T == counted(fb.hash, fb.attestations)
           proof(p) == [validator |-> p[1].validator, height |-> Height[fa.hash],
                        attA |-> p[1], attB |-> p[2]]
           pairs == {q \in fa.attestations \X fb.attestations :
                        /\ q[1].blockHash = fa.hash
                        /\ q[2].blockHash = fb.hash
                        /\ q[1].validator = q[2].validator}
           proofs == {proof(p) : p \in pairs}
           Z == Slashed(fa, fb)
<1>1. /\ stakeMet(S)
      /\ Height[fa.hash] = i - 1
      /\ Authentic(fa.attestations, Wire)
      /\ \A a \in fa.attestations : a.blockHash = fa.hash
  BY Finalized, ZenonT(60)
<1>2. /\ stakeMet(T)
      /\ Height[fb.hash] = i - 1
      /\ Authentic(fb.attestations, Wire)
      /\ \A a \in fb.attestations : a.blockHash = fb.hash
  BY Finalized, ZenonT(60)
<1>3. fa.hash # fb.hash
  BY Zenon
<1> HIDE DEF fa, fb
<1>4. ~(Cardinality(fa.attestations) > MAX_ATTESTATIONS_PER_SIDE)
  <2>1. \A a \in fa.attestations : a.validator \in Validators
    BY <1>1, StakedIsValidator, SMTT(60) DEF Authentic
  <2>2. \A a, b \in fa.attestations : a.validator = b.validator => a = b
    BY <1>1, SMTT(60) DEF Authentic
  <2>3. QED
    BY SMTT(60), <2>1, <2>2, AtMostValidators, LedgerAssumption DEF CapsCoverValidators
<1>5. ~(Cardinality(fb.attestations) > MAX_ATTESTATIONS_PER_SIDE)
  <2>1. \A a \in fb.attestations : a.validator \in Validators
    BY <1>2, StakedIsValidator DEF Authentic
  <2>2. \A a, b \in fb.attestations : a.validator = b.validator => a = b
    BY <1>2, SMTT(60) DEF Authentic
  <2>3. QED
    BY <2>1, <2>2, AtMostValidators, LedgerAssumption DEF CapsCoverValidators
<1>6. detectEquivocations(fa.hash, fa.attestations, fb.hash, fb.attestations) = proofs
  <2>1. Height[fa.hash] = Height[fb.hash]
    BY <1>1, <1>2, SMTT(60)
  <2>2. QED
    BY <1>3, <1>4, <1>5, <2>1, SMTT(60) DEF detectEquivocations
<1>7. ASSUME NEW p \in proofs
      PROVE  /\ p.attA \in fa.attestations /\ p.attB \in fb.attestations
             /\ p.attA.validator = p.validator /\ p.attB.validator = p.validator
             /\ p = [validator |-> p.validator, height |-> Height[fa.hash],
                     attA |-> p.attA, attB |-> p.attB]
  OBVIOUS
<1>8. Cardinality(proofs) \in Nat /\ Cardinality(proofs) <= MAX_PROOFS_PER_SLASH
  <2>1. \A p \in proofs : p.validator \in Validators
    BY <1>1, <1>7, StakedIsValidator, SMTT(60) DEF Authentic
  <2>2. ASSUME NEW p \in proofs, NEW q \in proofs, p.validator = q.validator PROVE p = q
    <3>1. p.attA = q.attA
      BY <1>1, <1>7, <2>2, SMTT(60) DEF Authentic
    <3>2. p.attB = q.attB
      BY <1>2, <1>7, <2>2, SMTT(60) DEF Authentic
    <3>3. QED
      BY <1>7, <2>2, <3>1, <3>2, SMTT(60)
  <2> HIDE DEF proofs
  <2>3. QED
    BY <2>1, <2>2, AtMostValidators, LedgerAssumption, SMTT(60) DEF CapsCoverValidators
<1>9. Z = {p.validator : p \in {q \in proofs : verifyEquivocationProof(q)}}
  <2>1. ~(Cardinality(proofs) > MAX_PROOFS_PER_SLASH)
    BY <1>8, LedgerAssumption, SMTT(60)
  <2>2. Z = slash(proofs)
    BY <1>6, SMTT(60) DEF Slashed
  <2> HIDE DEF proofs, Z
  <2>3. QED
    BY <2>1, <2>2, SMTT(60) DEF slash
<1>10. S \cap T \subseteq Z
  <2> SUFFICES ASSUME NEW v \in S \cap T PROVE v \in Z
    BY Zenon
  <2>1. PICK a \in fa.attestations :
           a.validator = v /\ a.blockHash = fa.hash /\ a.height = Height[fa.hash] /\ a.valid
    BY CountedVote, SMTT(60)
  <2>2. PICK b \in fb.attestations :
           b.validator = v /\ b.blockHash = fb.hash /\ b.height = Height[fb.hash] /\ b.valid
    BY CountedVote, SMTT(60)
  <2>3. stakeOf(v) > 0
    BY CountedVote, SMTT(60)
  <2> DEFINE p == [validator |-> v, height |-> Height[fa.hash], attA |-> a, attB |-> b]
  <2>4. p \in proofs
    <3>1. <<a, b>> \in pairs
      BY SMTT(60), <2>1, <2>2
    <3>2. p = proof(<<a, b>>)
      BY SMTT(60), <2>1
    <3>3. QED
      BY <3>1, <3>2, ZenonT(60)
  <2>5. verifyEquivocationProof(p)
    BY SMTT(60), <1>1, <1>2, <1>3, <2>1, <2>2, <2>3 DEF verifyEquivocationProof
  <2>6. p.validator = v
    BY SMTT(60)
  <2> HIDE DEF p, proofs
  <2>7. QED
    BY <1>9, <2>4, <2>5, <2>6, SMTT(60)
<1>11. Z \cap Nodes = {}
  <2> SUFFICES ASSUME NEW v \in Z, v \in Nodes PROVE FALSE
    BY SMTT(60)
  <2>1. PICK p \in proofs : verifyEquivocationProof(p) /\ p.validator = v
    BY <1>9, SMTT(60)
  <2>2. /\ p.attA.blockHash # p.attB.blockHash
        /\ p.attA.validator = v /\ p.attB.validator = v
        /\ p.attA.height = p.attB.height
        /\ p.attA.valid /\ p.attB.valid
    BY <2>1, SMTT(60) DEF verifyEquivocationProof
  <2>3. p.attA \in fa.attestations /\ p.attB \in fb.attestations
    BY <1>7, SMTT(60)
  <2>4. AttestationMsg(p.attA) \in Wire /\ AttestationMsg(p.attB) \in Wire
    BY <1>1, <1>2, <2>3, SMTT(60) DEF Authentic
  <2>5. QED
    BY <2>2, <2>4, HonestCountedOnce, SMTT(60)
<1>12. StakeHeld(Z) * finalityDen >= (2 * finalityNum - finalityDen) * totalStake
  <2> DEFINE x == StakeHeld(S \cap T)
             y == StakeHeld(Z)
             z == (2 * finalityNum - finalityDen) * totalStake
  <2>1. x * finalityDen >= z
    BY <1>1, <1>2, QuorumIntersection, SMTT(60)
  <2>2. x \in Nat /\ y \in Nat /\ totalStake \in Nat /\ x <= y
    BY <1>10, StakeHeldType, StakeHeldMonotone, SMTT(60)
  <2>3. finalityDen \in Int /\ finalityNum \in Int /\ finalityDen >= 1
    BY <1>1, StakeAssumption, SMTT(60) DEF stakeMet, validThreshold
  <2>4. z \in Int
    BY <2>2, <2>3, SMTT(60)
  <2> HIDE DEF x, y, z
  <2>5. x * finalityDen <= y * finalityDen /\ x * finalityDen \in Int /\ y * finalityDen \in Int
    BY <2>2, <2>3, SMTT(60)
  <2>6. y * finalityDen >= z
    BY <2>1, <2>4, <2>5, SMTT(60)
  <2>7. QED
    BY <2>6, SMTT(60) DEF y, z
<1>13. QED
  BY <1>11, <1>12, SMTT(60) DEF fa, fb
-----------------------------------------------------------------------------
(* The steps of the networked ledger are steps of StakeFinality.           *)

\* The votes of nodes among the messages W.
Cast(W) ==
    {w \in [validator : Nodes, hash : Hashes] :
        \E m \in W : /\ m.kind = "attestation"
                     /\ m.attestation.valid
                     /\ m.attestation.validator = w.validator
                     /\ m.attestation.blockHash = w.hash}

HashesOf(c) == [i \in DOMAIN c |-> c[i].hash]

\* The votes the refinement mapping shows are those on the wire: the adversary
\* has none to add.
LEMMA VotesShown == TypeOK => HonestVotes = Cast(Wire)
<1> SUFFICES ASSUME TypeOK PROVE HonestVotes = Cast(Wire)
  OBVIOUS
<1>1. ASSUME NEW w \in HonestVotes PROVE w \in Cast(Wire)
  <2>1. PICK n \in Nodes :
           \E a \in VotesOf(n) : w = [validator |-> a.validator, hash |-> a.blockHash]
    BY DEF HonestVotes
  <2> PICK a \in VotesOf(n) : w = [validator |-> a.validator, hash |-> a.blockHash]
    BY <2>1
  <2>2. PICK m \in sent : m.kind = "attestation" /\ m.attestation = a
    BY DEF VotesOf
  <2>3. a.validator = n /\ a.valid
    BY DEF VotesOf
  <2>4. m \in GossipMessage
    BY DEF TypeOK
  <2>5. a \in Attestation
    BY <2>2, <2>4 DEF GossipMessage
  <2>6. a.blockHash \in Hashes
    BY <2>5, Zenon DEF Attestation
  <2>7. w \in [validator : Nodes, hash : Hashes] /\ w.validator = n /\ w.hash = a.blockHash
    BY <2>1, <2>3, <2>6
  <2>8. m \in Wire
    BY DEF Wire
  <2>9. QED
    BY <2>2, <2>3, <2>7, <2>8, Zenon DEF Cast
<1>2. ASSUME NEW w \in Cast(Wire) PROVE w \in HonestVotes
  <2>1. PICK m \in Wire : /\ m.kind = "attestation"
                          /\ m.attestation.valid
                          /\ m.attestation.validator = w.validator
                          /\ m.attestation.blockHash = w.hash
    BY Zenon DEF Cast
  <2>2. w \in [validator : Nodes, hash : Hashes]
    BY Zenon DEF Cast
  <2>3. w.validator \in Nodes /\ w = [validator |-> w.validator, hash |-> w.hash]
    BY <2>2
  <2>4. m \in sent
    BY <2>1, <2>3, AdversaryAssumption DEF Wire
  <2>5. m.attestation \in VotesOf(w.validator)
    BY <2>1, <2>4, Zenon DEF VotesOf
  <2>6. QED
    BY <2>1, <2>3, <2>5 DEF HonestVotes
<1>3. QED
  BY <1>1, <1>2, Zenon

\* The hashes of a chain, and of one that grew by a block.
LEMMA ChainHashes ==
    ASSUME NEW c \in Seq(FinalizedBlock)
    PROVE  /\ HashesOf(c) \in Seq(Hashes)
           /\ Len(HashesOf(c)) = Len(c)
           /\ \A fb \in FinalizedBlock : HashesOf(Append(c, fb)) = Append(HashesOf(c), fb.hash)
           /\ (IF HashesOf(c) = <<>> THEN Genesis ELSE HashesOf(c)[Len(HashesOf(c))])
                 = (IF Len(c) + 1 = 1 THEN Genesis ELSE c[Len(c)].hash)
<1>1. \A i \in DOMAIN c : c[i].hash \in Hashes
  <2>1. \A i \in DOMAIN c : c[i] \in FinalizedBlock
    OBVIOUS
  <2>2. \A fb \in FinalizedBlock : fb.hash \in Hashes
    BY DEF FinalizedBlock
  <2>3. QED
    BY <2>1, <2>2
<1>2. DOMAIN c = 1 .. Len(c) /\ Len(c) \in Nat
  OBVIOUS
<1>3. DOMAIN HashesOf(c) = 1 .. Len(c) /\ \A i \in 1 .. Len(c) : HashesOf(c)[i] = c[i].hash
  BY <1>2 DEF HashesOf
<1>4. HashesOf(c) \in Seq(Hashes) /\ Len(HashesOf(c)) = Len(c)
  BY <1>1, <1>2, <1>3 DEF HashesOf
<1>5. ASSUME NEW fb \in FinalizedBlock
      PROVE  HashesOf(Append(c, fb)) = Append(HashesOf(c), fb.hash)
  <2> DEFINE d == Append(c, fb)
             e == Append(HashesOf(c), fb.hash)
  <2>1. fb.hash \in Hashes
    BY DEF FinalizedBlock
  <2>2. /\ DOMAIN d = 1 .. (Len(c) + 1)
        /\ \A i \in 1 .. Len(c) : d[i] = c[i]
        /\ d[Len(c) + 1] = fb
    BY <1>2
  <2>3. /\ DOMAIN e = 1 .. (Len(c) + 1)
        /\ \A i \in 1 .. Len(c) : e[i] = c[i].hash
        /\ e[Len(c) + 1] = fb.hash
    BY <1>2, <1>3, <1>4, <2>1
  <2> HIDE DEF d, e
  <2>4. \A i \in 1 .. (Len(c) + 1) : d[i].hash = e[i]
    BY <1>2, <2>2, <2>3
  <2>5. e = [i \in DOMAIN e |-> e[i]]
    BY <1>4, <2>1 DEF e
  <2>6. HashesOf(d) = e
    BY <2>2, <2>3, <2>4, <2>5 DEF HashesOf
  <2>7. QED
    BY <2>6 DEF d, e
<1>6. QED
  BY <1>2, <1>3, <1>4, <1>5

\* The stake a counted quorum has supports the block in StakeFinality, where
\* whoever is not a node supports everything.
LEMMA CountedSupport ==
    ASSUME NEW h \in Hashes, NEW atts, NEW W, Authentic(atts, W), stakeMet(counted(h, atts))
    PROVE  Abstract!stakeMet(Abstract!Supporters(h, Cast(W)))
<1> DEFINE S == counted(h, atts)
           T == Abstract!Supporters(h, Cast(W))
<1>1. ASSUME NEW v \in S PROVE v \in T
  <2>1. stakeOf(v) > 0
    BY CountedVote, Zenon
  <2>2. PICK a \in atts : a.validator = v /\ a.blockHash = h /\ a.height = Height[h] /\ a.valid
    BY CountedVote
  <2>3. v \in Validators
    BY <2>1, StakedIsValidator, Zenon
  <2>4. AttestationMsg(a) \in W
    BY <2>2, Zenon DEF Authentic
  <2>5. AttestationMsg(a).kind = "attestation" /\ AttestationMsg(a).attestation = a
    BY DEF AttestationMsg
  <2>6. ASSUME v \in Nodes PROVE Abstract!VoteFor(v, h) \in Cast(W)
    <3> DEFINE w == [validator |-> v, hash |-> h]
    <3>1. w \in [validator : Nodes, hash : Hashes] /\ w.validator = v /\ w.hash = h
      BY <2>6
    <3>2. Abstract!VoteFor(v, h) = w
      BY DEF Abstract!VoteFor
    <3> HIDE DEF w
    <3>3. w \in Cast(W)
      BY <2>2, <2>4, <2>5, <3>1, Zenon DEF Cast
    <3>4. QED
      BY <3>2, <3>3, Zenon
  <2>7. QED
    BY <2>3, <2>6, Zenon DEF Abstract!Supporters
<1> HIDE DEF S, T
<1>2. stakeMet(T)
  BY <1>1, QuorumMonotone DEF S
<1>3. \A X : Abstract!Cardinality(X) = Cardinality(X)
  BY Zenon DEF Cardinality, Abstract!Cardinality
<1>4. Abstract!stakeMet(T)
  BY <1>2, <1>3, Zenon DEF stakeMet, validThreshold, totalStake, StakeHeld, UnitsOf,
     Abstract!stakeMet, Abstract!validThreshold, Abstract!totalStake, Abstract!StakeHeld,
     Abstract!UnitsOf
<1>5. QED
  BY <1>4, Zenon DEF T

\* The initial states show no vote and empty ledgers.
LEMMA InitShown == Init => Abstract!FinalityInit
<1> SUFFICES ASSUME Init PROVE Abstract!FinalityInit
  OBVIOUS
<1>1. sent = {} /\ node = [n \in Nodes |-> InitNode] /\ InitNode.chain = <<>>
  BY DEF Init, InitNode
<1>2. HonestVotes = {}
  BY <1>1 DEF HonestVotes, VotesOf
<1>3. Ledgers = [n \in Nodes |-> <<>>]
  BY <1>1 DEF Ledgers
<1>4. QED
  BY <1>2, <1>3, Zenon DEF Abstract!FinalityInit

\* What a handler of n adds to the votes shown: nothing, or n's own vote, its
\* first at its height.
LEMMA VoteShown ==
    ASSUME NEW n \in Nodes, NEW s \in NodeState, NEW r \in NodeState, NEW M, NEW h \in Hashes,
           M \subseteq GossipMessage, OutSet(s) = {}, VotesOK(n, s, M), Speaks(n, s, r, M, h)
    PROVE  \/ Cast(M \cup OutSet(r)) = Cast(M)
           \/ /\ Cast(M \cup OutSet(r)) = Cast(M) \cup {[validator |-> n, hash |-> h]}
              /\ Height[h] = height(s)
              /\ \A w \in Cast(M) : w.validator = n => Height[w.hash] # Height[h]
<1> DEFINE W == M \cup OutSet(r)
           msg == AttestationMsg(attest(h, n))
           vote == [validator |-> n, hash |-> h]
<1>1. /\ msg.kind = "attestation"
      /\ msg.attestation.valid
      /\ msg.attestation.validator = n
      /\ msg.attestation.blockHash = h
  BY DEF AttestationMsg, attest
<1>2. vote \in [validator : Nodes, hash : Hashes] /\ vote.validator = n /\ vote.hash = h
  OBVIOUS
<1>3. \A m \in W : m \in M \/ m.kind = "block" \/ m = msg
  BY Zenon DEF Speaks
<1>4. Cast(M) \subseteq Cast(W)
  BY Zenon DEF Cast
<1>5. \A w \in [validator : Nodes, hash : Hashes] :
         w.validator = n /\ w.hash = h => w = vote
  OBVIOUS
<1> HIDE DEF W, msg, vote
<1>6. CASE msg \in W /\ msg \notin M
  <2>1. msg \in OutSet(r)
    BY <1>6 DEF W
  <2>2. Height[h] = height(s) /\ \A g \in s.attestedAt : Height[g] # Height[h]
    BY <1>1, <1>6, <2>1 DEF Speaks, msg
  <2>3. vote \in Cast(W)
    BY <1>1, <1>2, <1>6, Zenon DEF Cast
  <2>4. ASSUME NEW w \in Cast(W) PROVE w \in Cast(M) \cup {vote}
    <3>1. w \in [validator : Nodes, hash : Hashes]
      BY Zenon DEF Cast
    <3>2. PICK m \in W : /\ m.kind = "attestation"
                         /\ m.attestation.valid
                         /\ m.attestation.validator = w.validator
                         /\ m.attestation.blockHash = w.hash
      BY Zenon DEF Cast
    <3>3. CASE m \in M
      BY <3>1, <3>2, <3>3, Zenon DEF Cast
    <3>4. CASE m = msg
      BY <1>1, <1>5, <3>1, <3>2, <3>4, Zenon
    <3>5. QED
      BY <1>3, <3>2, <3>3, <3>4
  <2>5. ASSUME NEW w \in Cast(M), w.validator = n PROVE Height[w.hash] # Height[h]
    <3>1. PICK m \in M : /\ m.kind = "attestation"
                         /\ m.attestation.valid
                         /\ m.attestation.validator = w.validator
                         /\ m.attestation.blockHash = w.hash
      BY Zenon DEF Cast
    <3>2. /\ m.attestation.height = Height[w.hash]
          /\ m.attestation.height = height(s) => w.hash \in s.attestedAt
      BY <2>5, <3>1, Zenon DEF VotesOK
    <3>3. QED
      BY <2>2, <3>2, Zenon
  <2>6. QED
    BY <1>4, <2>2, <2>3, <2>4, <2>5, Zenon DEF W, vote
<1>7. CASE ~(msg \in W /\ msg \notin M)
  <2>1. \A m \in W : m \in M \/ m.kind = "block"
    BY <1>3, <1>7, Zenon
  <2>2. Cast(W) \subseteq Cast(M)
    BY <2>1 DEF Cast
  <2>3. QED
    BY <1>4, <2>2, Zenon DEF W
<1>8. QED
  BY <1>6, <1>7, Zenon

\* The end of a handler shows as a step of StakeFinality, or not at all.
LEMMA CommitShown ==
    ASSUME IInv, NEW n \in Nodes, NEW r, Sound(n, r, Wire), Handled(n, node[n], r, Wire),
           Commit(n, r)
    PROVE  [Abstract!FinalityNext]_(Abstract!finalityVars)
<1> DEFINE s == node[n]
           M == Wire
           W == M \cup OutSet(r)
           V == Cast(M)
           X == Cast(W)
           L == Ledgers
<1>1. TypeOK /\ TypeOK'
  BY CommitIInv, ZenonT(60) DEF IInv
<1>2. /\ s \in NodeState /\ s.out = <<>> /\ r \in NodeState
      /\ s.chain \in Seq(FinalizedBlock)
      /\ M \subseteq GossipMessage
  <2>1. s \in NodeState /\ s.out = <<>> /\ M \subseteq GossipMessage
    BY <1>1, WireMessages, Zenon DEF TypeOK
  <2>2. r \in NodeState
    BY Zenon DEF Sound
  <2>3. s.chain \in Seq(FinalizedBlock)
    BY <2>1 DEF NodeState
  <2>4. QED
    BY <2>1, <2>2, <2>3, Zenon
<1>3. OutSet(s) = {}
  BY <1>2 DEF OutSet
<1>4. VotesOK(n, s, M)
  <2>1. VotesOK(n, s, M \cup OutSet(s))
    BY DEF IInv, Sound, Wire
  <2>2. M \cup OutSet(s) = M
    BY <1>3, Zenon
  <2> HIDE DEF M
  <2>3. QED
    BY <2>1, <2>2, Zenon
<1>5. PICK h \in Hashes : Grows(s, r, h) /\ Speaks(n, s, r, M, h)
  BY Zenon DEF Handled
<1>6. HonestVotes = V
  BY <1>1, VotesShown, Zenon
<1>7. HonestVotes' = X
  <2>1. (TypeOK => HonestVotes = Cast(Wire))'
    BY VotesShown, PTL
  <2>2. sent' \cup Adversary = W
    BY DEF Commit, Wire
  <2>3. QED
    BY <1>1, <2>1, <2>2, Zenon DEF Wire, Cast
<1>8. /\ L = [k \in Nodes |-> HashesOf(node[k].chain)]
      /\ L[n] = HashesOf(s.chain)
      /\ Len(L[n]) = height(s)
  <2>1. L = [k \in Nodes |-> HashesOf(node[k].chain)]
    BY Zenon DEF Ledgers, HashesOf
  <2>2. QED
    BY <1>2, <2>1, ChainHashes DEF height
<1>9. Ledgers' = [L EXCEPT ![n] = HashesOf(r.chain)]
  <2>1. node' = [node EXCEPT ![n] = [r EXCEPT !.out = <<>>]] /\ node \in [Nodes -> NodeState]
    BY <1>1, Zenon DEF Commit, TypeOK
  <2>2. [r EXCEPT !.out = <<>>].chain = r.chain
    BY <1>2 DEF NodeState
  <2>3. \A k \in Nodes : node'[k].chain = IF k = n THEN r.chain ELSE node[k].chain
    BY <2>1, <2>2
  <2>4. Ledgers' = [k \in Nodes |-> HashesOf(node'[k].chain)]
    BY Zenon DEF Ledgers, HashesOf
  <2> HIDE DEF L
  <2>5. QED
    BY <1>8, <2>3, <2>4
<1> DEFINE votes == \/ X = V
                    \/ /\ X = V \cup {Abstract!VoteFor(n, h)}
                       /\ Abstract!CanVote(n, h)
           chains == \/ Ledgers' = L
                     \/ /\ Ledgers' = [L EXCEPT ![n] = Append(@, h)]
                        /\ Abstract!CanFinalize(n, h, X)
<1>10. votes
  <2>1. \/ X = V
        \/ /\ X = V \cup {[validator |-> n, hash |-> h]}
           /\ Height[h] = height(s)
           /\ \A w \in V : w.validator = n => Height[w.hash] # Height[h]
    <3> HIDE DEF M
    <3>1. QED
      BY <1>2, <1>3, <1>4, <1>5, VoteShown
  <2> HIDE DEF X, V, L
  <2>2. QED
    BY <1>6, <1>8, <2>1, ZenonT(60) DEF Abstract!VoteFor, Abstract!CanVote, L
<1>11. chains
  <2>1. CASE r.chain = s.chain
    <3>1. Ledgers' = L
      BY <1>8, <1>9, <2>1
    <3>2. QED
      BY <3>1, Zenon
  <2>2. CASE Height[h] = height(s) /\ \E fb \in FinalizedBlock : fb.hash = h /\ r.chain = Append(s.chain, fb)
    <3> DEFINE i == Len(s.chain) + 1
    <3>1. PICK fb \in FinalizedBlock : fb.hash = h /\ r.chain = Append(s.chain, fb)
      BY <2>2, Zenon
    <3>2. HashesOf(r.chain) = Append(L[n], h)
      BY <1>2, <1>8, <3>1, ChainHashes, Zenon
    <3>3. Ledgers' = [L EXCEPT ![n] = Append(@, h)]
      BY <1>9, <3>2, Zenon
    <3>4. i \in DOMAIN r.chain /\ r.chain[i] = fb /\ i - 1 = Len(s.chain)
      BY <1>2, <3>1
    <3>5. ChainOK(r, W)
      BY DEF Sound
    <3>6. /\ verifyFinalized([hash |-> h, sealed |-> TRUE], fb.attestations, PrevOf(r, i), i - 1)
          /\ Authentic(fb.attestations, W)
      BY <3>1, <3>4, <3>5, ZenonT(60) DEF ChainOK
    <3>7. Prev[h] = PrevOf(r, i) /\ stakeMet(counted(h, fb.attestations))
      BY <3>6 DEF verifyFinalized
    <3>8. PrevOf(r, i) = (IF i = 1 THEN Genesis ELSE s.chain[Len(s.chain)].hash)
      BY <1>2, <3>1 DEF PrevOf
    <3>9. PrevOf(r, i) = Abstract!HeadOf(n)
      BY <1>2, <1>8, <3>8, ChainHashes, Zenon DEF Abstract!HeadOf
    <3>10. Abstract!stakeMet(Abstract!Supporters(h, X))
      BY <3>6, <3>7, CountedSupport, Zenon
    <3> HIDE DEF X, L, i
    <3>11. Abstract!CanFinalize(n, h, X)
      BY <1>8, <2>2, <3>7, <3>9, <3>10, Zenon DEF Abstract!CanFinalize, L
    <3>12. QED
      BY <3>3, <3>11, Zenon
  <2>3. QED
    BY <1>5, <2>1, <2>2, Zenon DEF Grows
<1> HIDE DEF X, V, s, M, W
<1>12. CASE X = V /\ Ledgers' = L
  BY <1>6, <1>7, <1>12, Zenon DEF Abstract!finalityVars
<1>13. CASE Ledgers' = L /\ X = V \cup {Abstract!VoteFor(n, h)} /\ Abstract!CanVote(n, h)
  BY <1>6, <1>7, <1>13, Zenon DEF Abstract!FinalityNext, Abstract!CastVote
<1>14. CASE X = V /\ Ledgers' = [L EXCEPT ![n] = Append(@, h)] /\ Abstract!CanFinalize(n, h, X)
  BY <1>6, <1>7, <1>14, Zenon DEF Abstract!FinalityNext, Abstract!Finalize
<1>15. CASE /\ X = V \cup {Abstract!VoteFor(n, h)}
            /\ Abstract!CanVote(n, h)
            /\ Ledgers' = [L EXCEPT ![n] = Append(@, h)]
            /\ Abstract!CanFinalize(n, h, X)
  BY <1>6, <1>7, <1>15, Zenon DEF Abstract!FinalityNext, Abstract!VoteAndFinalize
<1>16. QED
  BY <1>10, <1>11, <1>12, <1>13, <1>14, <1>15, Zenon

-----------------------------------------------------------------------------
(* The pool and the buffers.                                               *)

\* A node starts with an empty pool and nothing buffered.
LEMMA InitPoolInv == Init => PoolInv
<1> SUFFICES ASSUME Init PROVE PoolInv
  OBVIOUS
<1>1. TypeOK
  BY InitIInv, Zenon DEF IInv
<1>2. /\ InitNode.chain = <<>>
      /\ InitNode.knownBlocks = {}
      /\ InitNode.attestations = {}
      /\ InitNode.firstHeight = [h \in Hashes |-> NoEntry]
      /\ InitNode.hashesByValidator = [v \in Ids |-> {}]
      /\ InitNode.attestedAt = {}
      /\ InitNode.pendingBlocks = [k \in Heights |-> <<>>]
      /\ InitNode.observedConflicts = {}
      /\ InitNode.due = <<>>
  BY DEF InitNode
<1>3. IsFiniteSet({}) /\ Cardinality({}) = 0
  BY FS_EmptySet
<1>4. pooledHashes(InitNode) = {}
  BY <1>2 DEF pooledHashes
<1>5. Indexed(InitNode)
  BY <1>2, <1>4 DEF Indexed
<1>6. Bounded(InitNode)
  <2>1. \A k \in Heights : Len(InitNode.pendingBlocks[k]) = 0
    BY <1>2
  <2>2. \A v \in Ids : Cardinality(InitNode.hashesByValidator[v]) = 0
    BY <1>2, <1>3
  <2>3. QED
    BY <1>2, <1>3, <1>4, <2>1, <2>2, CapsAssumption DEF Bounded
<1>7. BufferedAbove(InitNode, height(InitNode))
  BY <1>2 DEF BufferedAbove
<1>8. BufferedBelow(InitNode, height(InitNode) + MAX_FUTURE_HEIGHTS)
  BY <1>2 DEF BufferedBelow
<1>9. \A k \in Heights : DOMAIN InitNode.pendingBlocks[k] = {}
  BY <1>2
<1>10. PoolState(InitNode)
  BY <1>2, <1>3, <1>5, <1>6, <1>8, <1>9, Zenon DEF PoolState
<1>11. DueOK(InitNode)
  BY <1>2, <1>7, Zenon DEF DueOK
<1>12. QED
  BY <1>1, <1>10, <1>11 DEF PoolInv, Init

\* The end of a handler empties `out', which pool and buffers do not depend on.
LEMMA CommitPoolInv ==
    ASSUME PoolInv, NEW n \in Nodes, NEW r, Handled(n, node[n], r, Wire), Commit(n, r), TypeOK'
    PROVE  PoolInv'
<1> DEFINE t == [r EXCEPT !.out = <<>>]
<1>1. r \in NodeState /\ PoolState(r) /\ DueOK(r)
  BY Zenon DEF PoolInv, Handled
<1>2. /\ t.chain = r.chain
      /\ t.knownBlocks = r.knownBlocks
      /\ t.attestations = r.attestations
      /\ t.firstHeight = r.firstHeight
      /\ t.hashesByValidator = r.hashesByValidator
      /\ t.attestedAt = r.attestedAt
      /\ t.pendingBlocks = r.pendingBlocks
      /\ t.observedConflicts = r.observedConflicts
      /\ t.due = r.due
  BY <1>1 DEF NodeState
<1>3. node' = [node EXCEPT ![n] = t] /\ node \in [Nodes -> NodeState]
  BY Zenon DEF Commit, PoolInv, TypeOK
<1> HIDE DEF t
<1>4. height(t) = height(r) /\ pooledHashes(t) = pooledHashes(r)
  BY <1>2, Zenon DEF height, pooledHashes
<1>5. PoolState(t)
  <2>1. Indexed(t) /\ Bounded(t)
    BY <1>1, <1>2, <1>4, ZenonT(60) DEF PoolState, Indexed, Bounded
  <2>2. BufferedBelow(t, height(t) + MAX_FUTURE_HEIGHTS)
    BY <1>1, <1>2, <1>4, Zenon DEF PoolState, BufferedBelow
  <2>3. \A k \in Heights : \A i \in DOMAIN t.pendingBlocks[k] :
            Height[t.pendingBlocks[k][i].hash] = k
    BY <1>1, <1>2 DEF PoolState
  <2>4. /\ IsFiniteSet(t.knownBlocks)
        /\ IsFiniteSet(t.observedConflicts)
        /\ \A g, h \in t.attestedAt : Height[g] = Height[h] => g = h
    BY <1>1, <1>2, Zenon DEF PoolState
  <2>5. QED
    BY <2>1, <2>2, <2>3, <2>4, Zenon DEF PoolState
<1>6. DueOK(t)
  BY <1>1, <1>2, <1>4, Zenon DEF DueOK, BufferedAbove
<1>7. \A k \in Nodes : PoolState(node'[k]) /\ DueOK(node'[k])
  <2>1. node'[n] = t /\ \A k \in Nodes : k # n => node'[k] = node[k]
    BY <1>3
  <2>2. QED
    BY <1>5, <1>6, <2>1, Zenon DEF PoolInv
<1>8. QED
  BY <1>7, Zenon DEF PoolInv

\* The invariant gives PoolInOrder: between handlers nothing is due, so nothing
\* is buffered at the head or below.
LEMMA PoolInvOrder == PoolInv => PoolInOrder
<1> SUFFICES ASSUME PoolInv PROVE PoolInOrder
  OBVIOUS
<1>1. ASSUME NEW n \in Nodes
      PROVE  /\ Indexed(node[n]) /\ Bounded(node[n])
             /\ BufferedBelow(node[n], height(node[n]) + MAX_FUTURE_HEIGHTS)
             /\ Idle => BufferedAbove(node[n], height(node[n]))
  BY Zenon DEF PoolInv, PoolState, DueOK, Idle
<1>2. QED
  BY <1>1, Zenon DEF PoolInOrder, PoolIndex, BuffersBounded
-----------------------------------------------------------------------------
(* The abstract specification. *)

\* Casting a vote never takes support away from a block.
LEMMA SupportersMonotone ==
    ASSUME NEW h, NEW V, NEW W, V \subseteq W
    PROVE  Supporters(h, V) \subseteq Supporters(h, W)
BY DEF Supporters

\* The initial state satisfies the invariant.
LEMMA FinalityInitInv == FinalityInit => FinalityInv
BY DEF FinalityInit, FinalityInv, FinalityType, VotesOnce, Supported

\* A vote cast by a node that has not voted at the height preserves the part
\* of the invariant that is about votes and blocks already finalized.
LEMMA VotePreserves ==
    ASSUME FinalityInv, NEW n \in Nodes, NEW h \in Hashes, CanVote(n, h),
           ballots' = ballots \cup {VoteFor(n, h)}
    PROVE  /\ ballots' \subseteq [validator : Nodes, hash : Hashes]
           /\ VotesOnce'
           /\ \A m \in Nodes : \A i \in DOMAIN ledger[m] :
                 stakeMet(Supporters(ledger[m][i], ballots'))
<1>1. ballots' \subseteq [validator : Nodes, hash : Hashes]
  BY DEF FinalityInv, FinalityType, VoteFor
<1>2. VotesOnce'
  BY DEF FinalityInv, FinalityType, VotesOnce, CanVote, VoteFor
<1>3. ASSUME NEW m \in Nodes, NEW i \in DOMAIN ledger[m]
      PROVE  stakeMet(Supporters(ledger[m][i], ballots'))
  <2>1. stakeMet(Supporters(ledger[m][i], ballots))
    BY DEF FinalityInv, Supported
  <2>2. Supporters(ledger[m][i], ballots) \subseteq Supporters(ledger[m][i], ballots')
    BY SupportersMonotone
  <2>3. QED
    BY <2>1, <2>2, QuorumMonotone, Zenon
<1>4. QED
  BY <1>1, <1>2, <1>3, Zenon

\* Appending a supported block at the right height keeps every finalized
\* block at its height with its quorum.
LEMMA AppendPreserves ==
    ASSUME FinalityInv, NEW n \in Nodes, NEW h \in Hashes, NEW V,
           CanFinalize(n, h, V),
           \A m \in Nodes : \A i \in DOMAIN ledger[m] : stakeMet(Supporters(ledger[m][i], V)),
           ledger' = [ledger EXCEPT ![n] = Append(@, h)]
    PROVE  /\ ledger' \in [Nodes -> Seq(Hashes)]
           /\ \A m \in Nodes : \A i \in DOMAIN ledger'[m] :
                 /\ Height[ledger'[m][i]] = i - 1
                 /\ stakeMet(Supporters(ledger'[m][i], V))
<1>1. ledger \in [Nodes -> Seq(Hashes)]
  BY DEF FinalityInv, FinalityType
<1>2. ledger' \in [Nodes -> Seq(Hashes)]
  BY <1>1
<1>3. ASSUME NEW m \in Nodes, NEW i \in DOMAIN ledger'[m]
      PROVE  /\ Height[ledger'[m][i]] = i - 1
             /\ stakeMet(Supporters(ledger'[m][i], V))
  <2>1. CASE i \in DOMAIN ledger[m]
    <3>1. ledger'[m][i] = ledger[m][i]
      BY <1>1, <2>1
    <3>2. Height[ledger[m][i]] = i - 1
      BY <2>1 DEF FinalityInv, Supported
    <3>3. QED
      BY <3>1, <3>2, <2>1
  <2>2. CASE i \notin DOMAIN ledger[m]
    <3>1. m = n /\ i = Len(ledger[n]) + 1 /\ ledger'[m][i] = h
      BY <1>1, <2>2
    <3>2. QED
      BY <3>1, <1>1 DEF CanFinalize
  <2>3. QED
    BY <2>1, <2>2
<1>4. QED
  BY <1>2, <1>3

\* Every step preserves the invariant.
LEMMA FinalityNextInv == FinalityInv /\ [FinalityNext]_finalityVars => FinalityInv'
<1> SUFFICES ASSUME FinalityInv, [FinalityNext]_finalityVars PROVE FinalityInv'
  OBVIOUS
<1>1. ASSUME NEW n \in Nodes, NEW h \in Hashes, CastVote(n, h) PROVE FinalityInv'
  <2>1. /\ ballots' \subseteq [validator : Nodes, hash : Hashes]
        /\ VotesOnce'
        /\ \A m \in Nodes : \A i \in DOMAIN ledger[m] :
              stakeMet(Supporters(ledger[m][i], ballots'))
    BY <1>1, VotePreserves, Zenon DEF CastVote
  <2>2. ledger' = ledger
    BY <1>1 DEF CastVote
  <2>3. FinalityType'
    BY <2>1, <2>2 DEF FinalityInv, FinalityType
  <2>4. Supported'
    BY <2>1, <2>2 DEF FinalityInv, Supported
  <2>5. QED
    BY <2>1, <2>3, <2>4 DEF FinalityInv
<1>2. ASSUME NEW n \in Nodes, NEW h \in Hashes, Finalize(n, h) PROVE FinalityInv'
  <2>1. CanFinalize(n, h, ballots) /\ ballots' = ballots
    BY <1>2 DEF Finalize
  <2>2. /\ ledger' \in [Nodes -> Seq(Hashes)]
        /\ \A m \in Nodes : \A i \in DOMAIN ledger'[m] :
              /\ Height[ledger'[m][i]] = i - 1
              /\ stakeMet(Supporters(ledger'[m][i], ballots))
    BY <1>2, <2>1, AppendPreserves, Zenon DEF Finalize, FinalityInv, Supported
  <2>3. FinalityType' /\ VotesOnce'
    BY <2>1, <2>2 DEF FinalityInv, FinalityType, VotesOnce
  <2>4. Supported'
    BY <2>1, <2>2 DEF Supported
  <2>5. QED
    BY <2>3, <2>4 DEF FinalityInv
<1>3. ASSUME NEW n \in Nodes, NEW h \in Hashes, VoteAndFinalize(n, h) PROVE FinalityInv'
  <2>1. /\ ballots' \subseteq [validator : Nodes, hash : Hashes]
        /\ VotesOnce'
        /\ \A m \in Nodes : \A i \in DOMAIN ledger[m] :
              stakeMet(Supporters(ledger[m][i], ballots'))
    BY <1>3, VotePreserves, Zenon DEF VoteAndFinalize
  <2>2. CanFinalize(n, h, ballots')
    BY <1>3 DEF VoteAndFinalize
  <2>3. /\ ledger' \in [Nodes -> Seq(Hashes)]
        /\ \A m \in Nodes : \A i \in DOMAIN ledger'[m] :
              /\ Height[ledger'[m][i]] = i - 1
              /\ stakeMet(Supporters(ledger'[m][i], ballots'))
    BY <1>3, <2>1, <2>2, AppendPreserves DEF VoteAndFinalize
  <2>4. FinalityType'
    BY <2>1, <2>3 DEF FinalityType
  <2>5. Supported'
    BY <2>3 DEF Supported
  <2>6. QED
    BY <2>1, <2>4, <2>5 DEF FinalityInv
<1>4. CASE UNCHANGED finalityVars
  BY <1>4 DEF finalityVars, FinalityInv, FinalityType, VotesOnce, Supported
<1>5. QED
  BY <1>1, <1>2, <1>3, <1>4 DEF FinalityNext

\* Two quorums for different blocks of one height share only validators that
\* do not run the node code, and those hold too little stake.
LEMMA FinalityInvAgree == FinalityInv => LedgersAgree
<1> SUFFICES ASSUME FinalityInv, MinorityAdversary,
                    NEW m \in Nodes, NEW n \in Nodes,
                    NEW i \in DOMAIN ledger[m] \cap DOMAIN ledger[n],
                    ledger[m][i] # ledger[n][i]
             PROVE  FALSE
  BY DEF LedgersAgree
<1> DEFINE g == ledger[m][i]
           h == ledger[n][i]
           S == Supporters(g, ballots)
           T == Supporters(h, ballots)
<1>1. Height[g] = Height[h] /\ stakeMet(S) /\ stakeMet(T)
  BY DEF FinalityInv, Supported
<1>2. S \cap T \subseteq Validators \ Nodes
  BY <1>1 DEF FinalityInv, VotesOnce, Supporters, VoteFor
<1>3. StakeHeld(S \cap T) * finalityDen >= (2 * finalityNum - finalityDen) * totalStake
  BY <1>1, QuorumIntersection
<1>4. StakeHeld(S \cap T) <= StakeHeld(Validators \ Nodes)
  BY <1>2, StakeHeldMonotone
<1>5. finalityDen \in Int /\ finalityDen >= 1 /\ finalityNum \in Int
  BY <1>1, StakeAssumption DEF stakeMet, validThreshold
<1>6. /\ StakeHeld(S \cap T) \in Nat
      /\ StakeHeld(Validators \ Nodes) \in Nat
      /\ totalStake \in Nat
  BY StakeHeldType
<1>7. \A a, b, d \in Int : d >= 1 /\ a <= b => a * d <= b * d
  OBVIOUS
<1>8. StakeHeld(S \cap T) * finalityDen <= StakeHeld(Validators \ Nodes) * finalityDen
  BY <1>4, <1>5, <1>6, <1>7
<1>9. /\ StakeHeld(S \cap T) * finalityDen \in Int
      /\ StakeHeld(Validators \ Nodes) * finalityDen \in Int
      /\ (2 * finalityNum - finalityDen) * totalStake \in Int
  BY <1>5, <1>6
<1>10. QED
  BY <1>3, <1>8, <1>9 DEF MinorityAdversary

\* Honest ledgers never disagree on a finalized height while the other
\* validators hold less than a third of the stake (2*num - den parts in den).
THEOREM AbstractAgreement == FinalitySpec => []LedgersAgree
<1>1. FinalitySpec => []FinalityInv
  BY FinalityInitInv, FinalityNextInv, PTL DEF FinalitySpec
<1>2. QED
  BY <1>1, FinalityInvAgree, PTL
=============================================================================
