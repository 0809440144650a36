---------------------------- MODULE GossipProofs ----------------------------
(***************************************************************************)
(* The node logic preserves its inductive invariant, one lemma per         *)
(* operator of GossipNode, and with it the safety of the networked ledger  *)
(* over an arbitrary transport.                                            *)
(***************************************************************************)
EXTENDS GossipNodeProofs

\* Messages on the wire and messages out are messages; an attestation among
\* them has a hash, a validator and a height.
LEMMA WireType ==
    ASSUME NEW s \in NodeState, NEW M, M \subseteq GossipMessage
    PROVE  /\ M \cup OutSet(s) \subseteq GossipMessage
           /\ \A m \in M \cup OutSet(s) :
                 m.kind = "attestation" =>
                    /\ m.attestation \in Attestation
                    /\ m.attestation.blockHash \in Hashes
                    /\ m.attestation.height \in Nat
                    /\ m = AttestationMsg(m.attestation)
<1>1. s.out \in Seq(GossipMessage)
  BY DEF NodeState
<1>2. \A i \in DOMAIN s.out : s.out[i] \in GossipMessage
  BY <1>1
<1>3. M \cup OutSet(s) \subseteq GossipMessage
  BY <1>2 DEF OutSet
<1>4. ASSUME NEW m \in GossipMessage, m.kind = "attestation"
      PROVE  /\ m.attestation \in Attestation
             /\ m = AttestationMsg(m.attestation)
  BY <1>4 DEF GossipMessage, AttestationMsg
<1>5. \A a \in Attestation : a.blockHash \in Hashes /\ a.height \in Nat
  BY DEF Attestation
<1>6. QED
  BY <1>3, <1>4, <1>5

\* tryFinalize appends only a block verifyFinalized accepts on the current
\* head with the pooled attestations, so soundness survives it.
LEMMA TryFinalizeSound ==
    ASSUME NEW n \in Nodes, NEW s, NEW M, NEW h \in Hashes,
           M \subseteq GossipMessage, Sound(n, s, M)
    PROVE  Sound(n, tryFinalize(s, h), M)
<1> DEFINE r == tryFinalize(s, h)
           fb == [hash |-> h, attestations |-> attestationsFor(s, h)]
           W == M \cup OutSet(s)
<1>1. CASE ~CanSubmit(s, h)
  BY <1>1, Zenon DEF tryFinalize
<1>2. CASE CanSubmit(s, h)
  <2>2. s \in NodeState
    BY Zenon DEF Sound
  <2>3. attestationsFor(s, h) \subseteq s.attestations
    BY Zenon DEF attestationsFor
  <2>4. /\ r \in NodeState
        /\ fb \in FinalizedBlock
        /\ r.chain = Append(s.chain, fb)
        /\ r.attestations = s.attestations
        /\ r.attestedAt = s.attestedAt
        /\ r.out = s.out
    BY <1>2, <2>2, FinalizeShape, Zenon
  <2>5. /\ s.chain \in Seq(FinalizedBlock)
        /\ Len(s.chain) \in Nat
        /\ Len(Append(s.chain, fb)) = Len(s.chain) + 1
        /\ DOMAIN Append(s.chain, fb) = 1 .. (Len(s.chain) + 1)
        /\ DOMAIN s.chain = 1 .. Len(s.chain)
        /\ \A i \in 1 .. Len(s.chain) : Append(s.chain, fb)[i] = s.chain[i]
        /\ Append(s.chain, fb)[Len(s.chain) + 1] = fb
    BY <2>2, <2>4, HeightType, AppendProperties, LenProperties
  <2> HIDE DEF r
  <2>7. OutSet(r) = OutSet(s)
    BY <2>4, Zenon DEF OutSet
  <2>8. OutOK(n, r, M)
    BY <2>7, Zenon DEF Sound, OutOK
  <2>9. Authentic(r.attestations, W)
    BY SMTT(60), <2>4 DEF Sound
  <2>10. ChainOK(r, W)
    <3> SUFFICES ASSUME NEW i \in DOMAIN r.chain
                 PROVE  /\ verifyFinalized([hash |-> r.chain[i].hash, sealed |-> TRUE],
                                           r.chain[i].attestations, PrevOf(r, i), i - 1)
                        /\ Authentic(r.chain[i].attestations, W)
                        /\ \A a \in r.chain[i].attestations : a.blockHash = r.chain[i].hash
      BY ZenonT(60) DEF ChainOK
    <3>1. CASE i \in DOMAIN s.chain
      <4>1. r.chain[i] = s.chain[i] /\ PrevOf(r, i) = PrevOf(s, i)
        BY <2>5, <2>4, <3>1 DEF PrevOf
      <4>2. QED
        BY <3>1, <4>1, ZenonT(60) DEF Sound, ChainOK
    <3>2. CASE i = Len(s.chain) + 1
      <4>1. r.chain[i] = fb
        BY <2>5, <2>4, <3>2, SMTT(60)
      <4>2. PrevOf(r, i) = headHash(s) /\ i - 1 = height(s)
        BY <2>5, <2>4, <3>2, SMTT(60) DEF PrevOf, headHash, height
      <4>3. verifyFinalized([hash |-> h, sealed |-> TRUE], attestationsFor(s, h),
                            headHash(s), height(s))
        BY <1>2, Zenon DEF CanSubmit, verifyFinalized
      <4>4. Authentic(attestationsFor(s, h), W)
        BY <2>3 DEF Sound, Authentic
      <4>5. \A a \in attestationsFor(s, h) : a.blockHash = h
        BY Zenon DEF attestationsFor
      <4>6. QED
        BY <4>1, <4>2, <4>3, <4>4, <4>5, SMTT(60)
    <3>3. i \in 1 .. (Len(s.chain) + 1)
      BY <2>5, <2>4
    <3>4. i \in 1 .. Len(s.chain) \/ i = Len(s.chain) + 1
      BY <2>5, <3>3, SMTT(60)
    <3>5. QED
      BY <2>5, <3>1, <3>2, <3>4
  <2>11. VotesOK(n, r, W)
    <3>1. height(s) \in Nat /\ height(r) = height(s) + 1
      BY <2>5, <2>4 DEF height
    <3>2. \A m \in W : m.kind = "attestation" => m.attestation.height \in Nat
      BY <2>2, WireType
    <3>3. QED
      BY <2>4, <3>1, <3>2, SMTT(60) DEF Sound, VotesOK
  <2>12. M \cup OutSet(r) = W
    BY <2>7, Zenon
  <2> HIDE DEF W
  <2>13. Sound(n, r, M)
    BY <2>4, <2>8, <2>9, <2>10, <2>11, <2>12, Zenon DEF Sound
  <2>14. QED
    BY <2>13, Zenon DEF r
<1>3. QED
  BY <1>1, <1>2

\* A step that leaves the chain alone, forgets pool entries or attested hashes
\* of other heights, and sends nothing but blocks or what was already on the
\* wire keeps the state sound.
LEMMA SoundTransfer ==
    ASSUME NEW n \in Nodes, NEW s, NEW r \in NodeState, NEW M,
           M \subseteq GossipMessage, Sound(n, s, M),
           r.chain = s.chain,
           r.attestations \subseteq s.attestations,
           r.attestedAt \subseteq s.attestedAt,
           \A g \in s.attestedAt : Height[g] = height(s) => g \in r.attestedAt,
           OutSet(s) \subseteq OutSet(r),
           \A m \in OutSet(r) : m \in M \cup OutSet(s) \/ m.kind = "block"
    PROVE  Sound(n, r, M)
<1> DEFINE W == M \cup OutSet(s)
           X == M \cup OutSet(r)
<1>1. \A m \in X : m.kind = "attestation" => m \in W
  OBVIOUS
<1>2. W \subseteq X
  BY Zenon
<1>3. OutOK(n, r, M)
  BY SMTT(60) DEF Sound, OutOK
<1>4. Authentic(r.attestations, X)
  BY <1>2, SMTT(60) DEF Sound, Authentic
<1>5. ChainOK(r, X)
  <2>1. \A i : PrevOf(r, i) = PrevOf(s, i)
    BY DEF PrevOf
  <2>2. \A i \in DOMAIN s.chain : Authentic(s.chain[i].attestations, X)
    BY <1>2, ZenonT(60) DEF Sound, ChainOK, Authentic
  <2>3. QED
    BY <2>1, <2>2, ZenonT(60) DEF Sound, ChainOK
<1>6. VotesOK(n, r, X)
  <2>1. height(r) = height(s)
    BY DEF height
  <2>2. VotesOK(n, s, W)
    BY Zenon DEF Sound
  <2>3. \A g, h \in r.attestedAt : Height[g] = Height[h] => g = h
    BY <2>2, Zenon DEF VotesOK
  <2>4. ASSUME NEW m \in X,
               m.kind = "attestation" /\ m.attestation.valid /\ m.attestation.validator = n
        PROVE  /\ m.attestation.height = Height[m.attestation.blockHash]
               /\ m.attestation.height <= height(r)
               /\ m.attestation.height = height(r) => m.attestation.blockHash \in r.attestedAt
    BY <1>1, <2>1, <2>2, <2>4, SMTT(60) DEF VotesOK
  <2>5. ASSUME NEW m \in X, NEW k \in X,
               m.kind = "attestation" /\ m.attestation.valid /\ m.attestation.validator = n,
               k.kind = "attestation" /\ k.attestation.valid /\ k.attestation.validator = n,
               m.attestation.height = k.attestation.height
        PROVE  m.attestation.blockHash = k.attestation.blockHash
    BY SMTT(60), <1>1, <2>2, <2>5 DEF VotesOK
  <2>6. QED
    BY <2>3, <2>4, <2>5 DEF VotesOK
<1>7. QED
  BY <1>3, <1>4, <1>5, <1>6, SMTT(60) DEF Sound

\* An admitted attestation enters the pool and is flooded.  It was on the wire
\* already, or it is the node's own vote for the hash attestedAt holds for the
\* node's height.
LEMMA PoolSound ==
    ASSUME NEW n \in Nodes, NEW s, NEW M, NEW a \in Attestation,
           M \subseteq GossipMessage, Sound(n, s, M), Admits(s, a),
           \/ AttestationMsg(a) \in M
           \/ /\ a.validator = n
              /\ a.height = Height[a.blockHash]
              /\ a.height = height(s)
              /\ a.blockHash \in s.attestedAt
    PROVE  Sound(n, broadcast(Pool(s, a), AttestationMsg(a)), M)
<1> DEFINE p == Pool(s, a)
           msg == AttestationMsg(a)
           r == broadcast(p, msg)
           W == M \cup OutSet(s)
           X == M \cup OutSet(r)
<1>1. s \in NodeState
  BY DEF Sound
<1>2. msg \in GossipMessage /\ msg.kind = "attestation" /\ msg.attestation = a
  BY Zenon DEF GossipMessage, AttestationMsg
<1>3. /\ p \in NodeState
      /\ p.chain = s.chain
      /\ p.attestations = s.attestations \cup {a}
      /\ p.attestedAt = s.attestedAt
      /\ p.out = s.out
  BY <1>1, PoolShape, Zenon
<1> HIDE DEF p, msg
<1>4. /\ r \in NodeState
      /\ r.chain = s.chain
      /\ r.attestations = s.attestations \cup {a}
      /\ r.attestedAt = s.attestedAt
      /\ OutSet(r) = OutSet(s) \cup {msg}
  <2>1. OutSet(p) = OutSet(s)
    BY <1>3, Zenon DEF OutSet
  <2>2. /\ r \in NodeState
        /\ OutSet(r) = OutSet(p) \cup {msg}
        /\ r.chain = p.chain
        /\ r.attestations = p.attestations
        /\ r.attestedAt = p.attestedAt
    BY <1>2, <1>3, BroadcastShape, Zenon
  <2> HIDE DEF r
  <2>3. QED
    BY <1>3, <2>1, <2>2, Zenon
<1> HIDE DEF r
<1>5. OutOK(n, r, M)
  BY <1>2, <1>4, SMTT(60) DEF Sound, OutOK, msg
<1>6. Authentic(r.attestations, X)
  <2>1. a.valid /\ stakeOf(a.validator) > 0 /\ AttestationMsg(a) \in X
    BY <1>4, Zenon DEF Admits, msg
  <2>2. \A b \in s.attestations : b.blockHash = a.blockHash => b.validator # a.validator
    BY SMTT(60) DEF Admits, attestationsFor
  <2>3. QED
    BY <1>4, <2>1, <2>2, SMTT(60) DEF Sound, Authentic
<1>7. ChainOK(r, X)
  <2>1. \A i : PrevOf(r, i) = PrevOf(s, i)
    BY <1>4 DEF PrevOf
  <2>2. \A i \in DOMAIN s.chain : Authentic(s.chain[i].attestations, X)
    BY <1>4, ZenonT(60) DEF Sound, ChainOK, Authentic
  <2>3. QED
    BY <1>4, <2>1, <2>2, ZenonT(60) DEF Sound, ChainOK
<1>8. VotesOK(n, r, X)
  <2>1. height(r) = height(s) /\ height(s) \in Nat
    BY SMTT(60), <1>1, <1>4, HeightType DEF height
  <2>2. VotesOK(n, s, W)
    BY DEF Sound
  <2>3. \/ msg \in W
        \/ /\ a.validator = n
           /\ a.height = Height[a.blockHash]
           /\ a.height = height(s)
           /\ a.blockHash \in s.attestedAt
    BY DEF msg
  <2>4. X = W \cup {msg}
    BY <1>4, SMTT(60)
  <2>5. \A g, h \in r.attestedAt : Height[g] = Height[h] => g = h
    BY <1>4, <2>2, SMTT(60) DEF VotesOK
  <2>6. ASSUME NEW m \in X,
               m.kind = "attestation" /\ m.attestation.valid /\ m.attestation.validator = n
        PROVE  /\ m.attestation.height = Height[m.attestation.blockHash]
               /\ m.attestation.height <= height(r)
               /\ m.attestation.height = height(r) => m.attestation.blockHash \in r.attestedAt
    BY <1>2, <1>4, <2>1, <2>2, <2>3, <2>4, <2>6, SMTT(60) DEF VotesOK
  <2>7. ASSUME NEW m \in X, NEW k \in X,
               m.kind = "attestation" /\ m.attestation.valid /\ m.attestation.validator = n,
               k.kind = "attestation" /\ k.attestation.valid /\ k.attestation.validator = n,
               m.attestation.height = k.attestation.height
        PROVE  m.attestation.blockHash = k.attestation.blockHash
    <3>1. CASE m \in W /\ k \in W
      BY <2>2, <2>7, <3>1, SMTT(60) DEF VotesOK
    <3>2. CASE m \notin W \/ k \notin W
      <4>1. m.attestation.height = height(s) /\ k.attestation.height = height(s)
        BY <1>2, <2>3, <2>4, <2>7, <3>2, SMTT(60)
      <4>2. /\ m.attestation.blockHash \in r.attestedAt
            /\ k.attestation.blockHash \in r.attestedAt
            /\ Height[m.attestation.blockHash] = Height[k.attestation.blockHash]
        BY <2>1, <2>6, <2>7, <4>1, SMTT(60)
      <4>3. QED
        BY <2>5, <4>2, SMTT(60)
    <3>3. QED
      BY <3>1, <3>2, SMTT(60)
  <2>8. QED
    BY SMTT(60), <2>5, <2>6, <2>7 DEF VotesOK
<1>9. Sound(n, r, M)
  BY <1>4, <1>5, <1>6, <1>7, <1>8, SMTT(60) DEF Sound
<1>10. QED
  BY <1>9, Zenon DEF r, p, msg

\* onAttestation keeps the state sound.
LEMMA OnAttestationSound ==
    ASSUME NEW n \in Nodes, NEW s, NEW M, NEW a \in Attestation,
           M \subseteq GossipMessage, Sound(n, s, M),
           \/ AttestationMsg(a) \in M
           \/ /\ a.validator = n
              /\ a.height = Height[a.blockHash]
              /\ a.height = height(s)
              /\ a.blockHash \in s.attestedAt
    PROVE  Sound(n, onAttestation(s, a), M)
<1>1. CASE ~Admits(s, a)
  BY <1>1, SMTT(60) DEF onAttestation
<1>2. CASE Admits(s, a)
  <2>1. Sound(n, broadcast(Pool(s, a), AttestationMsg(a)), M)
    BY <1>2, PoolSound
  <2>2. a.blockHash \in Hashes
    BY Zenon DEF Attestation
  <2>3. Sound(n, tryFinalize(broadcast(Pool(s, a), AttestationMsg(a)), a.blockHash), M)
    BY <2>1, <2>2, TryFinalizeSound, SMTT(60)
  <2>4. QED
    BY <1>2, <2>3, SMTT(60) DEF onAttestation
<1>3. QED
  BY <1>1, <1>2, SMTT(60)

\* Buffering a block of a later height keeps the state sound.
LEMMA BufferFutureSound ==
    ASSUME NEW n \in Nodes, NEW s, NEW M, NEW b \in Block,
           M \subseteq GossipMessage, Sound(n, s, M)
    PROVE  Sound(n, bufferFuture(s, b), M)
<1> DEFINE r == bufferFuture(s, b)
<1>1. s \in NodeState
  BY Zenon DEF Sound
<1>2. /\ r \in NodeState
      /\ r.chain = s.chain
      /\ r.attestations = s.attestations
      /\ r.attestedAt = s.attestedAt
      /\ OutSet(s) \subseteq OutSet(r)
      /\ OutSet(r) \subseteq OutSet(s) \cup {BlockMsg(b)}
  BY <1>1, BufferLocal, Zenon
<1> HIDE DEF r
<1>3. \A m \in OutSet(r) : m \in M \cup OutSet(s) \/ m.kind = "block"
  BY <1>2, SMTT(60) DEF BlockMsg
<1>4. Sound(n, r, M)
  BY <1>2, <1>3, SoundTransfer, SMTT(60)
<1>5. QED
  BY <1>4, Zenon DEF r

\* Storing a block keeps the state sound and the node at its height.
LEMMA RecordSound ==
    ASSUME NEW n \in Nodes, NEW s, NEW M, NEW b \in Block, NEW flood,
           M \subseteq GossipMessage, Sound(n, s, M),
           ~(Cardinality(s.knownBlocks) >= MAX_KNOWN_AT_HEIGHT)
    PROVE  Sound(n, Record(s, b, flood), M) /\ height(Record(s, b, flood)) = height(s)
<1> DEFINE r == Record(s, b, flood)
<1>1. s \in NodeState
  BY Zenon DEF Sound
<1>2. /\ r \in NodeState
      /\ r.chain = s.chain
      /\ r.attestations = s.attestations
      /\ r.attestedAt = s.attestedAt
      /\ OutSet(s) \subseteq OutSet(r)
      /\ OutSet(r) \subseteq OutSet(s) \cup {BlockMsg(b)}
  BY <1>1, RecordLocal, Zenon
<1> HIDE DEF r
<1>3. \A m \in OutSet(r) : m \in M \cup OutSet(s) \/ m.kind = "block"
  BY <1>2, SMTT(60) DEF BlockMsg
<1>4. Sound(n, r, M) /\ height(r) = height(s)
  BY <1>2, <1>3, SoundTransfer, SMTT(60) DEF height
<1>5. QED
  BY <1>4, Zenon DEF r

\* The node attests a block at its height only if attestedAt holds none there,
\* and remembers it before signing: its votes stay one per height.
LEMMA AttestOnceSound ==
    ASSUME NEW n \in Nodes, NEW s, NEW M, NEW h \in Hashes,
           M \subseteq GossipMessage, Sound(n, s, M), Height[h] = height(s)
    PROVE  Sound(n, AttestOnce(n, s, h), M)
<1> DEFINE already == {g \in s.attestedAt : Height[g] = Height[h]}
           others  == [a : already \ {h}, b : {h}]
<1>1. s \in NodeState
  BY DEF Sound
<1>2. CASE already # {}
  <2> DEFINE r == [s EXCEPT !.observedConflicts = @ \cup others]
  <2>1. others \subseteq [a : Hashes, b : Hashes]
    BY <1>1 DEF NodeState
  <2>2. AttestOnce(n, s, h) \in {s, r}
    BY <1>2, Zenon DEF AttestOnce
  <2> HIDE DEF others
  <2>3. /\ r \in NodeState
        /\ r.out = s.out
        /\ r.chain = s.chain
        /\ r.attestations = s.attestations
        /\ r.attestedAt = s.attestedAt
    BY <1>1, <2>1, ConflictShape, Zenon
  <2> HIDE DEF r
  <2>4. OutSet(r) = OutSet(s)
    BY <2>3, Zenon DEF OutSet
  <2>5. Sound(n, r, M)
    BY <2>3, <2>4, SoundTransfer
  <2>6. QED
    BY <2>2, <2>5, Zenon
<1>3. CASE already = {} /\ stakeOf(n) > 0
  <2> DEFINE T == s.attestedAt \cup {h}
             r == [s EXCEPT !.attestedAt = @ \cup {h}]
             a == attest(h, n)
  <2>3. AttestOnce(n, s, h) = onAttestation(r, a)
    BY <1>3, Zenon DEF AttestOnce
  <2>4. /\ a \in Attestation
        /\ a.validator = n
        /\ a.height = Height[h]
        /\ a.blockHash = h
    BY LedgerAssumption DEF attest, Attestation, Ids
  <2> HIDE DEF r, T, a
  <2>5. /\ r \in NodeState
        /\ r.out = s.out
        /\ r.chain = s.chain
        /\ r.attestations = s.attestations
        /\ r.attestedAt = T
    BY <1>1, AttestedShape, Zenon DEF r, T
  <2>6. OutSet(r) = OutSet(s) /\ height(r) = height(s)
    BY SMTT(60), <2>5 DEF OutSet, height
  <2>7. OutOK(n, r, M) /\ Authentic(r.attestations, M \cup OutSet(r))
    BY <2>5, <2>6 DEF Sound, OutOK
  <2>8. ChainOK(r, M \cup OutSet(r))
    BY <2>5, <2>6, ZenonT(60) DEF Sound, ChainOK, PrevOf
  <2>9. VotesOK(n, r, M \cup OutSet(r))
    <3>1. VotesOK(n, s, M \cup OutSet(r))
      BY SMTT(60), <2>6 DEF Sound
    <3>2. \A g, f \in r.attestedAt : Height[g] = Height[f] => g = f
      BY <1>3, <2>5, <3>1, SMTT(60) DEF VotesOK, T
    <3>3. s.attestedAt \subseteq r.attestedAt
      BY <2>5, Zenon DEF T
    <3>4. QED
      BY SMTT(60), <2>6, <3>1, <3>2, <3>3 DEF VotesOK
  <2>10. Sound(n, r, M)
    BY <2>5, <2>7, <2>8, <2>9, SMTT(60) DEF Sound
  <2>11. Sound(n, onAttestation(r, a), M)
    BY <2>4, <2>5, <2>6, <2>10, OnAttestationSound, SMTT(60) DEF T
  <2>12. QED
    BY <2>3, <2>11
<1>4. CASE already = {} /\ ~(stakeOf(n) > 0)
  BY <1>4, SMTT(60) DEF AttestOnce
<1>5. QED
  BY <1>2, <1>3, <1>4, SMTT(60)

\* onBlock keeps the state sound.
LEMMA OnBlockSound ==
    ASSUME NEW n \in Nodes, NEW s, NEW M, NEW b \in Block, NEW flood,
           M \subseteq GossipMessage, Sound(n, s, M)
    PROVE  Sound(n, onBlock(n, s, b, flood), M)
<1> DEFINE r == Record(s, b, flood)
<1>1. b.hash \in Hashes /\ Height[b.hash] \in Nat
  BY LedgerAssumption, Zenon DEF Block
<1>2. height(s) \in Nat
  BY HeightType DEF Sound
<1>3. CASE Height[b.hash] < height(s)
  <2>1. ~(Height[b.hash] > height(s))
    BY <1>1, <1>2, <1>3
  <2>2. onBlock(n, s, b, flood) = s
    BY <1>3, <2>1 DEF onBlock
  <2>3. QED
    BY <2>2
<1>4. CASE Height[b.hash] > height(s)
  <2>1. ~(Height[b.hash] < height(s))
    BY <1>1, <1>2, <1>4
  <2>2. onBlock(n, s, b, flood) = bufferFuture(s, b)
    BY <1>4, <2>1 DEF onBlock
  <2>3. QED
    BY <2>2, BufferFutureSound
<1>5. CASE Height[b.hash] = height(s)
  <2>1. \/ onBlock(n, s, b, flood) = s
        \/ /\ onBlock(n, s, b, flood) = tryFinalize(AttestOnce(n, r, b.hash), b.hash)
           /\ ~(Cardinality(s.knownBlocks) >= MAX_KNOWN_AT_HEIGHT)
    <3>1. ~(Height[b.hash] < height(s)) /\ ~(Height[b.hash] > height(s))
      BY SMTT(60), <1>1, <1>2, <1>5
    <3>2. QED
      BY <3>1, Zenon DEF onBlock
  <2>2. CASE onBlock(n, s, b, flood) = s
    BY <2>2, Zenon
  <2>3. CASE /\ onBlock(n, s, b, flood) = tryFinalize(AttestOnce(n, r, b.hash), b.hash)
             /\ ~(Cardinality(s.knownBlocks) >= MAX_KNOWN_AT_HEIGHT)
    <3>1. Sound(n, r, M) /\ height(r) = height(s)
      BY <2>3, RecordSound, SMTT(60)
    <3> HIDE DEF r
    <3>2. Sound(n, AttestOnce(n, r, b.hash), M)
      BY <1>1, <1>5, <3>1, AttestOnceSound, SMTT(60)
    <3>3. Sound(n, tryFinalize(AttestOnce(n, r, b.hash), b.hash), M)
      BY <1>1, <3>2, TryFinalizeSound, SMTT(60)
    <3>4. QED
      BY <2>3, <3>3, Zenon
  <2>4. QED
    BY <2>1, <2>2, <2>3, Zenon
<1>6. QED
  BY <1>1, <1>2, <1>3, <1>4, <1>5, SMTT(60)

\* A round of drainBuffered keeps the state sound: what it forgets of
\* attestedAt lies below the height at which the node can still attest.
LEMMA DrainSound ==
    ASSUME NEW n \in Nodes, NEW s, NEW M,
           M \subseteq GossipMessage, Sound(n, s, M), s.due = <<>>
    PROVE  Sound(n, drainBuffered(s), M)
<1> DEFINE r == drainBuffered(s)
<1>1. s \in NodeState /\ height(s) \in Nat
  BY HeightType, Zenon DEF Sound
<1>2. /\ r \in NodeState
      /\ r.chain = s.chain
      /\ r.out = s.out
      /\ r.attestations \subseteq s.attestations
      /\ r.attestedAt = {h \in s.attestedAt : Height[h] >= height(s)}
  BY <1>1, DrainLocal, Zenon
<1> HIDE DEF r
<1>3. /\ r.attestedAt \subseteq s.attestedAt
      /\ \A g \in s.attestedAt : Height[g] = height(s) => g \in r.attestedAt
  BY <1>1, <1>2, SMTT(60)
<1>4. OutSet(r) = OutSet(s)
  BY <1>2, Zenon DEF OutSet
<1>5. Sound(n, r, M)
  BY <1>2, <1>3, <1>4, SoundTransfer, SMTT(60)
<1>6. QED
  BY <1>5, Zenon DEF r

\* Replaying a due block keeps the state sound.
LEMMA ReplaySound ==
    ASSUME NEW n \in Nodes, NEW s, NEW M,
           M \subseteq GossipMessage, Sound(n, s, M), s.due # <<>>
    PROVE  Sound(n, ReplayDue(n, s), M)
<1> DEFINE b == Head(s.due)
           u == [s EXCEPT !.due = Tail(@)]
           r == onBlock(n, u, b, FALSE)
<1>1. s \in NodeState
  BY Zenon DEF Sound
<1>2. s.due \in Seq(Block)
  BY <1>1, Zenon DEF NodeState
<1>3. b \in Block
  BY <1>2, HeadTailProperties, Zenon
<1>4. ReplayDue(n, s) = r \/ (r.due = <<>> /\ ReplayDue(n, s) = drainBuffered(r))
  BY Zenon DEF ReplayDue
<1>5. /\ u \in NodeState
      /\ u.out = s.out
      /\ u.chain = s.chain
      /\ u.attestations = s.attestations
      /\ u.attestedAt = s.attestedAt
  BY <1>1, TailShape, Zenon
<1> HIDE DEF b, u
<1>6. OutSet(u) = OutSet(s)
  BY <1>5, Zenon DEF OutSet
<1>7. Sound(n, u, M)
  BY <1>5, <1>6, SoundTransfer
<1>8. Sound(n, r, M)
  BY <1>3, <1>7, OnBlockSound, Zenon
<1> HIDE DEF r
<1>9. QED
  BY <1>4, <1>8, DrainSound, Zenon

\* onMessage keeps the state sound for a message that was on the wire.
LEMMA OnMessageSound ==
    ASSUME NEW n \in Nodes, NEW s, NEW M, NEW m \in M,
           M \subseteq GossipMessage, Sound(n, s, M), s.due = <<>>
    PROVE  Sound(n, onMessage(n, s, m), M)
<1>1. s \in NodeState
  BY Zenon DEF Sound
<1>2. CASE m \in [kind : {"block"}, block : Block]
  <2> DEFINE r == onBlock(n, s, m.block, TRUE)
  <2>1. m.kind = "block" /\ m.block \in Block
    BY <1>2
  <2>2. Sound(n, r, M) /\ r.due = <<>>
    BY <1>1, <2>1, OnBlockSound, OnBlockLocal, Zenon
  <2>3. onMessage(n, s, m) = drainBuffered(r)
    BY <2>1, Zenon DEF onMessage
  <2> HIDE DEF r
  <2>4. QED
    BY <2>2, <2>3, DrainSound, Zenon
<1>3. CASE m \in [kind : {"attestation"}, attestation : Attestation]
  <2> DEFINE r == onAttestation(s, m.attestation)
  <2>1. m.kind = "attestation" /\ m.attestation \in Attestation
    BY <1>3, SMTT(60)
  <2>2. AttestationMsg(m.attestation) = m
    BY <1>3, SMTT(60) DEF AttestationMsg
  <2>3. Sound(n, r, M) /\ r.due = <<>>
    BY <1>1, <2>1, <2>2, OnAttestationSound, OnAttestationLocal, Zenon
  <2>4. onMessage(n, s, m) = drainBuffered(r)
    BY <2>1, Zenon DEF onMessage
  <2> HIDE DEF r
  <2>5. QED
    BY <2>3, <2>4, DrainSound, Zenon
<1>4. QED
  BY <1>2, <1>3, Zenon DEF GossipMessage

\* proposeIfLeader keeps the state sound.
LEMMA ProposeSound ==
    ASSUME NEW n \in Nodes, NEW s, NEW M, NEW h \in Hashes,
           M \subseteq GossipMessage, Sound(n, s, M), s.due = <<>>
    PROVE  Sound(n, proposeIfLeader(n, s, h), M)
<1> DEFINE b == [hash |-> h, sealed |-> TRUE]
           r == onBlock(n, s, b, TRUE)
<1>1. b \in Block /\ s \in NodeState
  BY DEF Block, Sound
<1>2. proposeIfLeader(n, s, h) = drainBuffered(r)
  BY Zenon DEF proposeIfLeader
<1> HIDE DEF b
<1>3. Sound(n, r, M) /\ r.due = <<>>
  BY <1>1, OnBlockSound, OnBlockLocal, Zenon
<1> HIDE DEF r
<1>4. QED
  BY <1>2, <1>3, DrainSound, Zenon
=============================================================================
