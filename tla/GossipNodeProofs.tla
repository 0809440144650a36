-------------------------- MODULE GossipNodeProofs --------------------------
(***************************************************************************)
(* Facts about one GossipNode, whatever it is sent: which fields of its    *)
(* state an operator of GossipNode changes, that a handler adds at most    *)
(* one block to the chain, and that the pool stays indexed and bounded.    *)
(***************************************************************************)
EXTENDS GossipNode, SequenceTheorems, FiniteSetTheorems, TLAPS

\* The height is a natural number and the head a hash or the genesis marker.
LEMMA HeightType ==
    ASSUME NEW s \in NodeState
    PROVE  /\ s.chain \in Seq(FinalizedBlock)
           /\ height(s) \in Nat
           /\ height(s) = Len(s.chain)
           /\ headHash(s) \in Hashes \cup {Genesis}
<1>1. s.chain \in Seq(FinalizedBlock)
  BY Zenon DEF NodeState
<1>2. Len(s.chain) \in Nat
  BY <1>1, LenProperties, Zenon
<1>3. ASSUME s.chain # <<>> PROVE s.chain[Len(s.chain)].hash \in Hashes
  <2>1. s.chain[Len(s.chain)] \in FinalizedBlock
    BY <1>1, <1>2, <1>3
  <2>2. QED
    BY <2>1, Zenon DEF FinalizedBlock
<1>4. QED
  BY <1>1, <1>2, <1>3, Zenon DEF height, headHash

\* The heights of blocks are natural numbers and among Heights.
LEMMA BlockHeight ==
    ASSUME NEW b \in Block
    PROVE  b.hash \in Hashes /\ Height[b.hash] \in Nat /\ Height[b.hash] \in Heights
<1>1. b.hash \in Hashes
  BY Zenon DEF Block
<1>2. QED
  BY <1>1, LedgerAssumption, Zenon DEF Heights

\* Every height a block has is a natural number.
LEMMA HeightsNat == Heights \subseteq Nat
<1>1. \A h \in Hashes : Height[h] \in Nat
  BY LedgerAssumption, Zenon
<1>2. QED
  BY <1>1 DEF Heights

-----------------------------------------------------------------------------
(* Which fields an operator changes.                                       *)

\* broadcast appends to out and changes nothing else.
LEMMA BroadcastShape ==
    ASSUME NEW s \in NodeState, NEW m \in GossipMessage
    PROVE  LET r == broadcast(s, m)
           IN  /\ r \in NodeState
               /\ r.chain = s.chain
               /\ r.knownBlocks = s.knownBlocks
               /\ r.attestations = s.attestations
               /\ r.firstHeight = s.firstHeight
               /\ r.hashesByValidator = s.hashesByValidator
               /\ r.attestedAt = s.attestedAt
               /\ r.pendingBlocks = s.pendingBlocks
               /\ r.observedConflicts = s.observedConflicts
               /\ r.due = s.due
               /\ OutSet(r) = OutSet(s) \cup {m}
<1> DEFINE o == Append(s.out, m)
           r == [s EXCEPT !.out = o]
<1>1. s.out \in Seq(GossipMessage)
  BY Zenon DEF NodeState
<1>2. /\ o \in Seq(GossipMessage)
      /\ Len(s.out) \in Nat
      /\ DOMAIN o = 1 .. (Len(s.out) + 1)
      /\ DOMAIN s.out = 1 .. Len(s.out)
      /\ \A i \in 1 .. Len(s.out) : o[i] = s.out[i]
      /\ o[Len(s.out) + 1] = m
  BY <1>1, AppendProperties, LenProperties
<1>3. broadcast(s, m) = r
  BY Zenon DEF broadcast
<1> HIDE DEF o
<1>4. /\ r \in NodeState
      /\ r.out = o
      /\ r.chain = s.chain
      /\ r.knownBlocks = s.knownBlocks
      /\ r.attestations = s.attestations
      /\ r.firstHeight = s.firstHeight
      /\ r.hashesByValidator = s.hashesByValidator
      /\ r.attestedAt = s.attestedAt
      /\ r.pendingBlocks = s.pendingBlocks
      /\ r.observedConflicts = s.observedConflicts
      /\ r.due = s.due
  BY <1>2, ZenonT(60) DEF NodeState
<1> HIDE DEF r
<1>5. OutSet(r) = OutSet(s) \cup {m}
  BY <1>2, <1>4 DEF OutSet
<1>6. QED
  BY <1>3, <1>4, <1>5, Zenon

\* Pool changes the pool and its two indexes.
LEMMA PoolShape ==
    ASSUME NEW s \in NodeState, NEW a \in Attestation
    PROVE  LET r == Pool(s, a)
           IN  /\ r \in NodeState
               /\ r.attestations = s.attestations \cup {a}
               /\ r.firstHeight = [s.firstHeight EXCEPT ![a.blockHash] = IF @ = NoEntry THEN a.height ELSE @]
               /\ r.hashesByValidator = [s.hashesByValidator EXCEPT ![a.validator] = @ \cup {a.blockHash}]
               /\ r.chain = s.chain
               /\ r.knownBlocks = s.knownBlocks
               /\ r.attestedAt = s.attestedAt
               /\ r.pendingBlocks = s.pendingBlocks
               /\ r.observedConflicts = s.observedConflicts
               /\ r.due = s.due
               /\ r.out = s.out
<1> DEFINE A == s.attestations \cup {a}
           F == [s.firstHeight EXCEPT ![a.blockHash] = IF @ = NoEntry THEN a.height ELSE @]
           H == [s.hashesByValidator EXCEPT ![a.validator] = @ \cup {a.blockHash}]
           r == [s EXCEPT !.attestations = A, !.firstHeight = F, !.hashesByValidator = H]
<1>1. A \in SUBSET Attestation
  BY Zenon DEF NodeState
<1>2. F \in [Hashes -> Nat \cup {NoEntry}]
  BY Zenon DEF NodeState, Attestation
<1>3. H \in [Ids -> SUBSET Hashes]
  BY DEF NodeState, Attestation
<1>4. Pool(s, a) = r
  BY DEF Pool
<1> HIDE DEF A, F, H
<1>5. /\ r \in NodeState
      /\ r.attestations = A
      /\ r.firstHeight = F
      /\ r.hashesByValidator = H
      /\ r.chain = s.chain
      /\ r.knownBlocks = s.knownBlocks
      /\ r.attestedAt = s.attestedAt
      /\ r.pendingBlocks = s.pendingBlocks
      /\ r.observedConflicts = s.observedConflicts
      /\ r.due = s.due
      /\ r.out = s.out
  BY <1>1, <1>2, <1>3, ZenonT(60) DEF NodeState
<1> HIDE DEF r
<1>6. QED
  BY <1>4, <1>5, Zenon DEF A, F, H

\* Storing a block changes knownBlocks.
LEMMA StoreShape ==
    ASSUME NEW s \in NodeState, NEW b \in Block
    PROVE  LET r == [s EXCEPT !.knownBlocks = @ \cup {b}]
           IN  /\ r \in NodeState
               /\ r.knownBlocks = s.knownBlocks \cup {b}
               /\ r.chain = s.chain
               /\ r.attestations = s.attestations
               /\ r.firstHeight = s.firstHeight
               /\ r.hashesByValidator = s.hashesByValidator
               /\ r.attestedAt = s.attestedAt
               /\ r.pendingBlocks = s.pendingBlocks
               /\ r.observedConflicts = s.observedConflicts
               /\ r.due = s.due
               /\ r.out = s.out
<1> DEFINE v == s.knownBlocks \cup {b}
           r == [s EXCEPT !.knownBlocks = v]
<1>1. v \in SUBSET Block
  BY DEF NodeState
<1>2. [s EXCEPT !.knownBlocks = @ \cup {b}] = r
  OBVIOUS
<1> HIDE DEF v
<1>3. /\ r \in NodeState
      /\ r.knownBlocks = v
      /\ r.chain = s.chain
      /\ r.attestations = s.attestations
      /\ r.firstHeight = s.firstHeight
      /\ r.hashesByValidator = s.hashesByValidator
      /\ r.attestedAt = s.attestedAt
      /\ r.pendingBlocks = s.pendingBlocks
      /\ r.observedConflicts = s.observedConflicts
      /\ r.due = s.due
      /\ r.out = s.out
  BY <1>1, ZenonT(60) DEF NodeState
<1> HIDE DEF r
<1>4. QED
  BY <1>2, <1>3, Zenon DEF v

\* Recording conflicts changes observedConflicts.
LEMMA ConflictShape ==
    ASSUME NEW s \in NodeState, NEW O, O \subseteq [a : Hashes, b : Hashes]
    PROVE  LET r == [s EXCEPT !.observedConflicts = @ \cup O]
           IN  /\ r \in NodeState
               /\ r.observedConflicts = s.observedConflicts \cup O
               /\ r.chain = s.chain
               /\ r.knownBlocks = s.knownBlocks
               /\ r.attestations = s.attestations
               /\ r.firstHeight = s.firstHeight
               /\ r.hashesByValidator = s.hashesByValidator
               /\ r.attestedAt = s.attestedAt
               /\ r.pendingBlocks = s.pendingBlocks
               /\ r.due = s.due
               /\ r.out = s.out
<1> DEFINE v == s.observedConflicts \cup O
           r == [s EXCEPT !.observedConflicts = v]
<1>1. v \in SUBSET [a : Hashes, b : Hashes]
  BY DEF NodeState
<1>2. [s EXCEPT !.observedConflicts = @ \cup O] = r
  OBVIOUS
<1> HIDE DEF v
<1>3. /\ r \in NodeState
      /\ r.observedConflicts = v
      /\ r.chain = s.chain
      /\ r.knownBlocks = s.knownBlocks
      /\ r.attestations = s.attestations
      /\ r.firstHeight = s.firstHeight
      /\ r.hashesByValidator = s.hashesByValidator
      /\ r.attestedAt = s.attestedAt
      /\ r.pendingBlocks = s.pendingBlocks
      /\ r.due = s.due
      /\ r.out = s.out
  BY <1>1, ZenonT(60) DEF NodeState
<1> HIDE DEF r
<1>4. QED
  BY <1>2, <1>3, Zenon DEF v

\* Remembering an attested hash changes attestedAt.
LEMMA AttestedShape ==
    ASSUME NEW s \in NodeState, NEW h \in Hashes
    PROVE  LET r == [s EXCEPT !.attestedAt = @ \cup {h}]
           IN  /\ r \in NodeState
               /\ r.attestedAt = s.attestedAt \cup {h}
               /\ r.chain = s.chain
               /\ r.knownBlocks = s.knownBlocks
               /\ r.attestations = s.attestations
               /\ r.firstHeight = s.firstHeight
               /\ r.hashesByValidator = s.hashesByValidator
               /\ r.pendingBlocks = s.pendingBlocks
               /\ r.observedConflicts = s.observedConflicts
               /\ r.due = s.due
               /\ r.out = s.out
<1> DEFINE v == s.attestedAt \cup {h}
           r == [s EXCEPT !.attestedAt = v]
<1>1. v \in SUBSET Hashes
  BY DEF NodeState
<1>2. [s EXCEPT !.attestedAt = @ \cup {h}] = r
  OBVIOUS
<1> HIDE DEF v
<1>3. /\ r \in NodeState
      /\ r.attestedAt = v
      /\ r.chain = s.chain
      /\ r.knownBlocks = s.knownBlocks
      /\ r.attestations = s.attestations
      /\ r.firstHeight = s.firstHeight
      /\ r.hashesByValidator = s.hashesByValidator
      /\ r.pendingBlocks = s.pendingBlocks
      /\ r.observedConflicts = s.observedConflicts
      /\ r.due = s.due
      /\ r.out = s.out
  BY <1>1, ZenonT(60) DEF NodeState
<1> HIDE DEF r
<1>4. QED
  BY <1>2, <1>3, Zenon DEF v

\* Buffering a block changes pendingBlocks.
LEMMA PendShape ==
    ASSUME NEW s \in NodeState, NEW k \in Heights, NEW b \in Block
    PROVE  LET r == [s EXCEPT !.pendingBlocks[k] = Append(@, b)]
           IN  /\ r \in NodeState
               /\ r.pendingBlocks = [s.pendingBlocks EXCEPT ![k] = Append(@, b)]
               /\ r.chain = s.chain
               /\ r.knownBlocks = s.knownBlocks
               /\ r.attestations = s.attestations
               /\ r.firstHeight = s.firstHeight
               /\ r.hashesByValidator = s.hashesByValidator
               /\ r.attestedAt = s.attestedAt
               /\ r.observedConflicts = s.observedConflicts
               /\ r.due = s.due
               /\ r.out = s.out
<1> DEFINE v == [s.pendingBlocks EXCEPT ![k] = Append(@, b)]
           r == [s EXCEPT !.pendingBlocks = v]
<1>1. v \in [Heights -> Seq(Block)]
  <2>1. s.pendingBlocks \in [Heights -> Seq(Block)]
    BY Zenon DEF NodeState
  <2>2. Append(s.pendingBlocks[k], b) \in Seq(Block)
    BY <2>1, AppendProperties, Zenon
  <2>3. QED
    BY <2>1, <2>2, ZenonT(60)
<1>2. [s EXCEPT !.pendingBlocks[k] = Append(@, b)] = r
  OBVIOUS
<1> HIDE DEF v
<1>3. /\ r \in NodeState
      /\ r.pendingBlocks = v
      /\ r.chain = s.chain
      /\ r.knownBlocks = s.knownBlocks
      /\ r.attestations = s.attestations
      /\ r.firstHeight = s.firstHeight
      /\ r.hashesByValidator = s.hashesByValidator
      /\ r.attestedAt = s.attestedAt
      /\ r.observedConflicts = s.observedConflicts
      /\ r.due = s.due
      /\ r.out = s.out
  BY <1>1, ZenonT(60) DEF NodeState
<1> HIDE DEF r
<1>4. QED
  BY <1>2, <1>3, Zenon DEF v

\* Taking up a due block changes due.
LEMMA TailShape ==
    ASSUME NEW s \in NodeState, s.due # <<>>
    PROVE  LET r == [s EXCEPT !.due = Tail(@)]
           IN  /\ r \in NodeState
               /\ r.due = Tail(s.due)
               /\ r.chain = s.chain
               /\ r.knownBlocks = s.knownBlocks
               /\ r.attestations = s.attestations
               /\ r.firstHeight = s.firstHeight
               /\ r.hashesByValidator = s.hashesByValidator
               /\ r.attestedAt = s.attestedAt
               /\ r.pendingBlocks = s.pendingBlocks
               /\ r.observedConflicts = s.observedConflicts
               /\ r.out = s.out
<1> DEFINE v == Tail(s.due)
           r == [s EXCEPT !.due = v]
<1>1. v \in Seq(Block)
  <2>1. s.due \in Seq(Block)
    BY Zenon DEF NodeState
  <2>2. QED
    BY <2>1, HeadTailProperties, Zenon
<1>2. [s EXCEPT !.due = Tail(@)] = r
  OBVIOUS
<1> HIDE DEF v
<1>3. /\ r \in NodeState
      /\ r.due = v
      /\ r.chain = s.chain
      /\ r.knownBlocks = s.knownBlocks
      /\ r.attestations = s.attestations
      /\ r.firstHeight = s.firstHeight
      /\ r.hashesByValidator = s.hashesByValidator
      /\ r.attestedAt = s.attestedAt
      /\ r.pendingBlocks = s.pendingBlocks
      /\ r.observedConflicts = s.observedConflicts
      /\ r.out = s.out
  BY <1>1, ZenonT(60) DEF NodeState
<1> HIDE DEF r
<1>4. QED
  BY <1>2, <1>3, Zenon DEF v

\* Prune changes what it forgets, and neither the chain nor what is due or out.
LEMMA PruneShape ==
    ASSUME NEW s \in NodeState
    PROVE  LET r == Prune(s)
           IN  /\ r \in NodeState
               /\ r.attestedAt = {h \in s.attestedAt : Height[h] >= height(s)}
               /\ r.knownBlocks = {b \in s.knownBlocks : Height[b.hash] >= height(s)}
               /\ r.attestations = {a \in s.attestations : a.blockHash \notin Expired(s)}
               /\ r.firstHeight =
                     [h \in Hashes |-> IF h \in Expired(s) THEN NoEntry ELSE s.firstHeight[h]]
               /\ r.hashesByValidator =
                     [v \in Ids |-> {a.blockHash : a \in {c \in r.attestations : c.validator = v}}]
               /\ r.pendingBlocks =
                     [k \in Heights |-> IF k < height(s) THEN <<>> ELSE s.pendingBlocks[k]]
               /\ r.chain = s.chain
               /\ r.observedConflicts = s.observedConflicts
               /\ r.due = s.due
               /\ r.out = s.out
<1> DEFINE A == {h \in s.attestedAt : Height[h] >= height(s)}
           K == {b \in s.knownBlocks : Height[b.hash] >= height(s)}
           kept == {a \in s.attestations : a.blockHash \notin Expired(s)}
           F == [h \in Hashes |-> IF h \in Expired(s) THEN NoEntry ELSE s.firstHeight[h]]
           V == [v \in Ids |-> {a.blockHash : a \in {c \in kept : c.validator = v}}]
           P == [k \in Heights |-> IF k < height(s) THEN <<>> ELSE s.pendingBlocks[k]]
           r == [s EXCEPT !.attestedAt = A, !.knownBlocks = K, !.attestations = kept,
                          !.firstHeight = F, !.hashesByValidator = V, !.pendingBlocks = P]
<1>1. Prune(s) = r
  BY DEF Prune
<1>2. A \in SUBSET Hashes /\ K \in SUBSET Block /\ kept \in SUBSET Attestation
  BY DEF NodeState
<1>3. F \in [Hashes -> Nat \cup {NoEntry}]
  BY Zenon DEF NodeState
<1>4. V \in [Ids -> SUBSET Hashes]
  <2>1. \A a \in kept : a.blockHash \in Hashes
    BY <1>2 DEF Attestation
  <2>2. QED
    BY <2>1
<1>5. P \in [Heights -> Seq(Block)]
  <2>1. s.pendingBlocks \in [Heights -> Seq(Block)]
    BY Zenon DEF NodeState
  <2>2. <<>> \in Seq(Block)
    OBVIOUS
  <2>3. QED
    BY <2>1, <2>2
<1> HIDE DEF A, K, kept, F, V, P
<1>6. /\ r \in NodeState
      /\ r.attestedAt = A
      /\ r.knownBlocks = K
      /\ r.attestations = kept
      /\ r.firstHeight = F
      /\ r.hashesByValidator = V
      /\ r.pendingBlocks = P
      /\ r.chain = s.chain
      /\ r.observedConflicts = s.observedConflicts
      /\ r.due = s.due
      /\ r.out = s.out
  BY <1>2, <1>3, <1>4, <1>5, ZenonT(60) DEF NodeState
<1> HIDE DEF r
<1>7. r.hashesByValidator =
         [v \in Ids |-> {a.blockHash : a \in {c \in r.attestations : c.validator = v}}]
  BY <1>6, Zenon DEF V
<1>8. QED
  BY <1>1, <1>6, <1>7, Zenon DEF A, K, kept, F, P

\* TakeDue moves the blocks buffered for the node's height to due.
LEMMA TakeDueShape ==
    ASSUME NEW s \in NodeState, s.due = <<>>
    PROVE  LET r == TakeDue(s)
           IN  /\ r \in NodeState
               /\ IF height(s) \in Heights
                  THEN /\ r.due = s.pendingBlocks[height(s)]
                       /\ r.pendingBlocks = [s.pendingBlocks EXCEPT ![height(s)] = <<>>]
                  ELSE r.due = s.due /\ r.pendingBlocks = s.pendingBlocks
               /\ r.chain = s.chain
               /\ r.knownBlocks = s.knownBlocks
               /\ r.attestations = s.attestations
               /\ r.firstHeight = s.firstHeight
               /\ r.hashesByValidator = s.hashesByValidator
               /\ r.attestedAt = s.attestedAt
               /\ r.observedConflicts = s.observedConflicts
               /\ r.out = s.out
<1> DEFINE D == s.pendingBlocks[height(s)]
           P == [s.pendingBlocks EXCEPT ![height(s)] = <<>>]
           r == [s EXCEPT !.due = D, !.pendingBlocks = P]
<1>1. CASE height(s) \in Heights
  <2>1. TakeDue(s) = r
    BY <1>1 DEF TakeDue
  <2>2. s.pendingBlocks \in [Heights -> Seq(Block)] /\ <<>> \in Seq(Block)
    BY DEF NodeState
  <2>3. D \in Seq(Block) /\ P \in [Heights -> Seq(Block)]
    BY <1>1, <2>2
  <2> HIDE DEF D, P
  <2>4. /\ r \in NodeState
        /\ r.due = D
        /\ r.pendingBlocks = P
        /\ r.chain = s.chain
        /\ r.knownBlocks = s.knownBlocks
        /\ r.attestations = s.attestations
        /\ r.firstHeight = s.firstHeight
        /\ r.hashesByValidator = s.hashesByValidator
        /\ r.attestedAt = s.attestedAt
        /\ r.observedConflicts = s.observedConflicts
        /\ r.out = s.out
    BY <2>3, ZenonT(60) DEF NodeState
  <2> HIDE DEF r
  <2>5. QED
    BY <1>1, <2>1, <2>4, Zenon DEF D, P
<1>2. CASE height(s) \notin Heights
  BY <1>2, Zenon DEF TakeDue
<1>3. QED
  BY <1>1, <1>2, Zenon

\* The height after a step that grows the chain by at most one block.
LEMMA GrowsHeight ==
    ASSUME NEW s \in NodeState, NEW r, NEW h, Grows(s, r, h)
    PROVE  \/ r.chain = s.chain /\ height(r) = height(s)
           \/ Height[h] = height(s) /\ height(r) = height(s) + 1
<1>1. s.chain \in Seq(FinalizedBlock)
  BY HeightType, Zenon
<1>2. \A fb \in FinalizedBlock : Len(Append(s.chain, fb)) = Len(s.chain) + 1
  BY <1>1, AppendProperties
<1>3. QED
  BY <1>2, Zenon DEF Grows, height

\* Two steps on one header grow the chain once: a header has one height.
LEMMA GrowsOnce ==
    ASSUME NEW s \in NodeState, NEW r \in NodeState, NEW t, NEW h,
           Grows(s, r, h), Grows(r, t, h)
    PROVE  Grows(s, t, h)
<1>1. CASE r.chain = s.chain
  BY <1>1, Zenon DEF Grows, height
<1>2. CASE r.chain # s.chain
  <2>1. Height[h] = height(s) /\ height(r) = height(s) + 1 /\ height(s) \in Nat
    BY <1>2, GrowsHeight, HeightType, Zenon
  <2>2. Height[h] # height(r)
    BY <2>1
  <2>3. t.chain = r.chain
    BY <2>2, Zenon DEF Grows
  <2>4. QED
    BY <2>3, Zenon DEF Grows
<1>3. QED
  BY <1>1, <1>2, Zenon

\* tryFinalize changes the chain and finalizedHashes, and only for a block at the
\* node's height that verifyFinalized accepts.
LEMMA FinalizeShape ==
    ASSUME NEW s \in NodeState, NEW h \in Hashes
    PROVE  LET r == tryFinalize(s, h)
               fb == [hash |-> h, attestations |-> attestationsFor(s, h)]
           IN  /\ r \in NodeState
               /\ fb \in FinalizedBlock
               /\ r.chain = IF CanSubmit(s, h) THEN Append(s.chain, fb) ELSE s.chain
               /\ Grows(s, r, h)
               /\ r.knownBlocks = s.knownBlocks
               /\ r.attestations = s.attestations
               /\ r.firstHeight = s.firstHeight
               /\ r.hashesByValidator = s.hashesByValidator
               /\ r.attestedAt = s.attestedAt
               /\ r.pendingBlocks = s.pendingBlocks
               /\ r.observedConflicts = s.observedConflicts
               /\ r.due = s.due
               /\ r.out = s.out
<1> DEFINE A == attestationsFor(s, h)
           fb == [hash |-> h, attestations |-> A]
           c == Append(s.chain, fb)
           F == s.finalizedHashes \cup {h}
           r == [s EXCEPT !.chain = c, !.finalizedHashes = F]
<1>1. A \in SUBSET Attestation
  BY DEF attestationsFor, NodeState
<1>2. fb \in FinalizedBlock /\ fb.hash = h
  BY <1>1, Zenon DEF FinalizedBlock
<1>3. CASE ~CanSubmit(s, h)
  BY <1>2, <1>3, Zenon DEF tryFinalize, Grows
<1>4. CASE CanSubmit(s, h)
  <2>1. tryFinalize(s, h) = r
    BY <1>4, Zenon DEF tryFinalize
  <2>2. s.chain \in Seq(FinalizedBlock)
    BY HeightType, Zenon
  <2>3. c \in Seq(FinalizedBlock)
    BY <1>2, <2>2, AppendProperties, Zenon
  <2>4. F \in SUBSET Hashes
    BY DEF NodeState
  <2>5. Height[h] = height(s)
    BY <1>4, Zenon DEF CanSubmit
  <2> HIDE DEF c, F
  <2>6. /\ r \in NodeState
        /\ r.chain = c
        /\ r.knownBlocks = s.knownBlocks
        /\ r.attestations = s.attestations
        /\ r.firstHeight = s.firstHeight
        /\ r.hashesByValidator = s.hashesByValidator
        /\ r.attestedAt = s.attestedAt
        /\ r.pendingBlocks = s.pendingBlocks
        /\ r.observedConflicts = s.observedConflicts
        /\ r.due = s.due
        /\ r.out = s.out
    BY <2>3, <2>4, ZenonT(60) DEF NodeState
  <2> HIDE DEF r
  <2>7. Grows(s, r, h)
    <3> HIDE DEF fb
    <3>1. QED
      BY <1>2, <2>5, <2>6, Zenon DEF Grows, c
  <2>8. QED
    BY <1>2, <1>4, <2>1, <2>6, <2>7, Zenon DEF c
<1>5. QED
  BY <1>3, <1>4, Zenon

-----------------------------------------------------------------------------
(* The pool stays indexed and bounded.                                     *)

\* A set with fewer elements than a cap may take one more.
LEMMA OneMore ==
    ASSUME NEW S, IsFiniteSet(S), NEW x, NEW cap \in Nat, Cardinality(S) < cap
    PROVE  IsFiniteSet(S \cup {x}) /\ Cardinality(S \cup {x}) <= cap
<1>1. Cardinality(S) \in Nat
  BY FS_CardinalityType, Zenon
<1>2. IsFiniteSet(S \cup {x}) /\ Cardinality(S \cup {x}) \in {Cardinality(S), Cardinality(S) + 1}
  BY FS_AddElement
<1>3. QED
  BY <1>1, <1>2

\* A part of a finite set is finite and within the same cap.
LEMMA NoMore ==
    ASSUME NEW S, IsFiniteSet(S), NEW T, T \subseteq S, NEW cap \in Nat, Cardinality(S) <= cap
    PROVE  IsFiniteSet(T) /\ Cardinality(T) <= cap
<1>1. IsFiniteSet(T) /\ Cardinality(T) <= Cardinality(S)
  BY FS_Subset, Zenon
<1>2. Cardinality(S) \in Nat /\ Cardinality(T) \in Nat
  BY <1>1, FS_CardinalityType, Zenon
<1>3. QED
  BY <1>1, <1>2

\* What PoolState speaks of is unchanged, and the head does not go back.
LEMMA PoolKept ==
    ASSUME NEW s \in NodeState, NEW r \in NodeState, PoolState(s),
           height(s) <= height(r),
           r.knownBlocks = s.knownBlocks,
           r.attestations = s.attestations,
           r.firstHeight = s.firstHeight,
           r.hashesByValidator = s.hashesByValidator,
           r.attestedAt = s.attestedAt,
           r.pendingBlocks = s.pendingBlocks,
           r.observedConflicts = s.observedConflicts
    PROVE  PoolState(r)
<1>1. Indexed(r)
  BY Zenon DEF PoolState, Indexed, pooledHashes
<1>2. Bounded(r)
  BY Zenon DEF PoolState, Bounded, pooledHashes
<1>3. BufferedBelow(r, height(r) + MAX_FUTURE_HEIGHTS)
  <2>1. \A k \in Heights : k \in Nat
    BY HeightsNat
  <2>2. BufferedBelow(r, height(s) + MAX_FUTURE_HEIGHTS)
    BY Zenon DEF PoolState, BufferedBelow
  <2>3. height(s) \in Nat /\ height(r) \in Nat /\ MAX_FUTURE_HEIGHTS \in Nat
    BY HeightType, CapsAssumption, Zenon
  <2>4. \A k \in Nat : k <= height(s) + MAX_FUTURE_HEIGHTS => k <= height(r) + MAX_FUTURE_HEIGHTS
    BY <2>3
  <2>5. QED
    BY <2>1, <2>2, <2>4, Zenon DEF BufferedBelow
<1>4. QED
  BY <1>1, <1>2, <1>3 DEF PoolState

\* An admitted attestation is indexed under its hash and its validator, within
\* the two caps.
LEMMA PoolAdmitted ==
    ASSUME NEW s \in NodeState, NEW a \in Attestation, PoolState(s), Admits(s, a)
    PROVE  PoolState(Pool(s, a))
<1> DEFINE r == Pool(s, a)
           x == a.blockHash
           w == a.validator
<1>1. x \in Hashes /\ w \in Ids /\ a.height \in Nat
  BY DEF Attestation
<1>2. /\ r.attestations = s.attestations \cup {a}
      /\ r.firstHeight = [s.firstHeight EXCEPT ![x] = IF @ = NoEntry THEN a.height ELSE @]
      /\ r.hashesByValidator = [s.hashesByValidator EXCEPT ![w] = @ \cup {x}]
      /\ r.chain = s.chain
      /\ r.knownBlocks = s.knownBlocks
      /\ r.attestedAt = s.attestedAt
      /\ r.pendingBlocks = s.pendingBlocks
      /\ r.observedConflicts = s.observedConflicts
  BY PoolShape, Zenon
<1>3. /\ s.firstHeight \in [Hashes -> Nat \cup {NoEntry}]
      /\ s.hashesByValidator \in [Ids -> SUBSET Hashes]
      /\ s.attestations \subseteq Attestation
  BY Zenon DEF NodeState
<1> HIDE DEF r
<1>4. pooledHashes(r) = pooledHashes(s) \cup {x}
  BY <1>2, Zenon DEF pooledHashes
<1>5. Indexed(r)
  <2>1. a.height # NoEntry
    BY <1>1 DEF NoEntry
  <2>2. {h \in Hashes : s.firstHeight[h] # NoEntry} = pooledHashes(s)
    BY Zenon DEF PoolState, Indexed
  <2>3. r.firstHeight[x] # NoEntry /\ \A h \in Hashes : h # x => r.firstHeight[h] = s.firstHeight[h]
    BY <1>1, <1>2, <1>3, <2>1, Zenon
  <2>4. {h \in Hashes : r.firstHeight[h] # NoEntry} = pooledHashes(r)
    BY <1>1, <1>4, <2>2, <2>3
  <2>5. ASSUME NEW v \in Ids
        PROVE  r.hashesByValidator[v] = {c.blockHash : c \in {d \in r.attestations : d.validator = v}}
    <3>1. s.hashesByValidator[v] = {c.blockHash : c \in {d \in s.attestations : d.validator = v}}
      BY Zenon DEF PoolState, Indexed
    <3>2. CASE v = w
      <4>1. r.hashesByValidator[v] = s.hashesByValidator[v] \cup {x}
        BY <1>2, <1>3, <3>2, Zenon
      <4>2. QED
        BY <1>2, <3>1, <3>2, <4>1
    <3>3. CASE v # w
      <4>1. r.hashesByValidator[v] = s.hashesByValidator[v]
        BY <1>2, <1>3, <3>3, Zenon
      <4>2. QED
        BY <1>2, <3>1, <3>3, <4>1
    <3>4. QED
      BY <3>2, <3>3, Zenon
  <2>6. QED
    BY <2>4, <2>5, Zenon DEF Indexed
<1>6. Bounded(r)
  <2>1. IsFiniteSet(Hashes) /\ MAX_ATTESTED_HASHES \in Nat /\ MAX_HASHES_PER_VALIDATOR \in Nat
    BY LedgerAssumption, CapsAssumption, Zenon
  <2>2. pooledHashes(s) \subseteq Hashes
    BY <1>3 DEF pooledHashes, Attestation
  <2>3. IsFiniteSet(pooledHashes(s))
    BY <2>1, <2>2, FS_Subset, Zenon
  <2>4. Cardinality(pooledHashes(r)) <= MAX_ATTESTED_HASHES
    <3>1. CASE x \in pooledHashes(s)
      <4>1. pooledHashes(r) = pooledHashes(s)
        BY <1>4, <3>1, Zenon
      <4>2. QED
        BY <4>1, Zenon DEF PoolState, Bounded
    <3>2. CASE x \notin pooledHashes(s)
      <4>1. Cardinality(pooledHashes(s)) < MAX_ATTESTED_HASHES
        BY <3>2, Zenon DEF Admits
      <4>2. QED
        BY <1>4, <2>1, <2>3, <4>1, OneMore, Zenon
    <3>3. QED
      BY <3>1, <3>2, Zenon
  <2>5. ASSUME NEW v \in Ids PROVE Cardinality(r.hashesByValidator[v]) <= MAX_HASHES_PER_VALIDATOR
    <3>1. Cardinality(s.hashesByValidator[v]) <= MAX_HASHES_PER_VALIDATOR
      BY Zenon DEF PoolState, Bounded
    <3>2. IsFiniteSet(s.hashesByValidator[v])
      BY <1>3, <2>1, FS_Subset, Zenon
    <3>3. CASE v = w /\ x \notin s.hashesByValidator[w]
      <4>1. Cardinality(s.hashesByValidator[w]) < MAX_HASHES_PER_VALIDATOR
        BY <3>3, Zenon DEF Admits
      <4>2. r.hashesByValidator[v] = s.hashesByValidator[w] \cup {x}
        BY <1>1, <1>2, <1>3, <3>3, Zenon
      <4>3. QED
        BY <2>1, <3>2, <3>3, <4>1, <4>2, OneMore, Zenon
    <3>4. CASE ~(v = w /\ x \notin s.hashesByValidator[w])
      <4>1. r.hashesByValidator[v] = IF v = w THEN s.hashesByValidator[w] \cup {x} ELSE s.hashesByValidator[v]
        BY <1>2, <1>3, Zenon
      <4>2. r.hashesByValidator[v] = s.hashesByValidator[v]
        BY <3>4, <4>1
      <4>3. QED
        BY <3>1, <4>2, Zenon
    <3>5. QED
      BY <3>3, <3>4, Zenon
  <2>6. QED
    BY <1>2, <2>4, <2>5, Zenon DEF PoolState, Bounded
<1>7. BufferedBelow(r, height(r) + MAX_FUTURE_HEIGHTS)
  BY <1>2, Zenon DEF PoolState, BufferedBelow, height
<1>8. PoolState(r)
  BY <1>2, <1>5, <1>6, <1>7 DEF PoolState
<1>9. QED
  BY <1>8, Zenon DEF r

\* Storing a block below the cap.
LEMMA PoolStored ==
    ASSUME NEW s \in NodeState, NEW b \in Block, PoolState(s),
           ~(Cardinality(s.knownBlocks) >= MAX_KNOWN_AT_HEIGHT)
    PROVE  PoolState([s EXCEPT !.knownBlocks = @ \cup {b}])
<1> DEFINE r == [s EXCEPT !.knownBlocks = @ \cup {b}]
           K == s.knownBlocks \cup {b}
<1>1. /\ r \in NodeState
      /\ r.knownBlocks = K
      /\ r.chain = s.chain
      /\ r.attestations = s.attestations
      /\ r.firstHeight = s.firstHeight
      /\ r.hashesByValidator = s.hashesByValidator
      /\ r.attestedAt = s.attestedAt
      /\ r.pendingBlocks = s.pendingBlocks
      /\ r.observedConflicts = s.observedConflicts
  BY StoreShape, Zenon
<1>2. IsFiniteSet(s.knownBlocks) /\ MAX_KNOWN_AT_HEIGHT \in Nat
  BY CapsAssumption, Zenon DEF PoolState
<1>3. Cardinality(s.knownBlocks) < MAX_KNOWN_AT_HEIGHT
  <2>1. Cardinality(s.knownBlocks) \in Nat
    BY <1>2, FS_CardinalityType, Zenon
  <2>2. QED
    BY <1>2, <2>1
<1>4. IsFiniteSet(K) /\ Cardinality(K) <= MAX_KNOWN_AT_HEIGHT
  BY <1>2, <1>3, OneMore, Zenon
<1> HIDE DEF r, K
<1>5. Indexed(r) /\ pooledHashes(r) = pooledHashes(s) /\ height(r) = height(s)
  BY <1>1, Zenon DEF PoolState, Indexed, pooledHashes, height
<1>6. Bounded(r)
  BY <1>1, <1>4, <1>5, Zenon DEF PoolState, Bounded
<1>7. BufferedBelow(r, height(r) + MAX_FUTURE_HEIGHTS)
  BY <1>1, <1>5, Zenon DEF PoolState, BufferedBelow
<1>8. PoolState(r)
  BY <1>1, <1>4, <1>5, <1>6, <1>7 DEF PoolState
<1>9. QED
  BY <1>8, Zenon DEF r

\* Recording at most one conflict below the cap.
LEMMA PoolConflict ==
    ASSUME NEW s \in NodeState, NEW O, O \subseteq [a : Hashes, b : Hashes], PoolState(s),
           \A x, y \in O : x = y,
           Cardinality(s.observedConflicts) < MAX_OBSERVED_CONFLICTS
    PROVE  PoolState([s EXCEPT !.observedConflicts = @ \cup O])
<1> DEFINE r == [s EXCEPT !.observedConflicts = @ \cup O]
           C == s.observedConflicts
<1>1. /\ r \in NodeState
      /\ r.observedConflicts = C \cup O
      /\ r.chain = s.chain
      /\ r.attestations = s.attestations
      /\ r.firstHeight = s.firstHeight
      /\ r.hashesByValidator = s.hashesByValidator
      /\ r.attestedAt = s.attestedAt
      /\ r.pendingBlocks = s.pendingBlocks
      /\ r.knownBlocks = s.knownBlocks
  BY ConflictShape, Zenon
<1>2. IsFiniteSet(C) /\ MAX_OBSERVED_CONFLICTS \in Nat /\ Cardinality(C) <= MAX_OBSERVED_CONFLICTS
  BY CapsAssumption, Zenon DEF PoolState, Bounded
<1> HIDE DEF r, C
<1>3. IsFiniteSet(C \cup O) /\ Cardinality(C \cup O) <= MAX_OBSERVED_CONFLICTS
  <2>1. CASE O = {}
    <3>1. C \cup O = C
      BY <2>1
    <3>2. QED
      BY <1>2, <3>1, Zenon
  <2>2. CASE O # {}
    <3>1. PICK x \in O : O = {x}
      BY <2>2
    <3>2. Cardinality(C) < MAX_OBSERVED_CONFLICTS
      BY Zenon DEF C
    <3>3. QED
      BY <1>2, <3>1, <3>2, OneMore, Zenon
  <2>3. QED
    BY <2>1, <2>2, Zenon
<1>4. Indexed(r) /\ pooledHashes(r) = pooledHashes(s) /\ height(r) = height(s)
  BY <1>1, Zenon DEF PoolState, Indexed, pooledHashes, height
<1>5. Bounded(r)
  BY <1>1, <1>3, <1>4, Zenon DEF PoolState, Bounded
<1>6. BufferedBelow(r, height(r) + MAX_FUTURE_HEIGHTS)
  BY <1>1, <1>4, Zenon DEF PoolState, BufferedBelow
<1>7. PoolState(r)
  BY <1>1, <1>3, <1>4, <1>5, <1>6 DEF PoolState
<1>8. QED
  BY <1>7, Zenon DEF r

\* Remembering the first hash attested at a height.
LEMMA PoolAttested ==
    ASSUME NEW s \in NodeState, NEW h \in Hashes, PoolState(s),
           \A g \in s.attestedAt : Height[g] # Height[h]
    PROVE  PoolState([s EXCEPT !.attestedAt = @ \cup {h}])
<1> DEFINE r == [s EXCEPT !.attestedAt = @ \cup {h}]
<1>1. /\ r \in NodeState
      /\ r.attestedAt = s.attestedAt \cup {h}
      /\ r.chain = s.chain
      /\ r.attestations = s.attestations
      /\ r.firstHeight = s.firstHeight
      /\ r.hashesByValidator = s.hashesByValidator
      /\ r.observedConflicts = s.observedConflicts
      /\ r.pendingBlocks = s.pendingBlocks
      /\ r.knownBlocks = s.knownBlocks
  BY AttestedShape, Zenon
<1> HIDE DEF r
<1>2. Indexed(r) /\ pooledHashes(r) = pooledHashes(s) /\ height(r) = height(s)
  BY <1>1, Zenon DEF PoolState, Indexed, pooledHashes, height
<1>3. Bounded(r)
  BY <1>1, <1>2, Zenon DEF PoolState, Bounded
<1>4. BufferedBelow(r, height(r) + MAX_FUTURE_HEIGHTS)
  BY <1>1, <1>2, Zenon DEF PoolState, BufferedBelow
<1>5. \A f, g \in r.attestedAt : Height[f] = Height[g] => f = g
  BY <1>1 DEF PoolState
<1>6. PoolState(r)
  BY <1>1, <1>2, <1>3, <1>4, <1>5 DEF PoolState
<1>7. QED
  BY <1>6, Zenon DEF r

\* Buffering a block within the window and below the cap of its height.
LEMMA PoolPending ==
    ASSUME NEW s \in NodeState, NEW b \in Block, NEW k \in Heights, PoolState(s),
           k = Height[b.hash],
           k <= height(s) + MAX_FUTURE_HEIGHTS,
           Len(s.pendingBlocks[k]) < MAX_PENDING_PER_HEIGHT
    PROVE  PoolState([s EXCEPT !.pendingBlocks[k] = Append(@, b)])
<1> DEFINE r == [s EXCEPT !.pendingBlocks[k] = Append(@, b)]
           p == s.pendingBlocks[k]
           q == Append(p, b)
<1>1. /\ r \in NodeState
      /\ r.pendingBlocks = [s.pendingBlocks EXCEPT ![k] = q]
      /\ r.chain = s.chain
      /\ r.attestations = s.attestations
      /\ r.firstHeight = s.firstHeight
      /\ r.hashesByValidator = s.hashesByValidator
      /\ r.attestedAt = s.attestedAt
      /\ r.observedConflicts = s.observedConflicts
      /\ r.knownBlocks = s.knownBlocks
  BY PendShape
<1>2. s.pendingBlocks \in [Heights -> Seq(Block)] /\ p \in Seq(Block)
  BY Zenon DEF NodeState
<1>3. /\ Len(q) = Len(p) + 1
      /\ Len(p) \in Nat
      /\ DOMAIN q = 1 .. (Len(p) + 1)
      /\ DOMAIN p = 1 .. Len(p)
      /\ \A i \in 1 .. Len(p) : q[i] = p[i]
      /\ q[Len(p) + 1] = b
  BY <1>2, AppendProperties, LenProperties
<1> HIDE DEF r, p, q
<1>4. r.pendingBlocks[k] = q /\ \A j \in Heights : j # k => r.pendingBlocks[j] = s.pendingBlocks[j]
  BY <1>1, <1>2, Zenon
<1>5. Indexed(r) /\ pooledHashes(r) = pooledHashes(s) /\ height(r) = height(s)
  BY <1>1 DEF PoolState, Indexed, pooledHashes, height
<1>6. Bounded(r)
  <2>1. Len(q) <= MAX_PENDING_PER_HEIGHT
    BY <1>3, CapsAssumption DEF p
  <2>2. \A j \in Heights : Len(r.pendingBlocks[j]) <= MAX_PENDING_PER_HEIGHT
    BY <1>4, <2>1, Zenon DEF PoolState, Bounded
  <2>3. QED
    BY <1>1, <1>5, <2>2, Zenon DEF PoolState, Bounded
<1>7. BufferedBelow(r, height(r) + MAX_FUTURE_HEIGHTS)
  BY <1>4, <1>5, Zenon DEF PoolState, BufferedBelow
<1>8. ASSUME NEW j \in Heights, NEW i \in DOMAIN r.pendingBlocks[j]
      PROVE  Height[r.pendingBlocks[j][i].hash] = j
  <2>1. \A l \in DOMAIN s.pendingBlocks[j] : Height[s.pendingBlocks[j][l].hash] = j
    BY Zenon DEF PoolState
  <2>2. CASE j # k
    BY <1>4, <1>8, <2>1, <2>2, Zenon
  <2>3. CASE j = k
    <3>1. i \in DOMAIN q /\ r.pendingBlocks[j] = q
      BY <1>4, <1>8, <2>3, Zenon
    <3>2. i \in 1 .. Len(p) \/ i = Len(p) + 1
      BY <1>3, <3>1
    <3>3. q[i] = b \/ (i \in DOMAIN p /\ q[i] = p[i])
      BY <1>3, <3>2, Zenon
    <3>4. QED
      BY <2>1, <2>3, <3>1, <3>3, Zenon DEF p
  <2>4. QED
    BY <2>2, <2>3, Zenon
<1>9. PoolState(r)
  BY <1>1, <1>5, <1>6, <1>7, <1>8 DEF PoolState
<1>10. QED
  BY <1>9, Zenon DEF r

\* Pruning drops a hash from the pool together with its index entries, and leaves
\* nothing buffered below the head.
LEMMA PoolPruned ==
    ASSUME NEW s \in NodeState, PoolState(s)
    PROVE  /\ PoolState(Prune(s))
           /\ \A k \in Heights : Prune(s).pendingBlocks[k] # <<>> => height(s) <= k
<1> DEFINE r == Prune(s)
           E == Expired(s)
<1>1. /\ r \in NodeState
      /\ r.attestedAt = {h \in s.attestedAt : Height[h] >= height(s)}
      /\ r.knownBlocks = {b \in s.knownBlocks : Height[b.hash] >= height(s)}
      /\ r.attestations = {a \in s.attestations : a.blockHash \notin E}
      /\ r.firstHeight = [h \in Hashes |-> IF h \in E THEN NoEntry ELSE s.firstHeight[h]]
      /\ r.hashesByValidator =
            [v \in Ids |-> {a.blockHash : a \in {c \in r.attestations : c.validator = v}}]
      /\ r.pendingBlocks = [k \in Heights |-> IF k < height(s) THEN <<>> ELSE s.pendingBlocks[k]]
      /\ r.chain = s.chain
      /\ r.observedConflicts = s.observedConflicts
  BY PruneShape, Zenon
<1>2. /\ s.attestations \subseteq Attestation
      /\ s.hashesByValidator \in [Ids -> SUBSET Hashes]
      /\ height(s) \in Nat
      /\ IsFiniteSet(Hashes)
  BY HeightType, LedgerAssumption, Zenon DEF NodeState
<1> HIDE DEF r, E
<1>3. pooledHashes(r) = pooledHashes(s) \ E
  BY <1>1 DEF pooledHashes
<1>4. pooledHashes(s) \subseteq Hashes
  BY <1>2 DEF pooledHashes, Attestation
<1>5. Indexed(r)
  <2>1. {h \in Hashes : s.firstHeight[h] # NoEntry} = pooledHashes(s)
    BY Zenon DEF PoolState, Indexed
  <2>2. {h \in Hashes : r.firstHeight[h] # NoEntry} = pooledHashes(r)
    BY <1>1, <1>3, <2>1
  <2>3. QED
    BY <1>1, <2>2, Zenon DEF Indexed
<1>6. Bounded(r) /\ IsFiniteSet(r.knownBlocks)
  <2>1. Bounded(s) /\ IsFiniteSet(s.knownBlocks)
    BY Zenon DEF PoolState
  <2>2. /\ MAX_KNOWN_AT_HEIGHT \in Nat /\ MAX_ATTESTED_HASHES \in Nat
        /\ MAX_HASHES_PER_VALIDATOR \in Nat /\ MAX_PENDING_PER_HEIGHT \in Nat
    BY CapsAssumption, Zenon
  <2>3. IsFiniteSet(r.knownBlocks) /\ Cardinality(r.knownBlocks) <= MAX_KNOWN_AT_HEIGHT
    <3>1. r.knownBlocks \subseteq s.knownBlocks
      BY <1>1, Zenon
    <3>2. Cardinality(s.knownBlocks) <= MAX_KNOWN_AT_HEIGHT
      BY <2>1, Zenon DEF Bounded
    <3>3. QED
      BY <2>1, <2>2, <3>1, <3>2, NoMore, Zenon
  <2>4. Cardinality(pooledHashes(r)) <= MAX_ATTESTED_HASHES
    <3>1. pooledHashes(r) \subseteq pooledHashes(s) /\ IsFiniteSet(pooledHashes(s))
      BY <1>2, <1>3, <1>4, FS_Subset, Zenon
    <3>2. Cardinality(pooledHashes(s)) <= MAX_ATTESTED_HASHES
      BY <2>1, Zenon DEF Bounded
    <3>3. QED
      BY <2>2, <3>1, <3>2, NoMore, Zenon
  <2>5. ASSUME NEW v \in Ids PROVE Cardinality(r.hashesByValidator[v]) <= MAX_HASHES_PER_VALIDATOR
    <3>1. s.hashesByValidator[v] = {a.blockHash : a \in {c \in s.attestations : c.validator = v}}
      BY Zenon DEF PoolState, Indexed
    <3>2. r.hashesByValidator[v] = {a.blockHash : a \in {c \in r.attestations : c.validator = v}}
      BY <1>1, Zenon
    <3>3. r.attestations \subseteq s.attestations
      BY <1>1, Zenon
    <3>4. r.hashesByValidator[v] \subseteq s.hashesByValidator[v]
      BY <3>1, <3>2, <3>3
    <3>5. IsFiniteSet(s.hashesByValidator[v])
      BY <1>2, FS_Subset, Zenon
    <3>6. Cardinality(s.hashesByValidator[v]) <= MAX_HASHES_PER_VALIDATOR
      BY <2>1, Zenon DEF Bounded
    <3>7. QED
      BY <2>2, <3>4, <3>5, <3>6, NoMore, Zenon
  <2>6. \A k \in Heights : Len(r.pendingBlocks[k]) <= MAX_PENDING_PER_HEIGHT
    <3>1. Len(<<>>) <= MAX_PENDING_PER_HEIGHT
      BY <2>2
    <3>2. \A k \in Heights : Len(s.pendingBlocks[k]) <= MAX_PENDING_PER_HEIGHT
      BY <2>1, Zenon DEF Bounded
    <3>3. QED
      BY <1>1, <3>1, <3>2, Zenon
  <2>7. QED
    BY <1>1, <2>1, <2>3, <2>4, <2>5, <2>6, Zenon DEF Bounded
<1>7. \A k \in Heights : r.pendingBlocks[k] # <<>> =>
         height(s) <= k /\ r.pendingBlocks[k] = s.pendingBlocks[k]
  <2>1. \A k \in Heights : k \in Nat
    BY HeightsNat
  <2>2. \A k \in Heights : r.pendingBlocks[k] # <<>> =>
           ~(k < height(s)) /\ r.pendingBlocks[k] = s.pendingBlocks[k]
    BY <1>1, Zenon
  <2>3. QED
    BY <1>2, <2>1, <2>2
<1>8. BufferedBelow(r, height(r) + MAX_FUTURE_HEIGHTS)
  BY <1>1, <1>7, Zenon DEF PoolState, BufferedBelow, height
<1>9. ASSUME NEW k \in Heights, NEW i \in DOMAIN r.pendingBlocks[k]
      PROVE  Height[r.pendingBlocks[k][i].hash] = k
  <2>1. r.pendingBlocks[k] # <<>>
    BY <1>9
  <2>2. QED
    BY <1>7, <1>9, <2>1, Zenon DEF PoolState
<1>10. \A g, h \in r.attestedAt : Height[g] = Height[h] => g = h
  BY <1>1, Zenon DEF PoolState
<1>11. PoolState(r)
  BY <1>1, <1>5, <1>6, <1>8, <1>9, <1>10 DEF PoolState
<1>12. QED
  BY <1>7, <1>11, Zenon DEF r

\* A round of drainBuffered that starts with nothing due: afterwards what is due
\* is of the node's height, and what is buffered above it.
LEMMA DrainLocal ==
    ASSUME NEW s \in NodeState, s.due = <<>>
    PROVE  LET r == drainBuffered(s)
           IN  /\ r \in NodeState
               /\ r.chain = s.chain
               /\ r.out = s.out
               /\ r.attestations \subseteq s.attestations
               /\ r.attestedAt = {h \in s.attestedAt : Height[h] >= height(s)}
               /\ PoolState(s) => PoolState(r) /\ DueOK(r)
<1> DEFINE p == Prune(s)
           r == TakeDue(p)
           H == height(s)
<1>1. /\ p \in NodeState /\ p.chain = s.chain /\ p.out = s.out /\ p.due = <<>>
      /\ p.attestations \subseteq s.attestations
      /\ p.attestedAt = {h \in s.attestedAt : Height[h] >= height(s)}
  BY PruneShape, Zenon
<1>2. height(p) = H /\ H \in Nat
  BY <1>1, HeightType, Zenon DEF height
<1> HIDE DEF p
<1>3. /\ r \in NodeState
      /\ IF H \in Heights
         THEN /\ r.due = p.pendingBlocks[H]
              /\ r.pendingBlocks = [p.pendingBlocks EXCEPT ![H] = <<>>]
         ELSE r.due = p.due /\ r.pendingBlocks = p.pendingBlocks
      /\ r.chain = p.chain
      /\ r.knownBlocks = p.knownBlocks
      /\ r.attestations = p.attestations
      /\ r.firstHeight = p.firstHeight
      /\ r.hashesByValidator = p.hashesByValidator
      /\ r.attestedAt = p.attestedAt
      /\ r.observedConflicts = p.observedConflicts
      /\ r.out = p.out
  BY <1>1, <1>2, TakeDueShape, Zenon
<1>4. drainBuffered(s) = r
  BY Zenon DEF drainBuffered, p
<1> HIDE DEF r
<1>5. p.pendingBlocks \in [Heights -> Seq(Block)]
  BY <1>1, Zenon DEF NodeState
<1>6. \A k \in Heights : r.pendingBlocks[k] # <<>> => k # H /\ r.pendingBlocks[k] = p.pendingBlocks[k]
  <2>1. CASE H \in Heights
    BY <1>3, <1>5, <2>1, Zenon
  <2>2. CASE H \notin Heights
    BY <1>3, <2>2, Zenon
  <2>3. QED
    BY <2>1, <2>2, Zenon
<1>7. height(r) = H
  BY <1>1, <1>3, Zenon DEF height
<1>8. ASSUME PoolState(s) PROVE PoolState(r) /\ DueOK(r)
  <2>1. PoolState(p) /\ \A k \in Heights : p.pendingBlocks[k] # <<>> => H <= k
    BY <1>8, PoolPruned, Zenon DEF p
  <2>2. Indexed(r) /\ pooledHashes(r) = pooledHashes(p)
    BY <1>3, <2>1, Zenon DEF PoolState, Indexed, pooledHashes
  <2>3. Bounded(r)
    <3>1. \A k \in Heights : Len(r.pendingBlocks[k]) <= MAX_PENDING_PER_HEIGHT
      <4>1. Len(<<>>) <= MAX_PENDING_PER_HEIGHT
        BY CapsAssumption
      <4>2. \A k \in Heights : Len(p.pendingBlocks[k]) <= MAX_PENDING_PER_HEIGHT
        BY <2>1, Zenon DEF PoolState, Bounded
      <4>3. QED
        BY <1>6, <4>1, <4>2, Zenon
    <3>2. QED
      BY <1>3, <2>1, <2>2, <3>1, Zenon DEF PoolState, Bounded
  <2>4. BufferedBelow(r, height(r) + MAX_FUTURE_HEIGHTS)
    BY <1>2, <1>6, <1>7, <2>1, Zenon DEF PoolState, BufferedBelow
  <2>5. ASSUME NEW k \in Heights, NEW i \in DOMAIN r.pendingBlocks[k]
        PROVE  Height[r.pendingBlocks[k][i].hash] = k
    <3>1. r.pendingBlocks[k] # <<>>
      BY <2>5
    <3>2. QED
      BY <1>6, <2>1, <2>5, <3>1, Zenon DEF PoolState
  <2>6. PoolState(r)
    BY <1>3, <2>1, <2>2, <2>3, <2>4, <2>5 DEF PoolState
  <2>7. BufferedAbove(r, H)
    <3>1. \A k \in Heights : k \in Nat
      BY HeightsNat
    <3>2. \A k \in Heights : r.pendingBlocks[k] # <<>> => k # H /\ H <= k
      BY <1>6, <2>1, Zenon
    <3>3. QED
      BY <1>2, <3>1, <3>2 DEF BufferedAbove
  <2>8. CASE r.due = <<>>
    BY <1>7, <2>6, <2>7, <2>8, Zenon DEF DueOK
  <2>9. CASE r.due # <<>>
    <3>1. H \in Heights /\ r.due = p.pendingBlocks[H]
      BY <1>1, <1>3, <2>9, Zenon
    <3>2. \A i \in DOMAIN r.due : Height[r.due[i].hash] = H
      BY <2>1, <3>1, Zenon DEF PoolState
    <3>3. DueOK(r)
      BY <1>7, <2>7, <2>9, <3>1, <3>2, Zenon DEF DueOK
    <3>4. QED
      BY <2>6, <3>3, Zenon
  <2>10. QED
    BY <2>8, <2>9, Zenon
<1>9. QED
  BY <1>1, <1>3, <1>4, <1>8, Zenon

-----------------------------------------------------------------------------
(* The handlers.                                                           *)

\* tryFinalize keeps the pool in order and broadcasts nothing.
LEMMA FinalizeLocal ==
    ASSUME NEW s \in NodeState, NEW h \in Hashes
    PROVE  LET r == tryFinalize(s, h)
           IN  /\ r \in NodeState
               /\ Grows(s, r, h)
               /\ OutSet(r) = OutSet(s)
               /\ r.due = s.due
               /\ r.pendingBlocks = s.pendingBlocks
               /\ PoolState(s) => PoolState(r)
<1> DEFINE r == tryFinalize(s, h)
<1>1. /\ r \in NodeState
      /\ Grows(s, r, h)
      /\ r.knownBlocks = s.knownBlocks
      /\ r.attestations = s.attestations
      /\ r.firstHeight = s.firstHeight
      /\ r.hashesByValidator = s.hashesByValidator
      /\ r.attestedAt = s.attestedAt
      /\ r.pendingBlocks = s.pendingBlocks
      /\ r.observedConflicts = s.observedConflicts
      /\ r.due = s.due
      /\ r.out = s.out
  BY FinalizeShape, Zenon
<1> HIDE DEF r
<1>2. OutSet(r) = OutSet(s)
  BY <1>1, Zenon DEF OutSet
<1>3. height(s) <= height(r)
  <2>1. height(s) \in Nat /\ height(r) \in {height(s), height(s) + 1}
    BY <1>1, GrowsHeight, HeightType, Zenon
  <2>2. QED
    BY <2>1
<1>4. PoolState(s) => PoolState(r)
  BY <1>1, <1>3, PoolKept, Zenon
<1>5. QED
  BY <1>1, <1>2, <1>4, Zenon DEF r

\* onAttestation keeps the pool in order, may finalize the attested block, and
\* floods at most the attestation.
LEMMA OnAttestationLocal ==
    ASSUME NEW s \in NodeState, NEW a \in Attestation
    PROVE  LET r == onAttestation(s, a)
           IN  /\ r \in NodeState
               /\ Grows(s, r, a.blockHash)
               /\ OutSet(r) \subseteq OutSet(s) \cup {AttestationMsg(a)}
               /\ r.due = s.due
               /\ r.pendingBlocks = s.pendingBlocks
               /\ PoolState(s) => PoolState(r)
<1> DEFINE p == Pool(s, a)
           m == AttestationMsg(a)
           q == broadcast(p, m)
           r == tryFinalize(q, a.blockHash)
<1>1. CASE ~Admits(s, a)
  BY <1>1, Zenon DEF onAttestation, Grows
<1>2. CASE Admits(s, a)
  <2>1. a.blockHash \in Hashes /\ m \in GossipMessage
    BY Zenon DEF Attestation, GossipMessage, AttestationMsg
  <2>2. onAttestation(s, a) = r
    BY <1>2, Zenon DEF onAttestation
  <2>3. /\ p \in NodeState
        /\ p.chain = s.chain
        /\ p.pendingBlocks = s.pendingBlocks
        /\ p.due = s.due
        /\ p.out = s.out
    BY PoolShape, Zenon
  <2>4. PoolState(s) => PoolState(p)
    BY <1>2, PoolAdmitted, Zenon
  <2> HIDE DEF p, m
  <2>5. /\ q \in NodeState
        /\ q.chain = p.chain
        /\ q.knownBlocks = p.knownBlocks
        /\ q.attestations = p.attestations
        /\ q.firstHeight = p.firstHeight
        /\ q.hashesByValidator = p.hashesByValidator
        /\ q.attestedAt = p.attestedAt
        /\ q.pendingBlocks = p.pendingBlocks
        /\ q.observedConflicts = p.observedConflicts
        /\ q.due = p.due
        /\ OutSet(q) = OutSet(p) \cup {m}
    BY <2>1, <2>3, BroadcastShape, Zenon
  <2> HIDE DEF q
  <2>6. height(p) <= height(q) /\ height(q) = height(s)
    <3>1. height(q) = height(p) /\ height(p) = height(s) /\ height(p) \in Nat
      BY <2>3, <2>5, HeightType, Zenon DEF height
    <3>2. QED
      BY <3>1
  <2>7. PoolState(s) => PoolState(q)
    BY <2>3, <2>4, <2>5, <2>6, PoolKept, Zenon
  <2>8. /\ r \in NodeState
        /\ Grows(q, r, a.blockHash)
        /\ OutSet(r) = OutSet(q)
        /\ r.due = q.due
        /\ r.pendingBlocks = q.pendingBlocks
        /\ PoolState(q) => PoolState(r)
    BY <2>1, <2>5, FinalizeLocal, Zenon
  <2> HIDE DEF r
  <2>9. Grows(s, r, a.blockHash)
    BY <2>3, <2>5, <2>6, <2>8, Zenon DEF Grows
  <2>10. OutSet(r) = OutSet(s) \cup {m}
    <3>1. OutSet(p) = OutSet(s)
      BY <2>3, Zenon DEF OutSet
    <3>2. QED
      BY <2>5, <2>8, <3>1, Zenon
  <2>11. QED
    BY <2>2, <2>3, <2>5, <2>7, <2>8, <2>9, <2>10, Zenon DEF m
<1>3. QED
  BY <1>1, <1>2, Zenon

\* Attesting a block keeps the pool in order, may finalize the block, and sends at
\* most the node's attestation for it, which it does only when it has attested
\* nothing at that height.
LEMMA AttestOnceLocal ==
    ASSUME NEW n \in Nodes, NEW s \in NodeState, NEW h \in Hashes
    PROVE  LET r == AttestOnce(n, s, h)
           IN  /\ r \in NodeState
               /\ Grows(s, r, h)
               /\ OutSet(r) \subseteq OutSet(s) \cup {AttestationMsg(attest(h, n))}
               /\ (\E g \in s.attestedAt : Height[g] = Height[h]) => OutSet(r) = OutSet(s)
               /\ r.due = s.due
               /\ r.pendingBlocks = s.pendingBlocks
               /\ PoolState(s) => PoolState(r)
<1> DEFINE already == {g \in s.attestedAt : Height[g] = Height[h]}
           O == [a : already \ {h}, b : {h}]
           c == [s EXCEPT !.observedConflicts = @ \cup O]
           t == [s EXCEPT !.attestedAt = @ \cup {h}]
           a == attest(h, n)
<1>1. CASE already # {} /\ ~(Cardinality(s.observedConflicts) < MAX_OBSERVED_CONFLICTS)
  <2>1. AttestOnce(n, s, h) = s
    BY <1>1, Zenon DEF AttestOnce
  <2>2. QED
    BY <2>1, Zenon DEF Grows
<1>2. CASE already # {} /\ Cardinality(s.observedConflicts) < MAX_OBSERVED_CONFLICTS
  <2>1. AttestOnce(n, s, h) = c
    BY <1>2, Zenon DEF AttestOnce
  <2>2. O \subseteq [a : Hashes, b : Hashes]
    BY DEF NodeState
  <2>3. ASSUME PoolState(s) PROVE \A x, y \in O : x = y
    <3>1. \A f, g \in already : f = g
      BY <2>3, Zenon DEF PoolState
    <3> HIDE DEF already
    <3>2. QED
      BY <3>1
  <2> HIDE DEF O
  <2>4. /\ c \in NodeState
        /\ c.chain = s.chain
        /\ c.due = s.due
        /\ c.pendingBlocks = s.pendingBlocks
        /\ c.out = s.out
    BY <2>2, ConflictShape, Zenon
  <2>5. PoolState(s) => PoolState(c)
    BY <1>2, <2>2, <2>3, PoolConflict, Zenon
  <2> HIDE DEF c
  <2>6. Grows(s, c, h) /\ OutSet(c) = OutSet(s)
    BY <2>4, Zenon DEF Grows, OutSet
  <2>7. QED
    BY <2>1, <2>4, <2>5, <2>6, Zenon
<1>3. CASE already = {} /\ stakeOf(n) > 0
  <2>1. AttestOnce(n, s, h) = onAttestation(t, a)
    BY <1>3, Zenon DEF AttestOnce
  <2>2. a \in Attestation /\ a.blockHash = h
    BY LedgerAssumption DEF attest, Attestation, Ids
  <2>3. /\ t \in NodeState
        /\ t.chain = s.chain
        /\ t.due = s.due
        /\ t.pendingBlocks = s.pendingBlocks
        /\ t.out = s.out
    BY AttestedShape, Zenon
  <2>4. \A g \in s.attestedAt : Height[g] # Height[h]
    BY <1>3, Zenon
  <2>5. PoolState(s) => PoolState(t)
    BY <2>4, PoolAttested, Zenon
  <2> HIDE DEF t, a
  <2> DEFINE r == onAttestation(t, a)
  <2>6. /\ r \in NodeState
        /\ Grows(t, r, h)
        /\ OutSet(r) \subseteq OutSet(t) \cup {AttestationMsg(a)}
        /\ r.due = t.due
        /\ r.pendingBlocks = t.pendingBlocks
        /\ PoolState(t) => PoolState(r)
    BY <2>2, <2>3, OnAttestationLocal, Zenon
  <2> HIDE DEF r
  <2>7. Grows(s, r, h) /\ OutSet(t) = OutSet(s)
    BY <2>3, <2>6, Zenon DEF Grows, height, OutSet
  <2>8. AttestOnce(n, s, h) = r
    BY <2>1, Zenon DEF r
  <2>9. OutSet(r) \subseteq OutSet(s) \cup {AttestationMsg(attest(h, n))}
    BY <2>6, <2>7, Zenon DEF a
  <2>10. QED
    BY <2>3, <2>4, <2>5, <2>6, <2>7, <2>8, <2>9, Zenon
<1>4. CASE already = {} /\ ~(stakeOf(n) > 0)
  <2>1. AttestOnce(n, s, h) = s
    BY <1>4, Zenon DEF AttestOnce
  <2>2. QED
    BY <2>1, Zenon DEF Grows
<1>5. QED
  BY <1>1, <1>2, <1>3, <1>4, Zenon

\* Buffering a future block keeps the chain, floods at most the block and keeps
\* the pool in order.
LEMMA BufferLocal ==
    ASSUME NEW s \in NodeState, NEW b \in Block
    PROVE  LET r == bufferFuture(s, b)
           IN  /\ r \in NodeState
               /\ r.chain = s.chain
               /\ r.attestations = s.attestations
               /\ r.attestedAt = s.attestedAt
               /\ OutSet(s) \subseteq OutSet(r)
               /\ OutSet(r) \subseteq OutSet(s) \cup {BlockMsg(b)}
               /\ r.due = s.due
               /\ PoolState(s) => PoolState(r)
<1> DEFINE k == Height[b.hash]
           Room == /\ k <= height(s) + MAX_FUTURE_HEIGHTS
                   /\ \A i \in DOMAIN s.pendingBlocks[k] : s.pendingBlocks[k][i].hash # b.hash
                   /\ Len(s.pendingBlocks[k]) < MAX_PENDING_PER_HEIGHT
           p == [s EXCEPT !.pendingBlocks[k] = Append(@, b)]
           m == BlockMsg(b)
           r == broadcast(p, m)
<1>1. k \in Heights
  BY BlockHeight, Zenon
<1>2. m \in GossipMessage
  BY Zenon DEF GossipMessage, BlockMsg
<1>3. CASE ~Room
  <2>1. bufferFuture(s, b) = s
    BY <1>3, Zenon DEF bufferFuture
  <2>2. QED
    BY <2>1, Zenon
<1>4. CASE Room
  <2>1. bufferFuture(s, b) = r
    BY <1>4, Zenon DEF bufferFuture
  <2>2. /\ p \in NodeState
        /\ p.chain = s.chain
        /\ p.attestations = s.attestations
        /\ p.attestedAt = s.attestedAt
        /\ p.due = s.due
        /\ p.out = s.out
    BY <1>1, PendShape
  <2>3. PoolState(s) => PoolState(p)
    BY <1>1, <1>4, PoolPending
  <2> HIDE DEF p, m
  <2>4. /\ r \in NodeState
        /\ r.chain = p.chain
        /\ r.knownBlocks = p.knownBlocks
        /\ r.attestations = p.attestations
        /\ r.firstHeight = p.firstHeight
        /\ r.hashesByValidator = p.hashesByValidator
        /\ r.attestedAt = p.attestedAt
        /\ r.pendingBlocks = p.pendingBlocks
        /\ r.observedConflicts = p.observedConflicts
        /\ r.due = p.due
        /\ OutSet(r) = OutSet(p) \cup {m}
    BY <1>2, <2>2, BroadcastShape, Zenon
  <2> HIDE DEF r
  <2>5. height(p) <= height(r)
    <3>1. height(r) = height(p) /\ height(p) \in Nat
      BY <2>2, <2>4, HeightType, Zenon DEF height
    <3>2. QED
      BY <3>1
  <2>6. PoolState(p) => PoolState(r)
    BY <2>2, <2>4, <2>5, PoolKept, Zenon
  <2>7. OutSet(p) = OutSet(s)
    BY <2>2, Zenon DEF OutSet
  <2>8. QED
    BY <2>1, <2>2, <2>3, <2>4, <2>6, <2>7, Zenon DEF m
<1>5. QED
  BY <1>3, <1>4, Zenon

\* Storing a block keeps the chain, floods at most the block and keeps the pool in
\* order.
LEMMA RecordLocal ==
    ASSUME NEW s \in NodeState, NEW b \in Block, NEW flood,
           ~(Cardinality(s.knownBlocks) >= MAX_KNOWN_AT_HEIGHT)
    PROVE  LET r == Record(s, b, flood)
           IN  /\ r \in NodeState
               /\ r.chain = s.chain
               /\ r.attestations = s.attestations
               /\ r.attestedAt = s.attestedAt
               /\ r.pendingBlocks = s.pendingBlocks
               /\ OutSet(s) \subseteq OutSet(r)
               /\ OutSet(r) \subseteq OutSet(s) \cup {BlockMsg(b)}
               /\ r.due = s.due
               /\ PoolState(s) => PoolState(r)
<1> DEFINE p == [s EXCEPT !.knownBlocks = @ \cup {b}]
           m == BlockMsg(b)
           r == broadcast(p, m)
<1>1. m \in GossipMessage
  BY Zenon DEF GossipMessage, BlockMsg
<1>2. Record(s, b, flood) \in {p, r}
  BY Zenon DEF Record
<1>3. /\ p \in NodeState
      /\ p.chain = s.chain
      /\ p.attestations = s.attestations
      /\ p.attestedAt = s.attestedAt
      /\ p.pendingBlocks = s.pendingBlocks
      /\ p.due = s.due
      /\ p.out = s.out
  BY StoreShape, Zenon
<1>4. PoolState(s) => PoolState(p)
  BY PoolStored, Zenon
<1> HIDE DEF p, m
<1>5. OutSet(p) = OutSet(s)
  BY <1>3, Zenon DEF OutSet
<1>6. /\ r \in NodeState
      /\ r.chain = p.chain
      /\ r.knownBlocks = p.knownBlocks
      /\ r.attestations = p.attestations
      /\ r.firstHeight = p.firstHeight
      /\ r.hashesByValidator = p.hashesByValidator
      /\ r.attestedAt = p.attestedAt
      /\ r.pendingBlocks = p.pendingBlocks
      /\ r.observedConflicts = p.observedConflicts
      /\ r.due = p.due
      /\ OutSet(r) = OutSet(p) \cup {m}
  BY <1>1, <1>3, BroadcastShape, Zenon
<1> HIDE DEF r
<1>7. PoolState(p) => PoolState(r)
  <2>1. height(r) = height(p) /\ height(p) \in Nat
    BY <1>3, <1>6, HeightType, Zenon DEF height
  <2>2. height(p) <= height(r)
    BY <2>1
  <2>3. QED
    BY <1>3, <1>6, <2>2, PoolKept, Zenon
<1>8. CASE Record(s, b, flood) = p
  BY <1>3, <1>4, <1>5, <1>8, Zenon
<1>9. CASE Record(s, b, flood) = r
  BY <1>3, <1>4, <1>5, <1>6, <1>7, <1>9, Zenon DEF m
<1>10. QED
  BY <1>2, <1>8, <1>9, Zenon

\* onBlock may finalize the block it is given and vote for it, and keeps the pool
\* in order; a block that is not ahead of the head is not buffered.
LEMMA OnBlockLocal ==
    ASSUME NEW n \in Nodes, NEW s \in NodeState, NEW b \in Block, NEW flood, NEW M
    PROVE  LET r == onBlock(n, s, b, flood)
           IN  /\ r \in NodeState
               /\ Grows(s, r, b.hash)
               /\ Speaks(n, s, r, M, b.hash)
               /\ r.due = s.due
               /\ Height[b.hash] <= height(s) => r.pendingBlocks = s.pendingBlocks
               /\ PoolState(s) => PoolState(r)
<1> DEFINE h == b.hash
           k == Height[b.hash]
           p == Record(s, b, flood)
           q == AttestOnce(n, p, h)
           r == tryFinalize(q, h)
           Known == \/ \E c \in s.knownBlocks : c.hash = b.hash
                    \/ Cardinality(s.knownBlocks) >= MAX_KNOWN_AT_HEIGHT
<1>1. h \in Hashes /\ k \in Nat /\ height(s) \in Nat
  BY BlockHeight, HeightType, Zenon
<1>2. BlockMsg(b).kind = "block"
  BY Zenon DEF BlockMsg
<1>3. CASE k < height(s)
  <2>1. onBlock(n, s, b, flood) = s
    <3>1. ~(k > height(s))
      BY <1>1, <1>3
    <3>2. QED
      BY <1>3, <3>1 DEF onBlock
  <2>2. QED
    BY <2>1, Zenon DEF Grows, Speaks
<1>4. CASE k > height(s)
  <2>1. ~(k < height(s)) /\ ~(k <= height(s))
    BY <1>1, <1>4
  <2>2. onBlock(n, s, b, flood) = bufferFuture(s, b)
    BY <1>4, <2>1 DEF onBlock
  <2> DEFINE t == bufferFuture(s, b)
  <2>3. /\ t \in NodeState
        /\ t.chain = s.chain
        /\ OutSet(t) \subseteq OutSet(s) \cup {BlockMsg(b)}
        /\ t.due = s.due
        /\ PoolState(s) => PoolState(t)
    BY BufferLocal, Zenon
  <2> HIDE DEF t
  <2>4. Grows(s, t, h) /\ Speaks(n, s, t, M, h)
    BY <1>2, <2>3, Zenon DEF Grows, Speaks
  <2>5. onBlock(n, s, b, flood) = t
    BY <2>2, Zenon DEF t
  <2>6. QED
    BY <2>1, <2>3, <2>4, <2>5, Zenon
<1>5. CASE k = height(s)
  <2>1. ~(k < height(s)) /\ ~(k > height(s))
    BY <1>1, <1>5
  <2>2. CASE Known
    <3>1. onBlock(n, s, b, flood) = s
      BY <2>1, <2>2, Zenon DEF onBlock
    <3>2. QED
      BY <3>1, Zenon DEF Grows, Speaks
  <2>3. CASE ~Known
    <3>1. onBlock(n, s, b, flood) = r
      BY <2>1, <2>3, Zenon DEF onBlock
    <3>2. /\ p \in NodeState
          /\ p.chain = s.chain
          /\ p.attestedAt = s.attestedAt
          /\ p.pendingBlocks = s.pendingBlocks
          /\ OutSet(p) \subseteq OutSet(s) \cup {BlockMsg(b)}
          /\ p.due = s.due
          /\ PoolState(s) => PoolState(p)
      BY <2>3, RecordLocal, Zenon
    <3> HIDE DEF p
    <3>3. /\ q \in NodeState
          /\ Grows(p, q, h)
          /\ OutSet(q) \subseteq OutSet(p) \cup {AttestationMsg(attest(h, n))}
          /\ (\E g \in p.attestedAt : Height[g] = Height[h]) => OutSet(q) = OutSet(p)
          /\ q.due = p.due
          /\ q.pendingBlocks = p.pendingBlocks
          /\ PoolState(p) => PoolState(q)
      BY <1>1, <3>2, AttestOnceLocal, Zenon
    <3> HIDE DEF q
    <3>4. /\ r \in NodeState
          /\ Grows(q, r, h)
          /\ OutSet(r) = OutSet(q)
          /\ r.due = q.due
          /\ r.pendingBlocks = q.pendingBlocks
          /\ PoolState(q) => PoolState(r)
      BY <1>1, <3>3, FinalizeLocal, Zenon
    <3> HIDE DEF r
    <3>5. Grows(s, r, h)
      <4>1. Grows(p, r, h)
        BY <3>2, <3>3, <3>4, GrowsOnce, Zenon
      <4>2. QED
        BY <3>2, <4>1, Zenon DEF Grows, height
    <3>6. Speaks(n, s, r, M, h)
      <4> SUFFICES ASSUME NEW m \in OutSet(r), m \notin OutSet(s), m.kind # "block"
                   PROVE  /\ m = AttestationMsg(attest(h, n))
                          /\ \A g \in s.attestedAt : Height[g] # Height[h]
        BY <1>5, Zenon DEF Speaks
      <4>1. m \notin OutSet(p)
        BY <1>2, <3>2, Zenon
      <4>2. QED
        BY <3>2, <3>3, <3>4, <4>1, Zenon
    <3>7. QED
      BY <3>1, <3>2, <3>3, <3>4, <3>5, <3>6, Zenon
  <2>4. QED
    BY <2>2, <2>3, Zenon
<1>6. QED
  BY <1>1, <1>3, <1>4, <1>5

\* A handler that ends with a round of drainBuffered.
LEMMA DrainHandled ==
    ASSUME NEW n \in Nodes, NEW s, NEW r \in NodeState, NEW M, NEW h \in Hashes,
           Grows(s, r, h), Speaks(n, s, r, M, h), r.due = <<>>,
           PoolState(s) => PoolState(r)
    PROVE  Handled(n, s, drainBuffered(r), M)
<1> DEFINE d == drainBuffered(r)
<1>1. /\ d \in NodeState
      /\ d.chain = r.chain
      /\ d.out = r.out
      /\ PoolState(r) => PoolState(d) /\ DueOK(d)
  BY DrainLocal, Zenon
<1> HIDE DEF d
<1>2. Grows(s, d, h)
  BY <1>1, Zenon DEF Grows
<1>3. Speaks(n, s, d, M, h)
  BY <1>1, Zenon DEF Speaks, OutSet
<1>4. QED
  BY <1>1, <1>2, <1>3, Zenon DEF Handled, d

\* onMessage, called between the handlers.
LEMMA OnMessageHandled ==
    ASSUME NEW n \in Nodes, NEW s \in NodeState, s.due = <<>>,
           NEW M, M \subseteq GossipMessage, NEW m \in M
    PROVE  Handled(n, s, onMessage(n, s, m), M)
<1>1. CASE m \in [kind : {"block"}, block : Block]
  <2> DEFINE b == m.block
             r == onBlock(n, s, b, TRUE)
  <2>1. m.kind = "block" /\ b \in Block /\ b.hash \in Hashes
    BY <1>1, BlockHeight, Zenon
  <2> HIDE DEF b
  <2>2. /\ r \in NodeState
        /\ Grows(s, r, b.hash)
        /\ Speaks(n, s, r, M, b.hash)
        /\ r.due = s.due
        /\ PoolState(s) => PoolState(r)
    BY <2>1, OnBlockLocal, Zenon
  <2> HIDE DEF r
  <2>3. Handled(n, s, drainBuffered(r), M)
    BY <2>1, <2>2, DrainHandled, Zenon
  <2>4. onMessage(n, s, m) = drainBuffered(r)
    BY <2>1, Zenon DEF onMessage, r, b
  <2>5. QED
    BY <2>3, <2>4, Zenon
<1>2. CASE m \in [kind : {"attestation"}, attestation : Attestation]
  <2> DEFINE a == m.attestation
             r == onAttestation(s, a)
  <2>1. m.kind # "block" /\ a \in Attestation /\ AttestationMsg(a) = m
    BY <1>2 DEF AttestationMsg
  <2>2. a.blockHash \in Hashes
    BY <2>1, Zenon DEF Attestation
  <2> HIDE DEF a
  <2>3. /\ r \in NodeState
        /\ Grows(s, r, a.blockHash)
        /\ OutSet(r) \subseteq OutSet(s) \cup {m}
        /\ r.due = s.due
        /\ PoolState(s) => PoolState(r)
    BY <2>1, OnAttestationLocal, Zenon
  <2> HIDE DEF r
  <2>4. Speaks(n, s, r, M, a.blockHash)
    BY <2>3, Zenon DEF Speaks
  <2>5. Handled(n, s, drainBuffered(r), M)
    BY <2>2, <2>3, <2>4, DrainHandled, Zenon
  <2>6. onMessage(n, s, m) = drainBuffered(r)
    BY <2>1, Zenon DEF onMessage, r, a
  <2>7. QED
    BY <2>5, <2>6, Zenon
<1>3. QED
  BY <1>1, <1>2, Zenon DEF GossipMessage

\* proposeIfLeader, called between the handlers.
LEMMA ProposeHandled ==
    ASSUME NEW n \in Nodes, NEW s \in NodeState, s.due = <<>>, NEW M, NEW h \in Hashes
    PROVE  Handled(n, s, proposeIfLeader(n, s, h), M)
<1> DEFINE b == [hash |-> h, sealed |-> TRUE]
           r == onBlock(n, s, b, TRUE)
<1>1. b \in Block /\ b.hash = h
  BY DEF Block
<1>2. proposeIfLeader(n, s, h) = drainBuffered(r)
  BY Zenon DEF proposeIfLeader
<1> HIDE DEF b
<1>3. /\ r \in NodeState
      /\ Grows(s, r, h)
      /\ Speaks(n, s, r, M, h)
      /\ r.due = s.due
      /\ PoolState(s) => PoolState(r)
  BY <1>1, OnBlockLocal, Zenon
<1> HIDE DEF r
<1>4. QED
  BY <1>2, <1>3, DrainHandled, Zenon

\* One round of the replay loop.
LEMMA ReplayHandled ==
    ASSUME NEW n \in Nodes, NEW s \in NodeState, s.due # <<>>, NEW M
    PROVE  Handled(n, s, ReplayDue(n, s), M)
<1> DEFINE b == Head(s.due)
           h == b.hash
           u == [s EXCEPT !.due = Tail(@)]
           r == onBlock(n, u, b, FALSE)
           More == r.due = <<>> /\ height(r) > Height[b.hash]
<1>1. s.due \in Seq(Block)
  BY Zenon DEF NodeState
<1>2. b \in Block /\ h \in Hashes /\ Height[h] \in Nat
  BY <1>1, HeadTailProperties, BlockHeight, Zenon
<1>3. ReplayDue(n, s) = IF More THEN drainBuffered(r) ELSE r
  BY Zenon DEF ReplayDue
<1>4. \A i \in DOMAIN Tail(s.due) : i + 1 \in DOMAIN s.due /\ Tail(s.due)[i] = s.due[i + 1]
  BY <1>1, HeadTailProperties
<1>5. 1 \in DOMAIN s.due /\ b = s.due[1]
  BY <1>1
<1>6. /\ u \in NodeState
      /\ u.due = Tail(s.due)
      /\ u.chain = s.chain
      /\ u.knownBlocks = s.knownBlocks
      /\ u.attestations = s.attestations
      /\ u.firstHeight = s.firstHeight
      /\ u.hashesByValidator = s.hashesByValidator
      /\ u.attestedAt = s.attestedAt
      /\ u.pendingBlocks = s.pendingBlocks
      /\ u.observedConflicts = s.observedConflicts
      /\ u.out = s.out
  BY TailShape, Zenon
<1> HIDE DEF b, u
<1>7. height(u) = height(s) /\ height(s) \in Nat /\ OutSet(u) = OutSet(s)
  BY <1>6, HeightType, Zenon DEF height, OutSet
<1>8. PoolState(s) => PoolState(u)
  <2>1. height(s) <= height(u)
    BY <1>7
  <2>2. QED
    BY <1>6, <2>1, PoolKept, Zenon
<1>9. /\ r \in NodeState
      /\ Grows(u, r, h)
      /\ Speaks(n, u, r, M, h)
      /\ r.due = u.due
      /\ Height[h] <= height(u) => r.pendingBlocks = u.pendingBlocks
      /\ PoolState(u) => PoolState(r)
  BY <1>2, <1>6, OnBlockLocal, Zenon
<1> HIDE DEF r
<1>10. Grows(s, r, h) /\ Speaks(n, s, r, M, h)
  BY <1>6, <1>7, <1>9, Zenon DEF Grows, Speaks
<1>11. CASE More
  BY <1>2, <1>3, <1>8, <1>9, <1>10, <1>11, DrainHandled, Zenon
<1>12. CASE ~More
  <2>1. ASSUME PoolState(s), DueOK(s) PROVE DueOK(r)
    <3>1. PICK j \in Heights : /\ \A i \in DOMAIN s.due : Height[s.due[i].hash] = j
                               /\ height(s) \in {j, j + 1}
                               /\ BufferedAbove(s, j)
      BY <2>1, Zenon DEF DueOK
    <3>2. Height[h] = j /\ j \in Nat
      BY <1>2, <1>5, <3>1, Zenon
    <3>3. r.pendingBlocks = s.pendingBlocks
      <4>1. Height[h] <= height(u)
        BY <1>7, <3>1, <3>2
      <4>2. QED
        BY <1>6, <1>9, <4>1, Zenon
    <3>4. BufferedAbove(r, j)
      BY <3>1, <3>3, Zenon DEF BufferedAbove
    <3>5. height(r) \in {j, j + 1} /\ height(r) \in Nat
      <4>1. \/ height(r) = height(u)
            \/ Height[h] = height(u) /\ height(r) = height(u) + 1
        BY <1>6, <1>9, GrowsHeight, Zenon
      <4>2. QED
        BY <1>7, <3>1, <3>2, <4>1
    <3>6. CASE r.due = <<>>
      <4>1. ~(height(r) > Height[h])
        BY <1>12, <3>6, Zenon
      <4>2. height(r) = j
        BY <3>2, <3>5, <4>1
      <4>3. QED
        BY <3>4, <3>6, <4>2, Zenon DEF DueOK
    <3>7. CASE r.due # <<>>
      <4>1. \A i \in DOMAIN r.due : Height[r.due[i].hash] = j
        BY <1>4, <1>6, <1>9, <3>1
      <4>2. QED
        BY <3>4, <3>5, <3>7, <4>1, Zenon DEF DueOK
    <3>8. QED
      BY <3>6, <3>7, Zenon
  <2>2. QED
    BY <1>2, <1>3, <1>8, <1>9, <1>10, <1>12, <2>1, Zenon DEF Handled
<1>13. QED
  BY <1>11, <1>12, Zenon
=============================================================================
