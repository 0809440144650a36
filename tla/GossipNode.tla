----------------------------- MODULE GossipNode -----------------------------
(***************************************************************************)
(* The local logic of one GossipNode (ledger/src/gossip.ts): every handler *)
(* as an operator from the node's state, a record, to its next state.      *)
(*                                                                         *)
(* Messages a handler broadcasts are appended to the field `out'; the      *)
(* modules that extend this one hand them to a transport.                  *)
(*                                                                         *)
(* A handler ends with drainBuffered, whose loop replays the blocks that   *)
(* were buffered for a height the node has just reached.  Each replayed    *)
(* block is one step: `due' holds the blocks the loop still has to replay, *)
(* and while it is not empty no other handler of any node may run          *)
(* (JavaScript runs the loop to completion).                               *)
(***************************************************************************)
EXTENDS Ledger

CONSTANTS
    MAX_FUTURE_HEIGHTS,
    MAX_PENDING_PER_HEIGHT,
    MAX_KNOWN_AT_HEIGHT,
    MAX_OBSERVED_CONFLICTS,
    MAX_ATTESTED_HASHES,
    MAX_HASHES_PER_VALIDATOR

ASSUME CapsAssumption ==
    /\ MAX_FUTURE_HEIGHTS \in Nat
    /\ MAX_PENDING_PER_HEIGHT \in Nat
    /\ MAX_KNOWN_AT_HEIGHT \in Nat
    /\ MAX_OBSERVED_CONFLICTS \in Nat
    /\ MAX_ATTESTED_HASHES \in Nat
    /\ MAX_HASHES_PER_VALIDATOR \in Nat

\* Heights at which a block can be buffered.
Heights == {Height[h] : h \in Hashes}

\* The value of firstHeight for a hash with no pool entry.
NoEntry == -1

GossipMessage ==
    [kind : {"block"}, block : Block] \cup [kind : {"attestation"}, attestation : Attestation]

BlockMsg(b) == [kind |-> "block", block |-> b]
AttestationMsg(a) == [kind |-> "attestation", attestation |-> a]

\* The private fields of GossipNode.  `attestations' is the two-level map
\* hash -> validator -> attestation, and `firstHeight' the height of the entry
\* that was inserted first under a hash (Map iteration order).  `attestedAt'
\* is the range of the map height -> hash: a hash determines its height.
NodeState ==
    [chain             : Seq(FinalizedBlock),
     knownBlocks       : SUBSET Block,
     attestations      : SUBSET Attestation,
     firstHeight       : [Hashes -> Nat \cup {NoEntry}],
     hashesByValidator : [Ids -> SUBSET Hashes],
     attestedAt        : SUBSET Hashes,
     finalizedHashes   : SUBSET Hashes,
     pendingBlocks     : [Heights -> Seq(Block)],
     observedConflicts : SUBSET [a : Hashes, b : Hashes],
     due               : Seq(Block),
     out               : Seq(GossipMessage)]

InitNode ==
    [chain             |-> <<>>,
     knownBlocks       |-> {},
     attestations      |-> {},
     firstHeight       |-> [h \in Hashes |-> NoEntry],
     hashesByValidator |-> [v \in Ids |-> {}],
     attestedAt        |-> {},
     finalizedHashes   |-> {},
     pendingBlocks     |-> [k \in Heights |-> <<>>],
     observedConflicts |-> {},
     due               |-> <<>>,
     out               |-> <<>>]

height(s) == Len(s.chain)

headHash(s) == IF s.chain = <<>> THEN Genesis ELSE s.chain[Len(s.chain)].hash

attestationsFor(s, h) == {a \in s.attestations : a.blockHash = h}

pooledHashes(s) == {a.blockHash : a \in s.attestations}

broadcast(s, m) == [s EXCEPT !.out = Append(@, m)]

-----------------------------------------------------------------------------
(* tryFinalize: submit the block if it is known and at the node's height.  *)

CanSubmit(s, h) ==
    /\ h \notin s.finalizedHashes
    /\ Height[h] = height(s)
    /\ \E b \in s.knownBlocks :
          /\ b.hash = h
          /\ verifyFinalized(b, attestationsFor(s, h), headHash(s), height(s))

\* Ledger.submit appends the block; a verdict other than `finalized' throws,
\* and tryFinalize swallows the exception.
tryFinalize(s, h) ==
    IF CanSubmit(s, h)
    THEN [s EXCEPT !.chain = Append(@, [hash |-> h, attestations |-> attestationsFor(s, h)]),
                   !.finalizedHashes = @ \cup {h}]
    ELSE s

-----------------------------------------------------------------------------
(* onAttestation: validate, pool, flood once, try to finalize.             *)

\* Ingress without verifyAttestationSig.
Admits_Unverified(s, a) ==
    /\ stakeOf(a.validator) > 0
    /\ height(s) <= a.height
    /\ a.height <= height(s) + MAX_FUTURE_HEIGHTS
    /\ \A c \in attestationsFor(s, a.blockHash) : c.validator # a.validator
    /\ \/ a.blockHash \in s.hashesByValidator[a.validator]
       \/ Cardinality(s.hashesByValidator[a.validator]) < MAX_HASHES_PER_VALIDATOR
    /\ \/ a.blockHash \in pooledHashes(s)
       \/ Cardinality(pooledHashes(s)) < MAX_ATTESTED_HASHES

\* The ingress test and the three caps.
Admits(s, a) ==
    /\ a.valid
    /\ stakeOf(a.validator) > 0
    /\ height(s) <= a.height
    /\ a.height <= height(s) + MAX_FUTURE_HEIGHTS
    /\ \A c \in attestationsFor(s, a.blockHash) : c.validator # a.validator
    /\ \/ a.blockHash \in s.hashesByValidator[a.validator]
       \/ Cardinality(s.hashesByValidator[a.validator]) < MAX_HASHES_PER_VALIDATOR
    /\ \/ a.blockHash \in pooledHashes(s)
       \/ Cardinality(pooledHashes(s)) < MAX_ATTESTED_HASHES

Pool(s, a) ==
    [s EXCEPT !.attestations = @ \cup {a},
              !.firstHeight[a.blockHash] = IF @ = NoEntry THEN a.height ELSE @,
              !.hashesByValidator[a.validator] = @ \cup {a.blockHash}]

\* The attestation that completes a quorum does not finalize the block.
OnAttestation_NoFinalize(s, a) ==
    IF Admits(s, a) THEN broadcast(Pool(s, a), AttestationMsg(a)) ELSE s

onAttestation(s, a) ==
    IF Admits(s, a)
    THEN tryFinalize(broadcast(Pool(s, a), AttestationMsg(a)), a.blockHash)
    ELSE s

-----------------------------------------------------------------------------
(* onBlock: buffer a future block; store, flood, attest a current one.     *)

bufferFuture(s, b) ==
    LET k == Height[b.hash]
    IN  IF /\ k <= height(s) + MAX_FUTURE_HEIGHTS
           /\ \A i \in DOMAIN s.pendingBlocks[k] : s.pendingBlocks[k][i].hash # b.hash
           /\ Len(s.pendingBlocks[k]) < MAX_PENDING_PER_HEIGHT
        THEN broadcast([s EXCEPT !.pendingBlocks[k] = Append(@, b)], BlockMsg(b))
        ELSE s

\* Store the block under its hash and flood it, unless it is being replayed.
Record(s, b, flood) ==
    LET r == [s EXCEPT !.knownBlocks = @ \cup {b}]
    IN  IF flood THEN broadcast(r, BlockMsg(b)) ELSE r

\* Every new block at the height is attested.
AttestOnce_Again(n, s, h) ==
    IF stakeOf(n) > 0
    THEN onAttestation([s EXCEPT !.attestedAt = @ \cup {h}], attest(h, n))
    ELSE s

\* Attest the first block seen at the height; record any other as a conflict.
AttestOnce(n, s, h) ==
    LET already == {g \in s.attestedAt : Height[g] = Height[h]}
        others  == [a : already \ {h}, b : {h}]
    IN  IF already # {}
        THEN IF Cardinality(s.observedConflicts) < MAX_OBSERVED_CONFLICTS
             THEN [s EXCEPT !.observedConflicts = @ \cup others]
             ELSE s
        ELSE IF stakeOf(n) > 0
             THEN onAttestation([s EXCEPT !.attestedAt = @ \cup {h}], attest(h, n))
             ELSE s

onBlock(n, s, b, flood) ==
    CASE Height[b.hash] < height(s) -> s
      [] Height[b.hash] > height(s) -> bufferFuture(s, b)
      [] OTHER ->
           IF \/ \E c \in s.knownBlocks : c.hash = b.hash
              \/ Cardinality(s.knownBlocks) >= MAX_KNOWN_AT_HEIGHT
           THEN s
           ELSE tryFinalize(AttestOnce(n, Record(s, b, flood), b.hash), b.hash)

-----------------------------------------------------------------------------
(* drainBuffered: one round of pruning, and the blocks that became due.    *)

\* Hashes whose pool entry is dropped: those of known blocks below the head,
\* and those whose FIRST attestation is for a height below the head.
Expired(s) ==
    {b.hash : b \in {c \in s.knownBlocks : Height[c.hash] < height(s)}}
    \cup {h \in Hashes : s.firstHeight[h] # NoEntry /\ s.firstHeight[h] < height(s)}

\* The per-validator index is not rebuilt.
Prune_StaleIndex(s) ==
    [s EXCEPT
       !.attestedAt = {h \in @ : Height[h] >= height(s)},
       !.knownBlocks = {b \in @ : Height[b.hash] >= height(s)},
       !.attestations = {a \in @ : a.blockHash \notin Expired(s)},
       !.firstHeight = [h \in Hashes |-> IF h \in Expired(s) THEN NoEntry ELSE @[h]],
       !.pendingBlocks = [k \in Heights |-> IF k < height(s) THEN <<>> ELSE @[k]]]

Prune(s) ==
    LET kept == {a \in s.attestations : a.blockHash \notin Expired(s)}
    IN  [s EXCEPT
           !.attestedAt = {h \in @ : Height[h] >= height(s)},
           !.knownBlocks = {b \in @ : Height[b.hash] >= height(s)},
           !.attestations = kept,
           !.firstHeight = [h \in Hashes |-> IF h \in Expired(s) THEN NoEntry ELSE @[h]],
           !.hashesByValidator =
               [v \in Ids |-> {a.blockHash : a \in {c \in kept : c.validator = v}}],
           !.pendingBlocks = [k \in Heights |-> IF k < height(s) THEN <<>> ELSE @[k]]]

TakeDue(s) ==
    IF height(s) \in Heights
    THEN [s EXCEPT !.due = s.pendingBlocks[height(s)], !.pendingBlocks[height(s)] = <<>>]
    ELSE s

\* The start of a round of the loop.
drainBuffered(s) == TakeDue(Prune(s))

\* The loop replays one due block; after the last one it starts another round
\* if the height has advanced meanwhile, and ends otherwise.
ReplayDue(n, s) ==
    LET b == Head(s.due)
        r == onBlock(n, [s EXCEPT !.due = Tail(@)], b, FALSE)
    IN  IF r.due = <<>> /\ height(r) > Height[b.hash] THEN drainBuffered(r) ELSE r

\* onMessage and proposeIfLeader up to the first round of their drainBuffered.
onMessage(n, s, m) ==
    drainBuffered(IF m.kind = "block" THEN onBlock(n, s, m.block, TRUE)
                                      ELSE onAttestation(s, m.attestation))

\* proposeIfLeader: the headers Ledger.propose can build on the current head.
Proposals(n, s) ==
    {h \in Hashes : /\ selectLeader(headHash(s)) = n
                    /\ Proposer[h] = n
                    /\ Height[h] = height(s)
                    /\ Prev[h] = headHash(s)
                    /\ Round[h] = canonicalRound(height(s))}

proposeIfLeader(n, s, h) ==
    drainBuffered(onBlock(n, s, [hash |-> h, sealed |-> TRUE], TRUE))
-----------------------------------------------------------------------------
(* What the pool and the buffers of a node look like.                      *)

OutSet(s) == {s.out[i] : i \in DOMAIN s.out}

\* firstHeight is set exactly for pooled hashes, and hashesByValidator lists
\* exactly the hashes each validator has pooled.
Indexed(s) ==
    /\ {h \in Hashes : s.firstHeight[h] # NoEntry} = pooledHashes(s)
    /\ \A v \in Ids : s.hashesByValidator[v] =
          {a.blockHash : a \in {c \in s.attestations : c.validator = v}}

Bounded(s) ==
    /\ Cardinality(s.knownBlocks) <= MAX_KNOWN_AT_HEIGHT
    /\ Cardinality(s.observedConflicts) <= MAX_OBSERVED_CONFLICTS
    /\ Cardinality(pooledHashes(s)) <= MAX_ATTESTED_HASHES
    /\ \A v \in Ids : Cardinality(s.hashesByValidator[v]) <= MAX_HASHES_PER_VALIDATOR
    /\ \A k \in Heights : Len(s.pendingBlocks[k]) <= MAX_PENDING_PER_HEIGHT

\* Blocks are buffered above height j only.
BufferedAbove(s, j) == \A k \in Heights : s.pendingBlocks[k] # <<>> => j < k

BufferedBelow(s, j) == \A k \in Heights : s.pendingBlocks[k] # <<>> => k <= j

\* With it, Indexed and Bounded are inductive: the sets a cap counts are finite, a
\* node attests one hash per height (each conflict adds one pair), and a block
\* waits under its own height, in reach of the head.
PoolState(s) ==
    /\ Indexed(s)
    /\ Bounded(s)
    /\ IsFiniteSet(s.knownBlocks)
    /\ IsFiniteSet(s.observedConflicts)
    /\ \A g, h \in s.attestedAt : Height[g] = Height[h] => g = h
    /\ \A k \in Heights : \A i \in DOMAIN s.pendingBlocks[k] : Height[s.pendingBlocks[k][i].hash] = k
    /\ BufferedBelow(s, height(s) + MAX_FUTURE_HEIGHTS)

\* Between handlers nothing is buffered at the head or below.  Within the loop
\* of drainBuffered the due blocks are of one height j, the head is there or one
\* above, and what is buffered lies above j.
DueOK(s) ==
    \/ s.due = <<>> /\ BufferedAbove(s, height(s))
    \/ \E j \in Heights : /\ \A i \in DOMAIN s.due : Height[s.due[i].hash] = j
                          /\ height(s) \in {j, j + 1}
                          /\ BufferedAbove(s, j)
                          /\ s.due # <<>>
-----------------------------------------------------------------------------
(* What a node's state must be when the messages M were on the wire.       *)

\* A set of attestations a ledger may hold for one another: they verify, their
\* validators have stake, they were really sent, and there is at most one per
\* validator and hash.
Authentic(atts, M) ==
    /\ \A a \in atts : a.valid /\ stakeOf(a.validator) > 0 /\ AttestationMsg(a) \in M
    /\ \A a, b \in atts : a.blockHash = b.blockHash /\ a.validator = b.validator => a = b

PrevOf(s, i) == IF i = 1 THEN Genesis ELSE s.chain[i - 1].hash

\* Every finalized block passes the light client on its predecessor, with
\* authentic attestations of that block only.
ChainOK(s, M) ==
    \A i \in DOMAIN s.chain :
        /\ verifyFinalized([hash |-> s.chain[i].hash, sealed |-> TRUE],
                           s.chain[i].attestations, PrevOf(s, i), i - 1)
        /\ Authentic(s.chain[i].attestations, M)
        /\ \A a \in s.chain[i].attestations : a.blockHash = s.chain[i].hash

\* n's own attestations among M: at the block's height, none above the height
\* n works at, those at that height covered by attestedAt, one per height.
VotesOK(n, s, M) ==
    /\ \A g, h \in s.attestedAt : Height[g] = Height[h] => g = h
    /\ \A m \in M :
          m.kind = "attestation" /\ m.attestation.valid /\ m.attestation.validator = n =>
             /\ m.attestation.height = Height[m.attestation.blockHash]
             /\ m.attestation.height <= height(s)
             /\ m.attestation.height = height(s) => m.attestation.blockHash \in s.attestedAt
    /\ \A m, k \in M :
          /\ m.kind = "attestation" /\ m.attestation.valid /\ m.attestation.validator = n
          /\ k.kind = "attestation" /\ k.attestation.valid /\ k.attestation.validator = n
          /\ m.attestation.height = k.attestation.height
          => m.attestation.blockHash = k.attestation.blockHash

\* A node relays what it was sent and originates only blocks and its own
\* attestations.
OutOK(n, s, M) ==
    \A m \in OutSet(s) :
        \/ m \in M
        \/ m.kind = "block"
        \/ m.kind = "attestation" /\ m.attestation.validator = n

\* The state s of node n is sound when the messages M were on the wire.
Sound(n, s, M) ==
    /\ s \in NodeState
    /\ OutOK(n, s, M)
    /\ Authentic(s.attestations, M \cup OutSet(s))
    /\ ChainOK(s, M \cup OutSet(s))
    /\ VotesOK(n, s, M \cup OutSet(s))

-----------------------------------------------------------------------------
(* What a handler may do: from state s of node n to r, M on the wire.      *)

\* From s to r the chain stays, or it grows by one block with header h, the next
\* one in height; in both cases the height is known.
Grows(s, r, h) ==
    \/ r.chain = s.chain
    \/ /\ Height[h] = height(s)
       /\ \E fb \in FinalizedBlock : fb.hash = h /\ r.chain = Append(s.chain, fb)

\* What n may put on the wire when it handles header h, M being there already:
\* blocks, copies of M, and its own attestation for h, the latter only at the
\* node's height and when attestedAt holds nothing for it.
Speaks(n, s, r, M, h) ==
    \A m \in OutSet(r) :
        \/ m \in OutSet(s) \cup M
        \/ m.kind = "block"
        \/ /\ m = AttestationMsg(attest(h, n))
           /\ Height[h] = height(s)
           /\ \A g \in s.attestedAt : Height[g] # Height[h]

\* What a whole handler of n does to its state s, M being the messages on the
\* wire: it concerns one header, by which the chain grows if it grows and for
\* which n votes if it votes, and it keeps pool and buffers in order.
Handled(n, s, r, M) ==
    /\ r \in NodeState
    /\ \E h \in Hashes : Grows(s, r, h) /\ Speaks(n, s, r, M, h)
    /\ PoolState(s) /\ DueOK(s) => PoolState(r) /\ DueOK(r)
=============================================================================
