--------------------------- MODULE GossipNetwork ---------------------------
(***************************************************************************)
(* Honest GossipNodes over an arbitrary transport.                         *)
(*                                                                         *)
(* gossip.ts claims that the node logic is transport-agnostic, so this     *)
(* module assumes nothing of the transport: a message that was broadcast,  *)
(* or that lies in Adversary, may reach any node at any time, any number   *)
(* of times, in any order, or never.  Adversary holds what parties that do *)
(* not run the node code may put on the wire: they sign what they like     *)
(* with their own keys, relay any header under a broken seal, and cannot   *)
(* sign for a node.                                                        *)
(***************************************************************************)
EXTENDS GossipNode

CONSTANT Adversary

ASSUME AdversaryAssumption ==
    /\ Adversary \subseteq GossipMessage
    /\ \A m \in Adversary :
          \/ m.kind = "block" /\ (m.block.sealed => Proposer[m.block.hash] \notin Nodes)
          \/ m.kind = "attestation" /\ (m.attestation.valid => m.attestation.validator \notin Nodes)

VARIABLES
    node,   \* the state of every honest node
    sent    \* honest messages broadcast so far

vars == <<node, sent>>

TypeOK ==
    /\ node \in [Nodes -> NodeState]
    /\ sent \subseteq GossipMessage
    /\ \A n \in Nodes : node[n].out = <<>>

Init ==
    /\ node = [n \in Nodes |-> InitNode]
    /\ sent = {}

\* No node is in the middle of a drainBuffered loop.
Idle == \A n \in Nodes : node[n].due = <<>>

\* Node n's handler ends (or pauses between two replayed blocks) in state s.
Commit(n, s) ==
    /\ node' = [node EXCEPT ![n] = [s EXCEPT !.out = <<>>]]
    /\ sent' = sent \cup (OutSet(s) \ Adversary)

ProposeIfLeader(n) ==
    /\ Idle
    /\ \E h \in Proposals(n, node[n]) : Commit(n, proposeIfLeader(n, node[n], h))

Deliver(n, m) ==
    /\ Idle
    /\ Commit(n, onMessage(n, node[n], m))

Replay(n) ==
    /\ node[n].due # <<>>
    /\ Commit(n, ReplayDue(n, node[n]))

Next ==
    \E n \in Nodes :
        \/ ProposeIfLeader(n)
        \/ \E m \in sent \cup Adversary : Deliver(n, m)
        \/ Replay(n)

Spec == Init /\ [][Next]_vars

-----------------------------------------------------------------------------
(* Safety                                                                  *)

\* The attestations on the wire that verify as v's signature, for a node v.
VotesOf(v) == {a \in {m.attestation : m \in {x \in sent : x.kind = "attestation"}} :
                  a.validator = v /\ a.valid}

\* An honest node signs at most one block per height, whatever conflicting,
\* duplicated or replayed blocks it is shown (attestedAt in onBlock survives
\* exactly as long as its height can still be attested).
HonestVoteOnce ==
    \A n \in Nodes : \A a, b \in VotesOf(n) : a.height = b.height => a.blockHash = b.blockHash

\* Two honest ledgers never finalize different blocks at one height, as long
\* as the adversary holds less than a third of the stake.
Agreement ==
    MinorityAdversary =>
        \A m, n \in Nodes :
            \A i \in DOMAIN node[m].chain \cap DOMAIN node[n].chain :
                node[m].chain[i].hash = node[n].chain[i].hash

\* Every block an honest ledger holds is one a light client accepts from the
\* stored attestations alone, at its position and on its predecessor.
FinalityReverifies ==
    \A n \in Nodes : \A i \in DOMAIN node[n].chain :
        LET fb   == node[n].chain[i]
            prev == IF i = 1 THEN Genesis ELSE node[n].chain[i - 1].hash
        IN  verifyFinalized([hash |-> fb.hash, sealed |-> TRUE], fb.attestations, prev, i - 1)

\* Slashing evidence detectEquivocations extracts from two ledgers that hold
\* different blocks at one position.
Slashed(fa, fb) ==
    slash(detectEquivocations(fa.hash, fa.attestations, fb.hash, fb.attestations))

\* If two ledgers ever diverge, the attestations they stored convict
\* validators with at least 2*num - den parts in den of the stake (a third,
\* for the default fraction), and never an honest one.
AccountableSafety ==
    \A m, n \in Nodes :
        \A i \in DOMAIN node[m].chain \cap DOMAIN node[n].chain :
            LET fa == node[m].chain[i]
                fb == node[n].chain[i]
            IN  fa.hash # fb.hash =>
                   /\ StakeHeld(Slashed(fa, fb)) * finalityDen
                          >= (2 * finalityNum - finalityDen) * totalStake
                   /\ Slashed(fa, fb) \cap Nodes = {}

\* Between handlers the pool and its two indexes tell the same story: firstHeight
\* is set exactly for pooled hashes and hashesByValidator lists exactly the
\* hashes each validator has pooled.  A stale index would refuse, or admit
\* beyond the cap, a validator's next attestation (GOSSIP-CENSOR-002).
PoolIndex == \A n \in Nodes : Indexed(node[n])

\* Whatever a node is sent, everything it keeps outside its chain is bounded:
\* blocks by height and number, pooled hashes in total and per validator, and
\* between handlers nothing is buffered outside the window above the head
\* (GOSSIP-BUFFER-001/002, GOSSIP-DOS-001, GOSSIP-CENSOR-002).
BuffersBounded ==
    \A n \in Nodes :
        /\ Bounded(node[n])
        /\ Idle => /\ BufferedAbove(node[n], height(node[n]))
                   /\ BufferedBelow(node[n], height(node[n]) + MAX_FUTURE_HEIGHTS)

\* The pool is in order: indexed right and bounded, so that no order of messages makes a
\* node refuse an honest attestation for want of room or grow without end (onAttestation,
\* bufferFuture, drainBuffered).
PoolInOrder == PoolIndex /\ BuffersBounded

-----------------------------------------------------------------------------
(* The networked ledger implements the abstract specification: its votes   *)
(* are the attestations nodes have broadcast for themselves, its ledgers   *)
(* the hashes of the nodes' chains.                                        *)

HonestVotes ==
    {[validator |-> a.validator, hash |-> a.blockHash] : a \in UNION {VotesOf(n) : n \in Nodes}}

Ledgers == [n \in Nodes |-> [i \in DOMAIN node[n].chain |-> node[n].chain[i].hash]]

Abstract == INSTANCE StakeFinality WITH ballots <- HonestVotes, ledger <- Ledgers

\* Every behaviour of the nodes over any transport is one of StakeFinality.
ImplementsStakeFinality == Abstract!FinalitySpec

-----------------------------------------------------------------------------
(* The inductive invariants.                                               *)

IInv ==
    /\ TypeOK
    /\ \A n \in Nodes : Sound(n, node[n], sent \cup Adversary)

\* The inductive invariant behind PoolInOrder; it needs nothing of the wire but
\* that it carries messages.
PoolInv ==
    /\ TypeOK
    /\ \A n \in Nodes : PoolState(node[n]) /\ DueOK(node[n])
=============================================================================
