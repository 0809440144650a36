------------------------ MODULE GossipNetworkProofs ------------------------
(***************************************************************************)
(* The theorems about the networked ledger, for any stake assignment, any  *)
(* finality fraction, any tree of headers and any transport.               *)
(***************************************************************************)
EXTENDS FinalityProofs, GossipProofs

\* Every step is the end of a handler of one node, which left the node's state
\* sound and did no more than Handled allows.
LEMMA StepsAreHandled ==
    ASSUME IInv, Next
    PROVE  \E n \in Nodes : \E r \in NodeState : /\ Commit(n, r)
                                                 /\ Sound(n, r, Wire)
                                                 /\ Handled(n, node[n], r, Wire)
<1>1. Wire \subseteq GossipMessage
  BY WireMessages, Zenon DEF IInv
<1>2. \A n \in Nodes : Sound(n, node[n], Wire) /\ node[n] \in NodeState
  BY Zenon DEF IInv, Wire, Sound
<1>3. ASSUME NEW n \in Nodes, NEW r, Commit(n, r), Sound(n, r, Wire),
             Handled(n, node[n], r, Wire)
      PROVE  \E k \in Nodes : \E t \in NodeState : /\ Commit(k, t)
                                                   /\ Sound(k, t, Wire)
                                                   /\ Handled(k, node[k], t, Wire)
  BY <1>3, Zenon DEF Sound
<1>4. CASE \E n \in Nodes : ProposeIfLeader(n)
  <2>1. PICK n \in Nodes : ProposeIfLeader(n)
    BY <1>4, Zenon
  <2>2. PICK h \in Hashes : Commit(n, proposeIfLeader(n, node[n], h))
    BY <2>1, Zenon DEF ProposeIfLeader, Proposals
  <2>3. node[n].due = <<>>
    BY <2>1, Zenon DEF ProposeIfLeader, Idle
  <2>4. Sound(n, proposeIfLeader(n, node[n], h), Wire)
    BY <1>1, <1>2, <2>3, ProposeSound, Zenon
  <2>5. Handled(n, node[n], proposeIfLeader(n, node[n], h), Wire)
    BY <1>2, <2>3, ProposeHandled, Zenon
  <2>6. QED
    BY <1>3, <2>2, <2>4, <2>5, Zenon
<1>5. CASE \E n \in Nodes : \E m \in Wire : Deliver(n, m)
  <2>1. PICK n \in Nodes, m \in Wire : Deliver(n, m)
    BY <1>5, Zenon
  <2>2. Commit(n, onMessage(n, node[n], m)) /\ node[n].due = <<>>
    BY <2>1, Zenon DEF Deliver, Idle
  <2>3. Sound(n, onMessage(n, node[n], m), Wire)
    BY <1>1, <1>2, <2>2, OnMessageSound, Zenon
  <2>4. Handled(n, node[n], onMessage(n, node[n], m), Wire)
    BY <1>1, <1>2, <2>2, OnMessageHandled, Zenon
  <2>5. QED
    BY <1>3, <2>2, <2>3, <2>4, Zenon
<1>6. CASE \E n \in Nodes : Replay(n)
  <2>1. PICK n \in Nodes : Replay(n)
    BY <1>6, Zenon
  <2>2. Commit(n, ReplayDue(n, node[n])) /\ node[n].due # <<>>
    BY <2>1, Zenon DEF Replay
  <2>3. Sound(n, ReplayDue(n, node[n]), Wire)
    BY <1>1, <1>2, <2>2, ReplaySound, Zenon
  <2>4. Handled(n, node[n], ReplayDue(n, node[n]), Wire)
    BY <1>2, <2>2, ReplayHandled, Zenon
  <2>5. QED
    BY <1>3, <2>2, <2>3, <2>4, Zenon
<1>7. QED
  BY <1>4, <1>5, <1>6, Zenon DEF Next, Wire

\* Every step preserves the invariant.
LEMMA NextIInv == IInv /\ [Next]_vars => IInv'
<1> SUFFICES ASSUME IInv, [Next]_vars PROVE IInv'
  OBVIOUS
<1>1. CASE Next
  BY <1>1, StepsAreHandled, CommitIInv, Zenon
<1>2. CASE UNCHANGED vars
  BY <1>2, ZenonT(60) DEF vars, IInv, TypeOK
<1>3. QED
  BY <1>1, <1>2, Zenon

\* IInv holds in every reachable state.
THEOREM Invariance == Spec => []IInv
<1>1. QED
  BY InitIInv, NextIInv, PTL DEF Spec

-----------------------------------------------------------------------------
(* Consequences of the invariant.                                          *)

\* Every node's state has the shape GossipNode declares and every handler
\* hands all it broadcasts to the transport before the next one runs.
THEOREM TypeCorrectness == Spec => []TypeOK
<1>1. IInv => TypeOK
  BY Zenon DEF IInv
<1>2. QED
  BY <1>1, Invariance, PTL

\* An honest node signs at most one block per height, whatever it is sent.
THEOREM VoteOnce == Spec => []HonestVoteOnce
<1>1. QED
  BY IInvVoteOnce, Invariance, PTL

\* Every block of an honest ledger passes verifyFinalized again from what the
\* ledger stored, on its predecessor and at its position.
THEOREM Reverifies == Spec => []FinalityReverifies
<1>1. QED
  BY IInvReverifies, Invariance, PTL

\* Honest ledgers never finalize different blocks at one height while the
\* validators outside Nodes hold less than the share two quorums must have in
\* common (less than a third, for the default 2/3).
THEOREM AgreementHolds == Spec => []Agreement
<1>1. QED
  BY IInvAgreement, Invariance, PTL

\* Accountable safety: if honest ledgers ever finalize different blocks at one
\* height, detectEquivocations and slash, fed the attestations the ledgers
\* stored, convict validators with the whole share two quorums have in common
\* and no node that runs this code.  The set must fit the caps of those two
\* functions (4096 in the code).
THEOREM Accountability == CapsCoverValidators => (Spec => []AccountableSafety)
<1> SUFFICES ASSUME CapsCoverValidators PROVE Spec => []AccountableSafety
  OBVIOUS
<1>1. IInv => AccountableSafety
  BY IInvAccountable
<1>2. QED
  BY <1>1, Invariance, PTL

-----------------------------------------------------------------------------
(* Pool, buffers and refinement.                                           *)

\* The pool stays in order: whatever a node is sent, the two indexes of its pool
\* agree with the pool and everything it keeps outside its chain is bounded by
\* the caps of gossip.ts, whatever their values.
THEOREM PoolOrdered == Spec => []PoolInOrder
<1>1. IInv /\ PoolInv /\ [Next]_vars => PoolInv'
  <2> SUFFICES ASSUME IInv, PoolInv, [Next]_vars PROVE PoolInv'
    OBVIOUS
  <2>1. IInv'
    BY NextIInv, Zenon
  <2>2. TypeOK'
    BY <2>1, Zenon DEF IInv
  <2>3. CASE Next
    BY <2>2, <2>3, StepsAreHandled, CommitPoolInv, Zenon
  <2>4. CASE UNCHANGED vars
    BY <2>4, ZenonT(60) DEF vars, PoolInv, TypeOK
  <2>5. QED
    BY <2>3, <2>4, Zenon
<1>2. QED
  BY <1>1, InitPoolInv, PoolInvOrder, Invariance, PTL DEF Spec

\* The nodes over any transport implement StakeFinality: under the refinement
\* mapping a handler casts at most the node's one vote of its height, finalizes
\* at most the block that extends the node's head with a quorum behind it, or
\* shows nothing.
THEOREM Refinement == Spec => ImplementsStakeFinality
<1>1. IInv /\ [Next]_vars => [Abstract!FinalityNext]_(Abstract!finalityVars)
  <2> SUFFICES ASSUME IInv, [Next]_vars PROVE [Abstract!FinalityNext]_(Abstract!finalityVars)
    OBVIOUS
  <2>1. CASE Next
    BY <2>1, StepsAreHandled, CommitShown, Zenon
  <2>2. CASE UNCHANGED vars
    <3>1. HonestVotes' = HonestVotes /\ Ledgers' = Ledgers
      BY <2>2, Zenon DEF vars, HonestVotes, VotesOf, Ledgers
    <3>2. QED
      BY <3>1, Zenon DEF Abstract!finalityVars
  <2>3. QED
    BY <2>1, <2>2, Zenon
<1>2. QED
  BY <1>1, InitShown, Invariance, PTL DEF Spec, ImplementsStakeFinality, Abstract!FinalitySpec
=============================================================================
