----------------------------- MODULE GossipBus -----------------------------
(***************************************************************************)
(* GossipNodes over the in-process GossipBus (ledger/src/gossip.ts): one   *)
(* FIFO queue for the whole network, broadcasts to every other registered  *)
(* node the sender can reach at that moment, no retransmission.            *)
(*                                                                         *)
(* Parties that do not run the node code may broadcast the messages in     *)
(* the bursts of Strays, each burst at most once, at any moment.           *)
(***************************************************************************)
EXTENDS GossipNode, SequencesExt

CONSTANTS
    Registered,     \* the nodes in the order they registered their handlers
    Topologies,     \* the reachability relations setReachability may install
    Strays          \* bursts of messages outsiders broadcast

ASSUME BusAssumption ==
    /\ Registered \in Seq(Nodes)
    /\ Topologies \subseteq SUBSET (Nodes \X Nodes)
    /\ Strays \subseteq Seq(GossipMessage)

VARIABLES
    node,
    queue,      \* messages in flight, with their addressees
    reachable,  \* the installed reachability
    strays      \* bursts not yet broadcast

vars == <<node, queue, reachable, strays>>

Item(to, m) == [to |-> to, msg |-> m]

Init ==
    /\ node = [n \in Nodes |-> InitNode]
    /\ queue = <<>>
    /\ reachable \in Topologies
    /\ strays = Strays

Idle == \A n \in Nodes : node[n].due = <<>>

\* Messages are queued for every other node, reachable or not.
Broadcast_Everyone(from, m) ==
    LET addressees == SelectSeq(Registered, LAMBDA to : to # from)
    IN  [i \in DOMAIN addressees |-> Item(addressees[i], m)]

\* bus.broadcast: one queue entry per reachable addressee, in registration order.
Broadcast(from, m) ==
    LET addressees == SelectSeq(Registered, LAMBDA to : to # from /\ <<from, to>> \in reachable)
    IN  [i \in DOMAIN addressees |-> Item(addressees[i], m)]

\* Node n's handler ends in state s after taking its message off queue q.
Commit(n, s, q) ==
    /\ node' = [node EXCEPT ![n] = [s EXCEPT !.out = <<>>]]
    /\ queue' = q \o FlattenSeq([i \in DOMAIN s.out |-> Broadcast(n, s.out[i])])
    /\ UNCHANGED <<reachable, strays>>

ProposeIfLeader(n) ==
    /\ Idle
    /\ \E h \in Proposals(n, node[n]) : Commit(n, proposeIfLeader(n, node[n], h), queue)

\* n leads the next height and can propose a header it does not know yet.
Unproposed(n) ==
    /\ \E h \in Proposals(n, node[n]) : \A b \in node[n].knownBlocks : b.hash # h
    /\ Cardinality(node[n].knownBlocks) < MAX_KNOWN_AT_HEIGHT

\* An attestation that does not verify is queued again.
RunOne_Retry ==
    /\ Idle
    /\ queue # <<>>
    /\ LET item == Head(queue)
           again == item.msg.kind = "attestation" /\ ~item.msg.attestation.valid
       IN  Commit(item.to, onMessage(item.to, node[item.to], item.msg),
                  IF again THEN Append(Tail(queue), item) ELSE Tail(queue))

\* One iteration of bus.run.
RunOne ==
    /\ Idle
    /\ queue # <<>>
    /\ LET item == Head(queue)
       IN  Commit(item.to, onMessage(item.to, node[item.to], item.msg), Tail(queue))

Replay(n) ==
    /\ node[n].due # <<>>
    /\ Commit(n, ReplayDue(n, node[n]), queue)

SetReachability(r) ==
    /\ Idle
    /\ reachable' = r
    /\ UNCHANGED <<node, queue, strays>>

\* An outsider's broadcasts reach every registered node.
Stray(burst) ==
    /\ Idle
    /\ queue' = queue \o FlattenSeq([j \in DOMAIN burst |->
                     [i \in DOMAIN Registered |-> Item(Registered[i], burst[j])]])
    /\ strays' = strays \ {burst}
    /\ UNCHANGED <<node, reachable>>

Next ==
    \/ RunOne
    \/ \E n \in Nodes : ProposeIfLeader(n) \/ Replay(n)
    \/ \E r \in Topologies : SetReachability(r)
    \/ \E burst \in strays : Stray(burst)

\* bus.run is driven until the queue is empty, a handler always completes,
\* and every leader is eventually asked to propose.  Each conjunct is
\* WF_vars of its action with ENABLED <<action>>_vars written out, so that TLC
\* need not evaluate ENABLED of a whole handler.
Fairness ==
    /\ []<>~(Idle /\ queue # <<>>) \/ []<><<RunOne>>_vars
    /\ \A n \in Nodes :
          /\ []<>(node[n].due = <<>>) \/ []<><<Replay(n)>>_vars
          /\ []<>~(Idle /\ Unproposed(n)) \/ []<><<ProposeIfLeader(n)>>_vars

Spec == Init /\ [][Next]_vars
FairSpec == Spec /\ Fairness

-----------------------------------------------------------------------------
TopHeight == CHOOSE k \in Heights : \A j \in Heights : j <= k

\* With every validator running the node code and no partition, the chain
\* reaches every height at every node, even when a leader proposes twice.
Converges == \A n \in Nodes : <>(height(node[n]) = TopHeight + 1)

\* Nothing is left to do: every message has been delivered, every outsider has
\* spoken and every leader has proposed all it can.
Quiescent ==
    /\ Idle
    /\ queue = <<>>
    /\ strays = {}
    /\ \A n \in Nodes : ~Unproposed(n)

\* A block of a validator that does not lead the height costs a signature and
\* some bandwidth, "a wasted-signing / gossip-amplification nuisance": when
\* nothing is left to do, the chain has reached every height.
StraysAreHarmless == Quiescent => \A n \in Nodes : height(node[n]) = TopHeight + 1

\* bus.run terminates: flooding each message once, the network falls silent
\* again and again (the "gossip did not converge" error is unreachable).
Quiesces == []<>(queue = <<>>)

\* The nodes n hears from, n itself, and the outsiders, whom everybody hears.
Side(r, n) == {m \in Nodes : m = n \/ <<m, n>> \in r} \cup (Validators \ Nodes)

\* In a network that stays partitioned from the start, a side below the finality
\* fraction finalizes nothing (what was sent before a partition still arrives).
NoSplitBrain ==
    \A r \in Topologies :
        [](reachable = r) =>
            [](\A n \in Nodes : ~stakeMet(Side(r, n)) => node[n].chain = <<>>)
=============================================================================
