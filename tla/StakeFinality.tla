--------------------------- MODULE StakeFinality ---------------------------
(***************************************************************************)
(* What the networked ledger promises, without messages, pools or buffers: *)
(* honest validators cast at most one vote per height, and an honest       *)
(* ledger grows by a block that extends its head and that a quorum of      *)
(* stake supports.  Validators that do not run the node code are taken to  *)
(* support everything.                                                     *)
(***************************************************************************)
EXTENDS Ledger

VARIABLES
    ballots,    \* votes cast by honest nodes
    ledger      \* the hashes each honest node has finalized, in order

finalityVars == <<ballots, ledger>>

VoteFor(n, h) == [validator |-> n, hash |-> h]

FinalityType ==
    /\ ballots \subseteq [validator : Nodes, hash : Hashes]
    /\ ledger \in [Nodes -> Seq(Hashes)]

FinalityInit ==
    /\ ballots = {}
    /\ ledger = [n \in Nodes |-> <<>>]

HeadOf(n) == IF ledger[n] = <<>> THEN Genesis ELSE ledger[n][Len(ledger[n])]

\* The validators that support h when V are the honest ballots.
Supporters(h, V) == {v \in Validators : v \in Nodes => VoteFor(v, h) \in V}

CanVote(n, h) ==
    /\ Height[h] = Len(ledger[n])
    /\ \A w \in ballots : w.validator = n => Height[w.hash] # Height[h]

CanFinalize(n, h, V) ==
    /\ Height[h] = Len(ledger[n])
    /\ Prev[h] = HeadOf(n)
    /\ stakeMet(Supporters(h, V))

CastVote(n, h) ==
    /\ CanVote(n, h)
    /\ ballots' = ballots \cup {VoteFor(n, h)}
    /\ UNCHANGED ledger

Finalize(n, h) ==
    /\ CanFinalize(n, h, ballots)
    /\ ledger' = [ledger EXCEPT ![n] = Append(@, h)]
    /\ UNCHANGED ballots

\* The node's own vote completes the quorum within one handler.
VoteAndFinalize(n, h) ==
    /\ CanVote(n, h)
    /\ ballots' = ballots \cup {VoteFor(n, h)}
    /\ CanFinalize(n, h, ballots \cup {VoteFor(n, h)})
    /\ ledger' = [ledger EXCEPT ![n] = Append(@, h)]

FinalityNext ==
    \E n \in Nodes, h \in Hashes :
        \/ CastVote(n, h)
        \/ Finalize(n, h)
        \/ VoteAndFinalize(n, h)

FinalitySpec == FinalityInit /\ [][FinalityNext]_finalityVars

-----------------------------------------------------------------------------
\* Honest ledgers agree on every height both have finalized.
LedgersAgree ==
    MinorityAdversary =>
        \A m, n \in Nodes : \A i \in DOMAIN ledger[m] \cap DOMAIN ledger[n] :
            ledger[m][i] = ledger[n][i]

\* The inductive invariant: honest validators vote once per height, and every
\* finalized block sits at its height with a quorum of supporters.
VotesOnce ==
    \A w, x \in ballots :
        w.validator = x.validator /\ Height[w.hash] = Height[x.hash] => w.hash = x.hash

Supported ==
    \A n \in Nodes : \A i \in DOMAIN ledger[n] :
        /\ Height[ledger[n][i]] = i - 1
        /\ stakeMet(Supporters(ledger[n][i], ballots))

FinalityInv == FinalityType /\ VotesOnce /\ Supported
=============================================================================
