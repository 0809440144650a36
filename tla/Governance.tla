----------------------------- MODULE Governance -----------------------------
(***************************************************************************)
(* M-of-N governance and the revocation registry.                          *)
(*                                                                         *)
(* An aggregator nobody has to trust collects approvals of a proposal in   *)
(* any order, with junk among them, and puts the list to the registry.     *)
(* valid says that the signature of an approval verifies under the signer  *)
(* for the proposal it names, in this quorum and suite; only the signer    *)
(* makes such a signature, and members records who did (consents).         *)
(***************************************************************************)
EXTENDS Integers, Sequences, FiniteSets, FiniteSetsExt

CONSTANTS
    Proposals,      \* records: kind, target, notBefore, notAfter
    members,        \* the keys of quorum.members
    threshold,
    Others,         \* other keys under which approvals arrive
    VERIFIES_PER_MEMBER, MIN_VERIFIES,  \* 4 and 256 in enact
    MaxApprovals,   \* bound on the number of approvals collected
    MaxTime

ASSUME GovernanceAssumption ==
    /\ IsFiniteSet(members) /\ members \cap Others = {}
    /\ threshold \in Nat \ {0}
    /\ VERIFIES_PER_MEMBER \in Nat /\ MIN_VERIFIES \in Nat
    /\ MaxTime \in Nat
    /\ \A p \in Proposals : p.notBefore \in Int /\ p.notAfter \in Int

VARIABLES
    now,
    approvals,      \* proposal -> the list collected so far
    consents,       \* <<member, proposal>>: what members have signed
    revoked         \* the registry

govVars == <<now, approvals, consents, revoked>>

Approval == [proposal : Proposals, signer : members \cup Others, valid : BOOLEAN]

verifyApproval(p, a) == a.proposal = p /\ a.valid

maxVerifies ==
    LET perQuorum == Cardinality(members) * VERIFIES_PER_MEMBER
    IN  IF perQuorum > MIN_VERIFIES THEN perQuorum ELSE MIN_VERIFIES

\* Mutant: junk that is skipped uses up the budget.
CountApproval_SkipsCost(p, acc, a) ==
    IF Cardinality(acc.valid) >= threshold \/ acc.verifies >= maxVerifies
    THEN acc
    ELSE [valid |-> acc.valid \cup {s \in {a.signer} \cap members : verifyApproval(p, a)},
          verifies |-> acc.verifies + 1]

\* One round of the loop of enact.
CountApproval(p, acc, a) ==
    IF \/ Cardinality(acc.valid) >= threshold
       \/ a.signer \notin members
       \/ a.signer \in acc.valid
       \/ acc.verifies >= maxVerifies
    THEN acc
    ELSE [valid |-> acc.valid \cup {s \in {a.signer} : verifyApproval(p, a)},
          verifies |-> acc.verifies + 1]

\* What enact has counted after each number of rounds.
CountLoop(p, list) ==
    LET count[n \in 0..Len(list)] ==
          IF n = 0 THEN [valid |-> {}, verifies |-> 0]
          ELSE CountApproval(p, count[n - 1], list[n])
    IN  count

distinctValid(p, list) == CountLoop(p, list)[Len(list)].valid

inWindow(p) == p.notBefore <= now /\ now <= p.notAfter

enact(p, list) ==
    /\ inWindow(p)
    /\ Cardinality(distinctValid(p, list)) >= threshold

GovInit ==
    /\ now = 0
    /\ approvals = [p \in Proposals |-> <<>>]
    /\ consents = {}
    /\ revoked = {}

Collected == MapThenSumSet(LAMBDA q : Len(approvals[q]), Proposals)

Collect(p, a) ==
    /\ Collected < MaxApprovals
    /\ approvals' = [approvals EXCEPT ![p] = Append(@, a)]

\* A member signs p and the approval reaches the aggregator.
Approve(m, p) ==
    /\ Collect(p, [proposal |-> p, signer |-> m, valid |-> TRUE])
    /\ consents' = consents \cup {<<m, p>>}
    /\ UNCHANGED <<now, revoked>>

\* Something else reaches it: a copy, an approval of another proposal, one whose
\* signature does not verify, or one of a key outside the quorum.
Stray(p, a) ==
    /\ (a.valid /\ a.signer \in members) => <<a.signer, a.proposal>> \in consents
    /\ Collect(p, a)
    /\ UNCHANGED <<now, consents, revoked>>

enactRevocation(p) ==
    /\ p.kind = "revoke"
    /\ enact(p, approvals[p])
    /\ revoked' = revoked \cup {p.target}
    /\ UNCHANGED <<now, approvals, consents>>

Tick ==
    /\ now < MaxTime
    /\ now' = now + 1
    /\ UNCHANGED <<approvals, consents, revoked>>

GovNext ==
    \/ \E p \in Proposals : enactRevocation(p)
    \/ \E m \in members, p \in Proposals : Approve(m, p)
    \/ \E p \in Proposals, a \in Approval : Stray(p, a)
    \/ Tick

GovSpec == GovInit /\ [][GovNext]_govVars
-----------------------------------------------------------------------------
Supporters(p) == {m \in members : <<m, p>> \in consents}

\* Nothing is revoked without the consent of threshold distinct members to a
\* revocation of it, whatever the aggregator puts in the list (enact).
RevocationQuorum ==
    \A t \in revoked : \E p \in Proposals :
        /\ p.kind = "revoke" /\ p.target = t
        /\ Cardinality(Supporters(p)) >= threshold

\* Approvals of p in the list that verify, and those that cost a verification
\* without counting.
Genuine(p) == {i \in DOMAIN approvals[p] :
                  verifyApproval(p, approvals[p][i]) /\ approvals[p][i].signer \in members}
Wasted(p) == {i \in DOMAIN approvals[p] :
                  ~verifyApproval(p, approvals[p][i]) /\ approvals[p][i].signer \in members}

\* Junk does not keep a genuine quorum from enacting (enact): with approvals of
\* threshold members anywhere in the list the proposal is enacted in its window, as
\* long as the junk that carries a member's name leaves threshold of the
\* verifications enact is ready to spend.
GenuineQuorumEnacts ==
    \A p \in Proposals :
        /\ inWindow(p)
        /\ Cardinality({approvals[p][i].signer : i \in Genuine(p)}) >= threshold
        /\ Cardinality(Wasted(p)) + threshold <= maxVerifies
        => enact(p, approvals[p])

\* A revocation is decided by its quorum: it takes one, and one is enough, whatever else
\* the aggregator puts in the list and in which order (enact, enactRevocation).
QuorumDecides == RevocationQuorum /\ GenuineQuorumEnacts
=============================================================================
