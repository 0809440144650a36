----------------------------- MODULE Delegation -----------------------------
(***************************************************************************)
(* Capability chains in circulation.                                       *)
(*                                                                         *)
(* Authorities issue roots and honest holders delegate, with issueRoot and *)
(* attenuate.  Everybody else signs what they like with their own keys,    *)
(* alters links (which breaks their seal) and puts links of any origin     *)
(* after one another: a link does not name its parent, so a capability is  *)
(* whatever sequence of links somebody presents.  Splice builds all of     *)
(* them, one link at a time.                                               *)
(***************************************************************************)
EXTENDS Capabilities, FiniteSets

CONSTANTS
    Authorities,    \* the trusted root keys
    Holders,        \* keys of honest holders
    Suites,         \* suites with a signer, active or not
    RootSpecs,      \* grants an authority may be asked to issue
    Restrictions,   \* what a holder may ask attenuate for
    Subjects,       \* keys a holder may delegate to
    WireLinks,      \* links that parties outside Authorities and Holders make
    IntentSpace, Contexts,  \* what NoAmplification and AuthorityBacked range over
    MaxCaps, MaxLen     \* bounds on the number and length of chains

ASSUME DelegationAssumption ==
    /\ \A g \in RootSpecs : g.issuer \in Authorities
    /\ \A l \in WireLinks : l.sealed => l.signer \notin Authorities \cup Holders

VARIABLES
    caps,       \* chains that have been presented
    signed,     \* links authorities and honest holders have signed
    made        \* chains issueRoot and attenuate have returned

chainVars == <<caps, signed, made>>

ChainInit ==
    /\ caps = {}
    /\ signed = {}
    /\ made = {}

Links == signed \cup WireLinks

\* Both bounds of the model.
Room(chain) == Cardinality(caps \cup {chain}) <= MaxCaps /\ Len(chain) <= MaxLen

\* An honest party signs the last link of chain and hands the chain out.
HandOut(chain) ==
    /\ Room(chain)
    /\ caps' = caps \cup {chain}
    /\ signed' = signed \cup {tail(chain)}
    /\ made' = made \cup {chain}

IssueRoot(spec, suite) == HandOut(issueRoot(spec, suite))

Attenuate(delegator, chain, restriction, newSubject) ==
    LET parent == tail(chain).grant
        child == narrow(parent, restriction, parent.subject, newSubject)
    IN  /\ CanAttenuate(chain, child, delegator)
        /\ HandOut(attenuate(chain, child))

Splice(chain, link) ==
    /\ Room(Append(chain, link))
    /\ caps' = caps \cup {Append(chain, link)}
    /\ UNCHANGED <<signed, made>>

ChainNext ==
    \/ \E spec \in RootSpecs, suite \in Suites : IssueRoot(spec, suite)
    \/ \E delegator \in Holders, chain \in caps, r \in Restrictions, s \in Subjects :
          Attenuate(delegator, chain, r, s)
    \/ \E chain \in caps \cup {<<>>}, link \in Links : Splice(chain, link)

ChainSpec == ChainInit /\ [][ChainNext]_chainVars
-----------------------------------------------------------------------------
TypeOK ==
    /\ caps \subseteq Seq(Links) \ {<<>>}
    /\ made \subseteq caps
    /\ \A l \in signed : l.sealed /\ l.grant.issuer = l.signer

\* Whatever the tail of a verified chain authorizes, every grant above it
\* authorizes: "attenuation never amplifies authority" (grant.ts), for chains of
\* any length and origin.
NoAmplification ==
    \A c \in caps : verifyChain(c, Authorities) =>
        \A i \in IntentSpace, ctx \in Contexts :
            authorizesIntent(effectiveGrant(c), i, ctx) =>
                \A k \in 1..Len(c) : authorizesIntent(c[k].grant, i, ctx)

\* What verifyChain accepts goes back to a grant an authority issued, unaltered,
\* and that grant by itself authorizes whatever the chain is good for.
AuthorityBacked ==
    \A c \in caps : verifyChain(c, Authorities) =>
        \A i \in IntentSpace, ctx \in Contexts :
            authorizesIntent(effectiveGrant(c), i, ctx) =>
                \E l \in signed : /\ l.signer \in Authorities
                                  /\ authorizesIntent(l.grant, i, ctx)

\* Authority leaves an honest holder only by a delegation that holder signed:
\* below a grant held by an honest holder, verifyChain accepts nothing else.
ConsentOfHolders ==
    \A c \in caps : verifyChain(c, Authorities) =>
        \A k \in 2..Len(c) : c[k - 1].grant.subject \in Holders => c[k] \in signed

\* A chain issueRoot or attenuate returned verifies, unless it was built on one
\* that does not, is too long, or names a suite that signs but is not active.
HelpersVerify ==
    \A c \in made :
        /\ Len(c) <= MAX_CHAIN_LINKS
        /\ c[1].suite \in ActiveSuites
        /\ Len(c) > 1 => verifyChain(SubSeq(c, 1, Len(c) - 1), Authorities)
        => verifyChain(c, Authorities)

\* The strengthening: in a verified chain the last grant narrows all above it.
TailNarrows ==
    \A c \in caps : verifyChain(c, Authorities) =>
        \A k \in 1..(Len(c) - 1) : Narrows(effectiveGrant(c), c[k].grant)

IInv == TypeOK /\ TailNarrows /\ HelpersVerify

\* "Revoking a root also revokes its delegated children" (kernel/src/types.ts):
\* a chain that ends in a delegated link contains the grants it was delegated
\* from, so that the revocation of any of them reaches it.
ChildrenFollowTheirRoot ==
    \A m \in made, c \in caps \ made :
        (tail(c) = tail(m) /\ verifyChain(c, Authorities)) =>
            \A j \in 1..(Len(m) - 1) : \E k \in 1..Len(c) : c[k].grant = m[j].grant
=============================================================================
