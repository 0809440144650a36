---------------------------- MODULE MCDelegation ----------------------------
(* Instances of Delegation for TLC. *)
EXTENDS Delegation, TLC

CONSTANTS root, p, x, read, pay, shop

Grant(iss, sub, acts, ceil, cap, cps, tier, until, deleg) ==
    [issuer |-> iss, subject |-> sub, actions |-> acts, perActionCeiling |-> ceil,
     aggregateCap |-> cap, counterparties |-> cps, maxTier |-> tier,
     notBefore |-> 0, notAfter |-> until, delegable |-> deleg]

\* To p: a wide grant, a narrow one, one that may not be delegated, and one with a
\* malformed tier.
MCRootSpecs ==
    {Grant(root, p, {read, pay}, None, 2, None, 2, 2, TRUE),
     Grant(root, p, {pay}, 1, None, {shop}, 1, 1, TRUE),
     Grant(root, p, {read}, None, None, None, 1, 2, FALSE),
     Grant(root, p, {read}, None, None, None, NaN, 2, TRUE)}

NoRestriction ==
    [actions |-> None, perActionCeiling |-> None, aggregateCap |-> None,
     counterparties |-> None, maxTier |-> None, notBefore |-> None,
     notAfter |-> None, delegable |-> None]

\* Requests that narrow, that try to widen, and that are malformed.
MCRestrictions ==
    {NoRestriction,
     [NoRestriction EXCEPT !.actions = {pay}, !.perActionCeiling = 2, !.maxTier = 3],
     [NoRestriction EXCEPT !.notAfter = 9, !.counterparties = {shop}, !.delegable = FALSE],
     [NoRestriction EXCEPT !.aggregateCap = NaN]}

Wire(g, signer, ok) == [grant |-> g, suite |-> "PS-5", signer |-> signer, sealed |-> ok]

\* x signs delegations of what p may have given to it, wider ones, a root of its
\* own and a grant in the name of p; somebody alters a root of the authority.
MCWireLinks ==
    {Wire(Grant(x, x, {pay}, 1, 2, {shop}, 1, 1, TRUE), x, TRUE),
     Wire(Grant(x, x, {read, pay}, None, None, None, 2, 2, TRUE), x, TRUE),
     Wire(Grant(p, x, {pay}, 1, 2, {shop}, 1, 1, TRUE), x, TRUE),
     Wire(Grant(p, x, {pay}, 1, 2, {shop}, 1, 1, TRUE), p, FALSE),
     Wire(Grant(root, x, {read, pay}, None, None, None, 2, 2, TRUE), root, FALSE)}

MCIntents ==
    [type : {read, pay}, counterparty : {None, shop}, amount : {None, 1, 2, NaN}]

MCContexts == [now : 0..3, tier : {0, 1, 2}, observedAggregate : {0, 1}]

\* Two roots for p that differ in the ceiling only.
TwoRoots ==
    {Grant(root, p, {pay}, 1, None, None, 1, 1, TRUE),
     Grant(root, p, {pay}, 2, None, None, 1, 1, TRUE)}
=============================================================================
