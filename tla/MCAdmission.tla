----------------------------- MODULE MCAdmission -----------------------------
(* Instances of Admission for TLC. *)
EXTENDS Admission

Grant(iss, sub, acts, cap, tier, until, deleg) ==
    [issuer |-> iss, subject |-> sub, actions |-> acts, perActionCeiling |-> None,
     aggregateCap |-> cap, counterparties |-> None, maxTier |-> tier,
     notBefore |-> 0, notAfter |-> until, delegable |-> deleg]

read == <<"data", "read">>
pay == <<"pay", "wire">>
mask == <<"data", "mask">>

MCPolicy ==
    [tierRules |-> <<[prefix |-> <<"pay">>, tier |-> 2],
                     [prefix |-> <<"data", "">>, tier |-> 1]>>,
     denyActions |-> {<<"data", "drop">>},
     transformActions |-> {<<"data", "mask">>},
     defaultTier |-> 3]

\* A root for p, what p passes on to agent, and a root for agent that is of no use
\* for payments.
pRoot == Grant("root", "p", {read, pay, mask, <<"boot">>}, 2, 3, 9, TRUE)
agentGrant == Grant("p", "agent", {read, pay, mask, <<"boot">>}, 2, 3, 9, FALSE)
spare == issueRoot(Grant("root", "agent", {read}, None, 1, 9, TRUE), "PS-5")
delegated == attenuate(issueRoot(pRoot, "PS-5"), agentGrant)

Intent(type, amount) == [type |-> type, counterparty |-> None, amount |-> amount]

Claims(nonce, notAfter) ==
    [sessionId |-> "s", nonce |-> nonce, sessionPublicKey |-> "agent",
     format |-> "software", notAfter |-> notAfter]

Evidence(attester, claims, ok) ==
    [format |-> "software", attester |-> attester, suite |-> "PS-5", sealed |-> ok,
     quoteOK |-> FALSE, claims |-> claims]

\* Two good statements, one altered on the way, one of an unknown attester and one
\* for another nonce.
MCEvidences ==
    {Evidence("tee", Claims("n1", 1), TRUE), Evidence("tee", Claims("n1", 2), TRUE),
     Evidence("tee", Claims("n1", 4), FALSE), Evidence("own", Claims("n1", 4), TRUE),
     Evidence("tee", Claims("n0", 4), TRUE)}

\* A session with a key its caller chose.
MadeUp(notAfter) ==
    [sessionId |-> "s", claims |-> Claims("n1", notAfter),
     sessionKey |-> [root |-> "caller", claims |-> Claims("n1", notAfter)]]
MCOutOfBand == {MadeUp(4)}

MCIntents == {Intent(pay, 1), Intent(mask, None), Intent(<<"boot">>, 1)}
MCPresented == {<<spare, delegated>>}

MCProposals ==
    {[kind |-> "revoke", target |-> pRoot, notBefore |-> 0, notAfter |-> 9]}

\* What has just run has no say in what can happen next, and whatever changed with it
\* also changes without it (Admit for guardTool): it is enough to go on from the states
\* in which nothing has just run.
MCNext == ran = None /\ Next
MCSpec == Init /\ [][MCNext]_vars
=============================================================================
