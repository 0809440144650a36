----------------------------- MODULE MCRecords ------------------------------
(* Instances for TLC of the parts that keep or carry records: the transparency log,
   the tree of revocations, metering credits, narrowed permits, disclosure proofs, negotiated suites, signed
   and sealed messages, identifiers and credentials. *)
EXTENDS TreeHeads, PersistentLog, RevocationTree, Settlement, Caveats, Disclosure, Envelopes,
        Profile

Verdict(i) ==
    [suite |-> "PS-5", effect |-> "allow", tier |-> i % 4, intent |-> i,
     capability |-> "cap", policy |-> "p"]

R(i) == buildReceipt(Verdict(i), i, "issuer")

\* Six receipts in a log, and logs in which one of the first entries is another.
Base == [i \in 1..6 |-> receiptLeaf(R(i))]
Other == receiptLeaf(R(9))
MCViews ==
    {Take(Base, k) : k \in 0..6} \cup {[Take(Base, k) EXCEPT ![2] = Other] : k \in 2..5}
        \cup {[Take(Base, k) EXCEPT ![k] = Other] : k \in {3, 5}}

Claim(size, view) == [size |-> size, root |-> merkleRoot(view)]
MCClaims ==
    {Claim(Len(v), v) : v \in MCViews} \cup {Claim(k, Take(Base, 3)) : k \in {0, 2, 4}}

\* A good receipt, one signed with another key and one under a made-up suite.
MCShown ==
    {R(2), R(9), [R(3) EXCEPT !.signedBy = "other"],
     [R(3) EXCEPT !.signedBy = "other", !.signerPublicKey = "other"],
     [R(4) EXCEPT !.body.suite = "PS-0"]}

\* Ids that share an index, ids next to each other and one shorter than an index.
MCCapIds == {<<0, 0, 1>>, <<0, 0, 1, 1>>, <<0, 0, 0>>, <<1>>, <<1, 1, 0, 1>>}

MCEntries == {<<1>>, <<1, 2>>}

MCCaveats ==
    {[kind |-> "expiresAtMost", value |-> 1], [kind |-> "amountAtMost", value |-> 2],
     [kind |-> "actionPrefix", value |-> <<"pay", "card">>], [kind |-> "counterpartyIs", value |-> "bob"]}
Req(now, amount, counterparty, type) ==
    [now |-> now, amount |-> amount, counterparty |-> counterparty, type |-> type]
MCRequests ==
    {Req(1, 2, "bob", <<"pay", "card", "buy">>), Req(2, 2, "bob", <<"pay", "card">>), Req(3, 2, "bob", <<"pay", "card">>),
     Req(1, 3, "bob", <<"pay", "card">>), Req(1, 2, "eve", <<"pay", "card">>), Req(1, 2, "bob", <<"pay">>)}

MCSets == {<<0, 1>>, <<3, 14>>, <<7>>, <<>>}
MCBounds == [ceiling : {-1, 1, 3}, aggregate : {Nil, 0, 2}, cap : {Nil, 2, 3}]
MCIntents == [amount : {Nil, 0, 3}, resource : {"r", "s"}]

MCOffers == {<<"PS_1", "PS_5">>, <<"PS_1">>, <<"PS_1", "PS_5_HQC">>}

MCPublicKeys == UNION {[1..k -> {0, 1, 4, 7}] : k \in 0..3}
MCTimes == -7..7 \cup {NotFinite}
-----------------------------------------------------------------------------
\* The parts share no variable: each is explored while the others are in their initial
\* state.
MCInit ==
    HeadsInit /\ LogInit /\ TreeInit /\ CreditInit /\ CaveatInit /\ DisclosureInit
        /\ NegotiationInit /\ EnvelopesInit /\ ProfileInit

TablesInit == DisclosureInit /\ NegotiationInit /\ EnvelopesInit /\ ProfileInit
tableVars == <<claim, sessions, object, shown>>

MCNext ==
    \/ LogInit /\ TreeInit /\ CreditInit /\ CaveatInit /\ TablesInit /\ HeadsNext
       /\ UNCHANGED <<logVars, treeVars, creditVars, caveatVars, tableVars>>
    \/ HeadsInit /\ TreeInit /\ CreditInit /\ CaveatInit /\ TablesInit /\ LogNext
       /\ UNCHANGED <<sths, treeVars, creditVars, caveatVars, tableVars>>
    \/ HeadsInit /\ LogInit /\ CreditInit /\ CaveatInit /\ TablesInit /\ TreeNext
       /\ UNCHANGED <<sths, logVars, creditVars, caveatVars, tableVars>>
    \/ HeadsInit /\ LogInit /\ TreeInit /\ CaveatInit /\ TablesInit /\ CreditNext
       /\ UNCHANGED <<sths, logVars, treeVars, caveatVars, tableVars>>
    \/ HeadsInit /\ LogInit /\ TreeInit /\ CreditInit /\ TablesInit /\ CaveatNext
       /\ UNCHANGED <<sths, logVars, treeVars, creditVars, tableVars>>
    \/ /\ HeadsInit /\ LogInit /\ TreeInit /\ CreditInit /\ CaveatInit
       /\ \/ NegotiationInit /\ EnvelopesInit /\ ProfileInit /\ DisclosureNext /\ UNCHANGED <<sessions, object, shown>>
          \/ DisclosureInit /\ EnvelopesInit /\ ProfileInit /\ NegotiationNext /\ UNCHANGED <<claim, object, shown>>
          \/ DisclosureInit /\ NegotiationInit /\ ProfileInit /\ EnvelopesNext /\ UNCHANGED <<claim, sessions, shown>>
          \/ DisclosureInit /\ NegotiationInit /\ EnvelopesInit /\ ProfileNext /\ UNCHANGED <<claim, sessions, object>>
       /\ UNCHANGED <<sths, logVars, treeVars, creditVars, caveatVars>>
=============================================================================
