----------------------------- MODULE Settlement -----------------------------
(***************************************************************************)
(* Metering credits (settlement/src/credits.ts): the ledger of one issuer  *)
(* grants credits to accounts and charges them for what they do.  Callers  *)
(* repeat calls whose answer they did not get.  Signing a grant may throw  *)
(* after the account has been credited.  The ledger lives in memory: a     *)
(* restart begins a new one, while the grants signed so far stay in        *)
(* circulation.                                                            *)
(***************************************************************************)
EXTENDS Integers, FiniteSets, FiniteSetsExt

CONSTANTS
    Accounts, GrantNonces, Refs, Amounts, Tiers,
    MAX_SAFE_INTEGER,
    ledgerSuite, CreditSuites,  \* the suite of the ledger; suites in circulation
    activeSuites,
    MaxLedgers      \* bound on the number of restarts

VARIABLES
    balances,       \* account -> credits
    consumedNonces, \* <<account, nonce>>
    meteredRefs,    \* <<account, ref>>
    issued,         \* the grants signed, with the number of the ledger
    booked,         \* what this ledger has credited and charged (for the properties)
    ledgerNo

creditVars == <<balances, consumedNonces, meteredRefs, issued, booked, ledgerNo>>

isSafeAmount(x) == x \in -MAX_SAFE_INTEGER..MAX_SAFE_INTEGER

\* COSTS[tier] ?? 20
tierCost(tier) == CASE tier = 0 -> 1 [] tier = 1 -> 2 [] tier = 2 -> 5 [] OTHER -> 20

CreditInit ==
    /\ balances = [a \in Accounts |-> 0]
    /\ consumedNonces = {} /\ meteredRefs = {}
    /\ issued = {} /\ booked = {} /\ ledgerNo = 0

Grant(account, amount, nonce) ==
    [account |-> account, amount |-> amount, nonce |-> nonce, suite |-> ledgerSuite, issuer |-> "us",
     signed |-> <<ledgerSuite, account, amount, nonce>>]

\* signs is FALSE when the signer throws: the credit and the nonce stay.
grant(account, amount, nonce, signs) ==
    /\ isSafeAmount(amount) /\ amount > 0
    /\ <<account, nonce>> \notin consumedNonces
    /\ balances[account] <= MAX_SAFE_INTEGER - amount
    /\ consumedNonces' = consumedNonces \cup {<<account, nonce>>}
    /\ balances' = [balances EXCEPT ![account] = @ + amount]
    /\ booked' = booked \cup {[kind |-> "grant", account |-> account, key |-> nonce, amount |-> amount]}
    /\ issued' = IF signs THEN issued \cup {<<ledgerNo, Grant(account, amount, nonce)>>} ELSE issued
    /\ UNCHANGED <<meteredRefs, ledgerNo>>

\* Mutant: the ref is marked before the balance is looked at.
meter_MarksFirst(account, cost, ref) ==
    /\ isSafeAmount(cost) /\ cost >= 0
    /\ <<account, ref>> \notin meteredRefs
    /\ meteredRefs' = meteredRefs \cup {<<account, ref>>}
    /\ balances' = IF balances[account] < cost THEN balances
                   ELSE [balances EXCEPT ![account] = @ - cost]
    /\ booked' = IF balances[account] < cost THEN booked
                 ELSE booked \cup {[kind |-> "meter", account |-> account, key |-> ref, amount |-> cost]}
    /\ UNCHANGED <<consumedNonces, issued, ledgerNo>>

meter(account, cost, ref) ==
    /\ isSafeAmount(cost) /\ cost >= 0
    /\ <<account, ref>> \notin meteredRefs
    /\ balances[account] >= cost
    /\ meteredRefs' = meteredRefs \cup {<<account, ref>>}
    /\ balances' = [balances EXCEPT ![account] = @ - cost]
    /\ booked' = booked \cup {[kind |-> "meter", account |-> account, key |-> ref, amount |-> cost]}
    /\ UNCHANGED <<consumedNonces, issued, ledgerNo>>

NewLedger ==
    /\ ledgerNo < MaxLedgers
    /\ ledgerNo' = ledgerNo + 1
    /\ balances' = [a \in Accounts |-> 0]
    /\ consumedNonces' = {} /\ meteredRefs' = {} /\ booked' = {}
    /\ UNCHANGED issued

\* A signature verifies when it is on what the grant says now.
verifyGrant(g, trustedIssuer) ==
    /\ g.issuer = trustedIssuer
    /\ isSafeAmount(g.amount) /\ g.amount > 0
    /\ g.suite \in activeSuites
    /\ g.signed = <<g.suite, g.account, g.amount, g.nonce>>

CreditNext ==
    \/ \E a \in Accounts, x \in Amounts, k \in GrantNonces, s \in BOOLEAN : grant(a, x, k, s)
    \/ \E a \in Accounts, t \in Tiers, r \in Refs : meter(a, tierCost(t), r)
    \/ NewLedger
-----------------------------------------------------------------------------
Booked(kind, a) == {e \in booked : e.kind = kind /\ e.account = a}

\* Whatever calls are repeated or throw halfway, an account holds exactly what was
\* credited less what was charged, each nonce crediting and each ref charging once,
\* and a charge refused for want of credit leaves nothing behind that would refuse
\* it later (grant, meter).
BooksBalance ==
    \A a \in Accounts :
        /\ balances[a] \in 0..MAX_SAFE_INTEGER
        /\ balances[a] = MapThenSumSet(LAMBDA e : e.amount, Booked("grant", a))
                         - MapThenSumSet(LAMBDA e : e.amount, Booked("meter", a))
        /\ \A e, f \in Booked("grant", a) \cup Booked("meter", a) :
              (e.kind = f.kind /\ e.key = f.key) => e = f
        /\ {p \in meteredRefs : p[1] = a} = {<<a, e.key>> : e \in Booked("meter", a)}

\* Grants as they may come back: as signed, or with a field changed on the way.
Circulating ==
    UNION {{i[2]} \cup {[i[2] EXCEPT !.amount = x] : x \in Amounts}
                  \cup {[i[2] EXCEPT !.suite = s] : s \in CreditSuites}
                  \cup {[i[2] EXCEPT !.account = a] : a \in Accounts} : i \in issued}

\* A consumer that trusts the issuer accepts the grants as they were signed and no
\* other, and two accepted grants of one ledger for the same account and nonce are
\* the same grant, so a consumer that keeps nonces credits what the issuer booked
\* (verifyGrant; across ledgers the code asks for a durable store).
GrantsGenuine ==
    /\ \A g \in Circulating : verifyGrant(g, "us") <=> g \in {i[2] : i \in issued}
    /\ \A i, j \in issued :
          (i[1] = j[1] /\ i[2].account = j[2].account /\ i[2].nonce = j[2].nonce) => i = j

\* Credits are sound: the ledger's books balance, and what it signed lets a consumer book
\* the same (grant, meter, verifyGrant).
CreditsSound == BooksBalance /\ GrantsGenuine
=============================================================================
