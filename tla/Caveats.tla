------------------------------ MODULE Caveats ------------------------------
(***************************************************************************)
(* Permit caveats (planes/src/caveat.ts): a holder narrows a permit        *)
(* without asking anybody and hands the narrower one on; the resource      *)
(* recomputes the chain of MACs from the audience key.                     *)
(*                                                                         *)
(* The base permit is one the kernel issued for this audience and action,  *)
(* good until baseExp; verifyPermitForAction is modelled in Admission.     *)
(* HMAC is injective and cannot be made without its key: a MAC is the      *)
(* chain of caveats folded over the root, and only somebody who has a MAC  *)
(* extends it.  Holders keep and pass on what they received, and present   *)
(* any list of caveats with any MAC they can make.                         *)
(***************************************************************************)
EXTENDS Integers, Sequences, SequencesExt, FiniteSets

CONSTANTS
    Holders, firstHolder,
    CaveatKinds,    \* caveats that holders add: kind and value
    baseExp,        \* expiry of the base permit
    Requests,       \* checks the resource makes: now, amount, counterparty, type
    MAX_CAVEATS,
    MaxHandovers    \* bound on the permits passed on

VARIABLES
    held,       \* holder -> the permits it was given: caveats and mac
    handovers

caveatVars == <<held, handovers>>

RootMac == <<>>

chainMac(mac, caveats) == mac \o caveats

attenuate(permit, caveat) ==
    [caveats |-> Append(permit.caveats, caveat), mac |-> chainMac(permit.mac, <<caveat>>)]

\* Amounts and times are safe integers here; an entry of another kind fails closed.
enforceCaveat(c, request) ==
    CASE c.kind = "expiresAtMost" -> request.now <= c.value
      [] c.kind = "amountAtMost" -> c.value >= 0 /\ request.amount >= 0 /\ request.amount <= c.value
      [] c.kind = "counterpartyIs" -> request.counterparty = c.value
      [] c.kind = "actionPrefix" -> IsPrefix(c.value, request.type)
      [] OTHER -> FALSE

\* Mutant: the last caveat decides.
verifyAttenuatedPermit_Last(ap, request) ==
    /\ Len(ap.caveats) <= MAX_CAVEATS
    /\ request.now <= baseExp
    /\ chainMac(RootMac, ap.caveats) = ap.mac
    /\ ap.caveats # <<>> => enforceCaveat(Last(ap.caveats), request)

verifyAttenuatedPermit(ap, request) ==
    /\ Len(ap.caveats) <= MAX_CAVEATS
    /\ request.now <= baseExp
    /\ chainMac(RootMac, ap.caveats) = ap.mac
    /\ \A i \in DOMAIN ap.caveats : enforceCaveat(ap.caveats[i], request)

CaveatInit ==
    /\ held = [h \in Holders |-> IF h = firstHolder THEN {[caveats |-> <<>>, mac |-> RootMac]} ELSE {}]
    /\ handovers = 0

\* A holder adds caveats to a permit it has and gives the result to another.
HandOn(from, to, permit, caveats) ==
    /\ handovers < MaxHandovers
    /\ permit \in held[from]
    /\ held' = [held EXCEPT ![to] = @ \cup {FoldLeft(attenuate, permit, caveats)}]
    /\ handovers' = handovers + 1

CaveatNext ==
    \E from, to \in Holders : \E permit \in held[from], c \in CaveatKinds :
        HandOn(from, to, permit, <<c>>) \/ HandOn(from, to, permit, <<>>)
-----------------------------------------------------------------------------
ListsTo(n) == UNION {[1..k -> CaveatKinds] : k \in 0..n}

\* What h can present: any list of caveats under a MAC it has or extends.
Presentable(h) ==
    {[caveats |-> l, mac |-> m] : l \in ListsTo(MAX_CAVEATS + 1),
                                 m \in {chainMac(p.mac, x) : p \in held[h], x \in ListsTo(1)}}

Meets(caveats, request) == request.now <= baseExp /\ \A i \in DOMAIN caveats : enforceCaveat(caveats[i], request)

\* However permits were narrowed and passed on, and whatever list of caveats a
\* holder presents, the resource lets it do only what some permit it was given
\* allows with every caveat of that permit (attenuate, verifyAttenuatedPermit).
CaveatsBind ==
    handovers > 0 => \A h \in Holders \ {firstHolder} : \A ap \in Presentable(h), request \in Requests :
        verifyAttenuatedPermit(ap, request) => \E p \in held[h] : Meets(p.caveats, request)

\* What was passed on is good for what its caveats allow: the resource accepts
\* every permit in circulation that is within the bound for a request that meets
\* its caveats, however often it was passed on.
NarrowedStillWorks ==
    handovers > 0 => \A h \in Holders, request \in Requests : \A p \in held[h] :
        Len(p.caveats) <= MAX_CAVEATS /\ Meets(p.caveats, request) => verifyAttenuatedPermit(p, request)

\* A narrowed permit is worth exactly what its caveats leave of it (attenuate,
\* verifyAttenuatedPermit).
CaveatsExact == CaveatsBind /\ NarrowedStillWorks
=============================================================================
