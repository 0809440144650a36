----------------------------- MODULE Disclosure -----------------------------
(***************************************************************************)
(* Disclosure proofs (disclosure/src): range proofs by bit decomposition,  *)
(* set membership, policy satisfaction over a committed amount, and the    *)
(* binding of a commitment to an intent.                                   *)
(*                                                                         *)
(* The group has prime order L.  A point is g times G plus h times H, and  *)
(* nobody knows a relation between G and H, so equal points have equal     *)
(* coordinates.  A Fiat-Shamir challenge is a value the prover does not    *)
(* choose: it is a parameter of the verifiers here.  A claim is one        *)
(* attempt of a prover, honest or not; the verifiers are judged on every   *)
(* claim.                                                                  *)
(***************************************************************************)
EXTENDS Integers, Sequences, SequencesExt, FiniteSets, FiniteSetsExt

CONSTANTS
    L,              \* the order of the group, 2^252 + d
    MAX_BITS,       \* 251
    MAX_SET_SIZE,
    Sample,         \* scalars honest provers draw
    MemberSets,     \* sequences of codes, the public sets
    Bounds,         \* policy bounds: ceiling, aggregate and cap, the last two maybe Nil
    BoundIntents, Salts,
    Nil

Scalars == 0..L - 1

ASSUME GroupAssumption == MAX_BITS >= 1 /\ 2 ^ (MAX_BITS + 1) <= L /\ \A k \in 2..L - 1 : L % k # 0

VARIABLE claim

mod(x) == x % L
Pt(g, h) == [g |-> mod(g), h |-> mod(h)]
G == Pt(1, 0)
H == Pt(0, 1)
add(P, Q) == Pt(P.g + Q.g, P.h + Q.h)
mul(P, s) == Pt(P.g * mod(s), P.h * mod(s))
sub(P, Q) == add(P, mul(Q, L - 1))
inv(a) == mod(a ^ (L - 2))

commit(value, r) == add(mul(G, value), mul(H, r))
shiftCommitment(c, delta) == add(c, mul(G, delta))
-----------------------------------------------------------------------------
(* 1-of-k proofs: some P[j] is a multiple of H *)

Branch(P, t, c, s) == mul(H, s) = add(t, mul(P, c))

SumOf(cs) == mod(FoldLeft(LAMBDA a, b : a + b, 0, cs))

\* The branch that is known, given what is drawn for the others (entry t of cs and ss
\* is the nonce of the real branch), closed with the challenge.
proveOr(P, t, r, cs, ss, chal) ==
    LET ts == [j \in DOMAIN P |-> IF j = t THEN mul(H, ss[t]) ELSE sub(mul(H, ss[j]), mul(P[j], cs[j]))]
        ct == mod(chal - SumOf([cs EXCEPT ![t] = 0]))
    IN  [ts |-> ts, c |-> [cs EXCEPT ![t] = ct], s |-> [ss EXCEPT ![t] = mod(@ + ct * r)]]

\* Mutant: the shares are not compared with the challenge.
verifyOr_AnyShares(P, proof, chal) == \A j \in DOMAIN P : Branch(P[j], proof.ts[j], proof.c[j], proof.s[j])

verifyOr(P, proof, chal) ==
    /\ SumOf(proof.c) = chal
    /\ \A j \in DOMAIN P : Branch(P[j], proof.ts[j], proof.c[j], proof.s[j])

MemberPoints(C, set) == [j \in DOMAIN set |-> sub(C, mul(G, set[j]))]

\* A bit is a member of {0, 1}; its branches are ci and ci - G.
proveBit(b, r, cs, ss, chal) == proveOr(MemberPoints(commit(b, r), <<0, 1>>), b + 1, r, cs, ss, chal)

verifyBit(ci, proof, chal) == verifyOr(MemberPoints(ci, <<0, 1>>), proof, chal)

proveMembership(value, r, set, cs, ss, chal) ==
    LET T == {j \in DOMAIN set : mod(set[j]) = mod(value)}
    IN  IF set = <<>> \/ Len(set) > MAX_SET_SIZE \/ T = {} THEN Nil
        ELSE proveOr(MemberPoints(commit(value, r), set), Min(T), r, cs, ss, chal)

verifyMembership(C, set, proof, chal) ==
    /\ Len(set) \in 1..MAX_SET_SIZE
    /\ Len(proof.c) = Len(set) /\ Len(proof.s) = Len(set)
    /\ verifyOr(MemberPoints(C, set), proof, chal)
-----------------------------------------------------------------------------
(* Range proofs.  A bit commitment whose 1-of-2 proof verifies is one to 0 or 1
   (OneOfKSound, checked below): BitProven stands for verifyBit. *)

BitProven(ci) == ci.g \in {0, 1}

Combined(cs) == FoldLeft(add, Pt(0, 0), [i \in DOMAIN cs |-> mul(cs[i], 2 ^ (i - 1))])

BitsOf(value, n) == [i \in 1..n |-> (value \div 2 ^ (i - 1)) % 2]

\* Bit commitments whose randomness adds up to rand; rs is drawn.
buildBits(value, rand, n, rs) ==
    LET partial == FoldLeft(LAMBDA a, b : a + b, 0, [i \in 1..n - 1 |-> rs[i] * 2 ^ (i - 1)])
    IN  [i \in 1..n |-> commit(BitsOf(value, n)[i],
                               IF i < n THEN rs[i] ELSE mod((mod(rand) - partial) * inv(2 ^ (n - 1))))]

verifySub(target, cs, n) ==
    /\ Len(cs) = n
    /\ Combined(cs) = target
    /\ \A i \in DOMAIN cs : BitProven(cs[i])

\* Nil when it throws.
proveBelow(amount, r, threshold, n, rs) ==
    IF \/ n \notin 1..MAX_BITS
       \/ amount \notin 0..2 ^ n - 1
       \/ threshold \notin 1..2 ^ n
       \/ threshold - 1 - amount < 0
    THEN Nil
    ELSE [n |-> n, amount |-> buildBits(amount, mod(r), n, rs),
          diff |-> buildBits(threshold - 1 - amount, mod(-r), n, rs)]

\* Mutant: one bit more than the group has room for.
verifyBelow_OneMore(commitment, threshold, proof, n) ==
    /\ n \in 1..MAX_BITS + 1
    /\ proof.n = n
    /\ threshold \in 1..2 ^ n
    /\ verifySub(commitment, proof.amount, n)
    /\ verifySub(sub(mul(G, threshold - 1), commitment), proof.diff, n)

verifyBelow(commitment, threshold, proof, n) ==
    /\ n \in 1..MAX_BITS
    /\ proof.n = n
    /\ threshold \in 1..2 ^ n
    /\ verifySub(commitment, proof.amount, n)
    /\ verifySub(sub(mul(G, threshold - 1), commitment), proof.diff, n)
-----------------------------------------------------------------------------
(* Policy satisfaction *)

isCapped(b) == b.aggregate # Nil /\ b.cap # Nil

\* The first proveBelow that throws makes the whole call throw.
provePolicySatisfaction(amount, opening, b, n, rs) ==
    LET ceiling == proveBelow(amount, opening, b.ceiling + 1, n, rs)
        total == proveBelow(amount + b.aggregate, opening, b.cap + 1, n, rs)
    IN  IF ceiling = Nil \/ (isCapped(b) /\ total = Nil) THEN Nil
        ELSE [n |-> n, ceiling |-> ceiling, aggregate |-> IF isCapped(b) THEN total ELSE Nil]

verifyPolicySatisfaction(C, b, proof, n) ==
    /\ proof.n = n
    /\ b.cap # Nil => b.aggregate # Nil
    /\ verifyBelow(C, b.ceiling + 1, proof.ceiling, n)
    /\ IF isCapped(b)
       THEN /\ proof.aggregate # Nil
            /\ verifyBelow(shiftCommitment(C, b.aggregate), b.cap + 1, proof.aggregate, n)
       ELSE proof.aggregate = Nil
-----------------------------------------------------------------------------
(* A commitment bound to an intent *)

Skeleton(intent) == [intent EXCEPT !.amount = Nil]

boundIntentDigest(intent, C, salt) == [salt |-> salt, intent |-> Skeleton(intent), commitment |-> C]

bindAmountCommitment(intent, opening, salt) ==
    LET C == commit(intent.amount, opening)
    IN  [commitment |-> C, opening |-> opening, digest |-> boundIntentDigest(intent, C, salt)]

verifyBoundCommitment(intent, C, digest, salt) == boundIntentDigest(intent, C, salt) = digest

verifyBoundAmount(intent, C, opening, digest, salt) ==
    /\ verifyBoundCommitment(intent, C, digest, salt)
    /\ intent.amount # Nil
    /\ commit(intent.amount, opening) = C
-----------------------------------------------------------------------------
DisclosureInit == claim = Nil

\* A prover commits to value v and to announcements ts, not knowing the challenge.
ClaimMembership ==
    \E set \in MemberSets, v \in Scalars, r \in Sample : \E g \in [DOMAIN set -> Scalars] :
        claim' = [kind |-> "member", set |-> set, value |-> v, r |-> r,
                  ts |-> [j \in DOMAIN set |-> Pt(g[j], r)]]

\* A prover presents n bit commitments on either side, with any randomness in the
\* first of each.
ClaimRange ==
    \E n \in 1..MAX_BITS + 1 : \E v \in Scalars, threshold \in 0..2 ^ n + 1 :
    \E a, d \in [1..n -> {0, 1}], e \in {0, 1} :
        claim' = [kind |-> "range", n |-> n, value |-> v, threshold |-> threshold,
                  proof |-> [n |-> n, amount |-> [i \in 1..n |-> Pt(a[i], IF i = 1 THEN 1 ELSE 0)],
                             diff |-> [i \in 1..n |-> Pt(d[i], IF i = 1 THEN e - 1 ELSE 0)]]]

\* An honest prover runs with a policy.
ClaimPolicy ==
    \E amount \in 0..2 ^ MAX_BITS, b \in Bounds, r \in Sample, rs \in [1..MAX_BITS - 1 -> Sample] :
        claim' = [kind |-> "policy", amount |-> amount, bounds |-> b, r |-> r, rs |-> rs]

\* The amount of one intent is committed; another intent is shown with it.
ClaimBinding ==
    \E i, j \in BoundIntents, o, p \in Sample, s, t \in Salts :
        /\ i.amount # Nil
        /\ claim' = [kind |-> "bind", intent |-> i, shown |-> j, opening |-> o, tried |-> p,
                     salt |-> s, saltShown |-> t]

DisclosureNext ==
    /\ claim = Nil
    /\ ClaimMembership \/ ClaimRange \/ ClaimPolicy \/ ClaimBinding
-----------------------------------------------------------------------------
Is(kind) == claim # Nil /\ claim.kind = kind

\* A prover that could answer two challenges after the same announcements has a
\* committed value in the set; for the set {0, 1} this is what makes verifyBit
\* prove a bit (verifyMembership, verifyBit: the shares add up to the challenge).
OneOfKSound ==
    Is("member") =>
        LET P == MemberPoints(commit(claim.value, claim.r), claim.set)
            reply(cs) == [ts |-> claim.ts, c |-> cs,
                          s |-> [j \in DOMAIN P |-> mod(claim.ts[j].h + cs[j] * P[j].h)]]
            answered == {chal \in Scalars : \E cs \in [DOMAIN P -> Scalars] : verifyOr(P, reply(cs), chal)}
        IN  Cardinality(answered) > 1 => mod(claim.value) \in {mod(claim.set[j]) : j \in DOMAIN claim.set}

\* An honest prover is believed whatever it draws and whatever the challenge is, in a
\* set and about a bit (proveMembership, proveBit and their verifiers).
OneOfKComplete ==
    Is("member") => \A chal \in Sample, cs, ss \in [DOMAIN claim.set -> Sample] :
        LET C == commit(claim.value, claim.r)
            proof == proveMembership(claim.value, claim.r, claim.set, cs, ss, chal)
        IN  /\ proof # Nil => verifyMembership(C, claim.set, proof, chal)
            /\ (Len(claim.set) = 2 /\ claim.value \in {0, 1})
                  => verifyBit(C, proveBit(claim.value, claim.r, cs, ss, chal), chal)

\* Bits that pass on both sides leave no way around the group order: the committed
\* value is below the threshold (verifyBelow; 2^(n+1) <= L).
RangeSound ==
    Is("range") =>
        (verifyBelow(commit(claim.value, 1), claim.threshold, claim.proof, claim.n)
            => claim.value < claim.threshold)

\* What a policy asks of an amount.
Satisfies(amount, b) ==
    /\ amount <= b.ceiling
    /\ isCapped(b) => amount + b.aggregate <= b.cap

\* Proofs of an honest prover are accepted, and there is one exactly for the amounts
\* that satisfy the bounds and fit the bit width.
PolicyComplete ==
    Is("policy") =>
        LET n == MAX_BITS
            b == claim.bounds
            proof == provePolicySatisfaction(claim.amount, claim.r, b, n, claim.rs)
            widths == {claim.amount + 1, b.ceiling + 1}
                      \cup IF isCapped(b) THEN {claim.amount + b.aggregate + 1, b.cap + 1} ELSE {}
        IN  /\ (Satisfies(claim.amount, b) /\ widths \subseteq 1..2 ^ n) <=> proof # Nil
            /\ (proof # Nil /\ (b.cap # Nil => b.aggregate # Nil))
                  => verifyPolicySatisfaction(commit(claim.amount, claim.r), b, proof, n)

\* No proof an honest prover could make for some bounds passes for bounds that the
\* amount does not satisfy, and a cap without an aggregate accepts none.
PolicySound ==
    Is("policy") => \A b \in Bounds :
        LET n == MAX_BITS
            proof == provePolicySatisfaction(claim.amount, claim.r, claim.bounds, n, claim.rs)
        IN  (proof # Nil /\ verifyPolicySatisfaction(commit(claim.amount, claim.r), b, proof, n))
               => Satisfies(claim.amount, b) /\ (b.cap # Nil => b.aggregate # Nil)

\* With the opening, a digest speaks for one intent: no other intent, amount included,
\* is accepted with the commitment made for it (verifyBoundAmount).
BoundToIntent ==
    Is("bind") =>
        LET c == bindAmountCommitment(claim.intent, claim.opening, claim.salt)
        IN  verifyBoundAmount(claim.shown, c.commitment, claim.tried, c.digest, claim.saltShown)
              <=> /\ claim.shown = claim.intent /\ claim.tried = claim.opening
                  /\ claim.saltShown = claim.salt

\* A 1-of-k proof convinces exactly of what is so, in a set and about a bit (proveOr,
\* verifyOr and the functions built on them).
OneOfKExact == OneOfKSound /\ OneOfKComplete

\* Statements about a hidden amount hold for the amount: its range, the bounds of a policy
\* and the intent it belongs to, and whoever meets the bounds can prove it (verifyBelow,
\* verifyPolicySatisfaction, verifyBoundAmount).
AmountsProven == RangeSound /\ PolicyComplete /\ PolicySound /\ BoundToIntent
=============================================================================
