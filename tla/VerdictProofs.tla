---------------------------- MODULE VerdictProofs ---------------------------
(***************************************************************************)
(* Finality and receipts as somebody outside judges them, for every list   *)
(* that is handed in and every set, threshold and cap: what a quorum       *)
(* receipt attests, what the light client takes for final, and what the    *)
(* contract on an EVM chain finalizes and blames.                          *)
(***************************************************************************)
EXTENDS LightClient, QuorumReceipts, EvmFinality, FiniteSetTheorems, TLAPS

(***************************************************************************)
(* A loop of the code is a recursive function on an initial segment of the *)
(* naturals.  The facts here let a proof reason about one: such a function *)
(* exists, so that its definition holds of it, and a set of naturals has a *)
(* least element, so that an invariant of the loop is shown by looking at  *)
(* the first round that breaks it.  (AuthorityProofs has them too: the two *)
(* modules share no component, and neither extends the other.)             *)
(***************************************************************************)

\* A set of natural numbers that is not empty has a least element.
LEMMA LeastNat ==
    ASSUME NEW T \in SUBSET Nat, T # {}
    PROVE  \E x \in T : \A y \in T : x <= y
<1>1. \E x \in T : \A y \in T : ~(y < x)
  <2>1. PICK x \in T : \A y \in T : ~(<<y, x>> \in OpToRel(<, Nat))
    BY WFMin, NatLessThanWellFounded, Zenon
  <2>2. \A y \in T : y < x => <<y, x>> \in OpToRel(<, Nat)
    BY Zenon DEF OpToRel
  <2>3. QED
    BY <2>1, <2>2, Zenon
<1>2. QED
  BY <1>1

\* What holds at 0 and passes from each number to the next holds up to n.
LEMMA UpTo ==
    ASSUME NEW n \in Nat, NEW S, 0 \in S,
           \A i \in 1..n : i - 1 \in S => i \in S
    PROVE  \A i \in 0..n : i \in S
<1>1. SUFFICES ASSUME NEW j \in 0..n, j \notin S PROVE FALSE
  OBVIOUS
<1> DEFINE T == {i \in 0..n : i \notin S}
<1>2. T \in SUBSET Nat /\ T # {}
  BY <1>1
<1>3. PICK x \in T : \A y \in T : x <= y
  BY <1>2, LeastNat, Zenon
<1>4. x \in 1..n /\ x - 1 \in 0..n /\ x - 1 \notin T
  BY <1>3
<1>5. QED
  BY <1>3, <1>4, Zenon

\* A loop over 1..n that starts with base and takes the accumulator through step.
IsLoop(f, n, base, step) ==
    f = [i \in 0..n |-> IF i = 0 THEN base ELSE step[<<i, f[i - 1]>>]]

\* A loop that stays within Acc has a function of its rounds.
LEMMA LoopExists ==
    ASSUME NEW n \in Nat, NEW Acc, NEW base \in Acc,
           NEW step \in [(1..n) \X Acc -> Acc]
    PROVE  \E f \in [0..n -> Acc] : IsLoop(f, n, base, step)
<1> DEFINE Run(f, k) == f[0] = base /\ \A i \in 1..k : f[i] = step[<<i, f[i - 1]>>]
           S == {k \in 0..n : \E f \in [0..k -> Acc] : Run(f, k)}
<1>1. 0 \in S
  <2> DEFINE f == [i \in 0..0 |-> base]
  <2>1. f \in [0..0 -> Acc] /\ Run(f, 0)
    OBVIOUS
  <2>2. \E h \in [0..0 -> Acc] : Run(h, 0)
    <3> HIDE DEF f
    <3>1. QED
      BY <2>1
  <2>3. QED
    BY <2>2
<1>2. ASSUME NEW k \in 1..n, k - 1 \in S PROVE k \in S
  <2>1. PICK f \in [0..(k - 1) -> Acc] : Run(f, k - 1)
    BY <1>2
  <2>2. step[<<k, f[k - 1]>>] \in Acc
    <3>1. k - 1 \in 0..(k - 1)
      OBVIOUS
    <3>2. f[k - 1] \in Acc
      BY <3>1
    <3>3. QED
      BY <3>2
  <2> DEFINE g == [i \in 0..k |-> IF i = k THEN step[<<k, f[k - 1]>>] ELSE f[i]]
  <2>3. g \in [0..k -> Acc]
    <3>1. ASSUME NEW i \in 0..k, i # k PROVE i \in 0..(k - 1)
      BY <3>1
    <3>2. ASSUME NEW i \in 0..k, i # k PROVE f[i] \in Acc
      BY <3>1, <3>2, Zenon
    <3>3. QED
      BY <2>2, <3>2
  <2>4. g[0] = base
    BY <2>1
  <2>5. ASSUME NEW i \in 1..k PROVE g[i] = step[<<i, g[i - 1]>>]
    <3>1. i \in 0..k /\ i - 1 \in 0..k /\ i - 1 # k
      BY <2>5
    <3>2. g[i - 1] = f[i - 1]
      BY <3>1, Zenon
    <3>3. CASE i = k
      BY <3>1, <3>2, <3>3, Zenon
    <3>4. CASE i # k
      <4>1. i \in 1..(k - 1)
        BY <3>4
      <4>2. f[i] = step[<<i, f[i - 1]>>]
        BY <2>1, <4>1
      <4>3. g[i] = f[i]
        BY <3>1, <3>4
      <4>4. QED
        BY <3>2, <4>2, <4>3, Zenon
    <3>5. QED
      BY <3>3, <3>4, Zenon
  <2>6. Run(g, k)
    BY <2>4, <2>5, Zenon
  <2>7. k \in 0..n
    OBVIOUS
  <2>8. \E h \in [0..k -> Acc] : Run(h, k)
    <3> HIDE DEF g
    <3>1. QED
      BY <2>3, <2>6, Zenon
  <2>9. QED
    BY <2>7, <2>8, Zenon
<1>3. n \in S
  <2> HIDE DEF S
  <2>1. QED
    BY <1>1, <1>2, UpTo
<1>4. PICK f \in [0..n -> Acc] : Run(f, n)
  BY <1>3
<1>5. IsLoop(f, n, base, step)
  <2>1. ASSUME NEW i \in 0..n
        PROVE  f[i] = IF i = 0 THEN base ELSE step[<<i, f[i - 1]>>]
    BY <1>4
  <2>2. QED
    BY <2>1 DEF IsLoop
<1>6. QED
  BY <1>5

(***************************************************************************)
(* Quorum receipts.  The loop over the cosignatures counts a member on its *)
(* first signature that verifies; how many are counted is then the number  *)
(* of members with one.                                                    *)
(***************************************************************************)

\* The larger of two numbers is a number.
LEMMA LargerOfTwo ==
    ASSUME NEW a \in Int, NEW b \in Int
    PROVE  Max({a, b}) \in Int
<1>1. \E x \in {a, b} : \A y \in {a, b} : x >= y
  BY SMT
<1>2. QED
  BY <1>1 DEF Max

\* The rounds of the loop of countDistinctValid.
LEMMA CosignerRounds ==
    ASSUME NEW body, NEW list, Len(list) \in Nat
    PROVE  /\ CosignerLoop(body, list)[0] = {}
           /\ \A n \in 1..Len(list) :
                 CosignerLoop(body, list)[n]
                     = CountCosigner(body, list, n, CosignerLoop(body, list)[n - 1])
<1> DEFINE N == Len(list)
           Acc == SUBSET Validators
           Rounds(f) == f = [n \in 0..N |-> IF n = 0 THEN {}
                                           ELSE CountCosigner(body, list, n, f[n - 1])]
           step == [x \in (1..N) \X Acc |-> CountCosigner(body, list, x[1], x[2])]
<1>1. step \in [(1..N) \X Acc -> Acc]
  <2>1. ASSUME NEW x \in (1..N) \X Acc PROVE CountCosigner(body, list, x[1], x[2]) \in Acc
    BY DEF CountCosigner
  <2>2. QED
    BY <2>1
<1>2. PICK f \in [0..N -> Acc] : IsLoop(f, N, {}, step)
  <2>1. {} \in Acc
    OBVIOUS
  <2> HIDE DEF step, Acc
  <2>2. QED
    BY <1>1, <2>1, LoopExists, Zenon
<1>3. Rounds(f)
  <2>1. ASSUME NEW n \in 0..N, n # 0
        PROVE  step[<<n, f[n - 1]>>] = CountCosigner(body, list, n, f[n - 1])
    <3>1. n \in 1..N /\ n - 1 \in 0..N
      BY <2>1
    <3>2. f[n - 1] \in Acc
      BY <3>1
    <3>3. QED
      BY <3>1, <3>2
  <2>2. QED
    BY <1>2, <2>1, Zenon DEF IsLoop
<1>4. CosignerLoop(body, list) = CHOOSE g : Rounds(g)
  BY Zenon DEF CosignerLoop
<1>5. Rounds(CosignerLoop(body, list))
  <2> HIDE DEF Rounds
  <2>1. QED
    BY <1>3, <1>4, Zenon
<1> DEFINE c == CosignerLoop(body, list)
<1>6. c = [n \in 0..N |-> IF n = 0 THEN {} ELSE CountCosigner(body, list, n, c[n - 1])]
  BY <1>5, Zenon
<1> HIDE DEF c
<1>7. /\ c[0] = {}
      /\ \A n \in 1..N : c[n] = CountCosigner(body, list, n, c[n - 1])
  <2>1. 0 \in 0..N /\ \A n \in 1..N : n \in 0..N /\ n # 0
    OBVIOUS
  <2>2. QED
    BY <1>6, <2>1, Zenon
<1>8. QED
  BY <1>7 DEF c

\* The members whose signature on the body is among the first n entries.
CosignersUpTo(body, list, n) ==
    {v \in Validators : \E i \in 1..n :
        /\ list[i].validator = v /\ list[i].suite = body.suite
        /\ list[i].sig = [by |-> v, on |-> body]}

\* What the loop counts: the members whose signature on the body is in the list, whatever
\* else is in it and in which order.
LEMMA CosignersCounted ==
    ASSUME NEW body, NEW list, Len(list) \in Nat
    PROVE  countDistinctValid(body, list) = CosignersUpTo(body, list, Len(list))
<1> DEFINE N == Len(list)
           c == CosignerLoop(body, list)
           S == {n \in 0..N : c[n] = CosignersUpTo(body, list, n)}
<1>1. /\ c[0] = {}
      /\ \A n \in 1..N : c[n] = CountCosigner(body, list, n, c[n - 1])
  BY CosignerRounds, Zenon
<1> HIDE DEF c
<1>2. 0 \in S
  BY <1>1 DEF CosignersUpTo
<1>3. ASSUME NEW n \in 1..N, n - 1 \in S PROVE n \in S
  <2>1. c[n] = CountCosigner(body, list, n, CosignersUpTo(body, list, n - 1))
    BY <1>1, <1>3
  <2>2. \A i : i \in 1..n <=> i \in 1..(n - 1) \/ i = n
    OBVIOUS
  <2>3. \A v : v \in CosignersUpTo(body, list, n) <=>
             \/ v \in CosignersUpTo(body, list, n - 1)
             \/ /\ v \in Validators
                /\ list[n].validator = v /\ list[n].suite = body.suite
                /\ list[n].sig = [by |-> v, on |-> body]
    BY <2>2, Zenon DEF CosignersUpTo
  <2>4. CosignersUpTo(body, list, n)
            = CountCosigner(body, list, n, CosignersUpTo(body, list, n - 1))
    BY <2>3 DEF CountCosigner
  <2>5. QED
    BY <2>1, <2>4
<1>4. N \in S
  <2>1. N \in 0..N
    OBVIOUS
  <2> HIDE DEF S
  <2>2. QED
    BY <1>2, <1>3, <2>1, UpTo, Zenon
<1>5. QED
  BY <1>4, Zenon DEF countDistinctValid, c

\* A body that passes the checks on its fields is the one expected, and conversely.
LEMMA ExpectedFields ==
    ASSUME NEW b \in Bodies, NEW k, NEW e
    PROVE  Expected(b, k, e) <=> /\ b.k = k /\ b.epoch = e
                                 /\ b.setId = quorumSetId("own", k, e)
<1>1. b = [receipt |-> b.receipt, setId |-> b.setId, k |-> b.k, epoch |-> b.epoch, suite |-> b.suite]
  BY ReceiptAssumption
<1> DEFINE id == quorumSetId("own", k, e)
<1> HIDE DEF id
<1>2. b = [receipt |-> b.receipt, setId |-> id, k |-> k, epoch |-> e, suite |-> b.suite]
        <=> b.k = k /\ b.epoch = e /\ b.setId = id
  BY <1>1
<1>3. QED
  BY <1>2, Zenon DEF Expected, QuorumBody, id

\* Quorum receipts of any set are accepted exactly when enough of its members, by heads
\* or by stake, signed them for that set, threshold and epoch: neither order nor copies nor
\* forgeries in the list change the verdict (verifyQuorumReceipt, countDistinctValid).
THEOREM ReceiptsCosigned == ReceiptSpec => []CosignedExactly
<1> DEFINE Listed == cosigned \in Seq(Cosignatures)
<1>1. ReceiptInit => Listed
  BY DEF ReceiptInit
<1>2. Listed /\ [ReceiptNext]_cosigned => Listed'
  BY DEF ReceiptNext, HandCosignature
<1>3. Listed => CosignedExactly
  <2> SUFFICES ASSUME Listed PROVE CosignedExactly
    OBVIOUS
  <2>1. Len(cosigned) \in Nat /\ DOMAIN cosigned = 1..Len(cosigned)
    OBVIOUS
  <2>2. \A b : countDistinctValid(b, cosigned) = Cosigners(b)
    <3> SUFFICES ASSUME NEW b PROVE countDistinctValid(b, cosigned) = Cosigners(b)
      OBVIOUS
    <3>1. countDistinctValid(b, cosigned) = CosignersUpTo(b, cosigned, Len(cosigned))
      BY <2>1, CosignersCounted
    <3>2. CosignersUpTo(b, cosigned, Len(cosigned)) = Cosigners(b)
      BY <2>1, Zenon DEF CosignersUpTo, Cosigners
    <3>3. QED
      BY <3>1, <3>2, Zenon
  <2>6. ~(Len(cosigned) > maxAttestations) <=> Len(cosigned) <= maxAttestations
    <3>1. maxAttestations \in Int
      BY ReceiptAssumption, StakeAssumption, FS_CardinalityType, LargerOfTwo DEF maxAttestations
    <3>2. QED
      BY <2>1, <3>1
  <2>3. ASSUME NEW b \in Bodies, NEW k \in Thresholds, NEW e \in Epochs
        PROVE  verifyQuorumReceipt(b, cosigned, k, e) <=>
                   /\ k >= 1 /\ Expected(b, k, e)
                   /\ Len(cosigned) <= maxAttestations
                   /\ Cardinality(Cosigners(b)) >= k
    <3>1. Len(cosigned) <= maxAttestations => Counted(b, cosigned) = Cosigners(b)
      BY <2>2, <2>6, Zenon DEF Counted
    <3>2. QED
      BY <3>1, ExpectedFields, Zenon DEF verifyQuorumReceipt
  <2>4. ASSUME NEW b \in Bodies, NEW w \in Thresholds, NEW e \in Epochs
        PROVE  verifyQuorumReceiptByStake(b, cosigned, w, e) <=>
                   /\ w >= 1 /\ Expected(b, b.k, e)
                   /\ Len(cosigned) <= maxAttestations
                   /\ StakeHeld(Cosigners(b)) >= w
    <3>1. Len(cosigned) <= maxAttestations => Counted(b, cosigned) = Cosigners(b)
      BY <2>2, <2>6, Zenon DEF Counted
    <3>2. w > 0 <=> w >= 1
      BY ReceiptAssumption
    <3>3. QED
      BY <3>1, <3>2, ExpectedFields, Zenon DEF verifyQuorumReceiptByStake
  <2>5. QED
    BY <2>3, <2>4, Zenon DEF CosignedExactly, QuorumExact, StakeQuorumExact
<1>4. QED
  BY <1>1, <1>2, <1>3, PTL DEF ReceiptSpec

(***************************************************************************)
(* The light client.  Both of its loops, over votes and over attestations, *)
(* count the stake of those whose first fitting entry carries a signature  *)
(* that verifies: never more than was signed, and all of it when no entry  *)
(* of somebody else under their name comes first.                          *)
(***************************************************************************)

\* The stake of any set of keys is a number.
LEMMA HeldType ==
    ASSUME NEW G
    PROVE  StakeHeld(G) \in Nat /\ IsFiniteSet(UnitsOf(G))
<1>1. UnitsOf(G) \in SUBSET Units
  BY DEF UnitsOf
<1>2. IsFiniteSet(UnitsOf(G))
  BY <1>1, StakeAssumption, FS_Subset
<1>3. QED
  BY <1>2, FS_CardinalityType DEF StakeHeld

\* More keys hold no less.
LEMMA HeldGrows ==
    ASSUME NEW G, NEW H, G \subseteq H
    PROVE  StakeHeld(G) <= StakeHeld(H)
<1>1. UnitsOf(G) \in SUBSET UnitsOf(H)
  BY DEF UnitsOf
<1>2. QED
  BY <1>1, HeldType, FS_Subset DEF StakeHeld

\* A key that is new to a set adds its stake.
LEMMA HeldAdds ==
    ASSUME NEW G, NEW v, v \notin G
    PROVE  StakeHeld(G \cup {v}) = StakeHeld(G) + stakeOf(v)
<1>1. UnitsOf(G \cup {v}) = UnitsOf(G) \cup UnitsOf({v})
  BY DEF UnitsOf
<1>2. UnitsOf(G) \cap UnitsOf({v}) = {}
  BY DEF UnitsOf
<1>3. Cardinality(UnitsOf(G) \cup UnitsOf({v}))
        = Cardinality(UnitsOf(G)) + Cardinality(UnitsOf({v})) - Cardinality(UnitsOf(G) \cap UnitsOf({v}))
  BY HeldType, FS_Union
<1>4. Cardinality({}) = 0
  BY FS_EmptySet
<1>5. Cardinality(UnitsOf(G)) \in Nat /\ Cardinality(UnitsOf({v})) \in Nat
  BY HeldType, FS_CardinalityType
<1>6. Cardinality(UnitsOf(G) \cup UnitsOf({v})) = Cardinality(UnitsOf(G)) + Cardinality(UnitsOf({v}))
  <2>1. Cardinality(UnitsOf(G) \cup UnitsOf({v})) = Cardinality(UnitsOf(G)) + Cardinality(UnitsOf({v})) - 0
    BY <1>2, <1>3, <1>4, Zenon
  <2>2. QED
    BY <2>1, <1>5
<1>7. QED
  BY <1>1, <1>6, Zenon DEF StakeHeld, stakeOf

\* A key with stake is a validator.
LEMMA StakedListed ==
    ASSUME NEW v, stakeOf(v) > 0
    PROVE  v \in Validators
<1>1. UnitsOf({v}) # {}
  BY FS_EmptySet DEF stakeOf, StakeHeld
<1>2. QED
  BY <1>1, StakeAssumption DEF UnitsOf

\* Who holds no less reaches every fraction the other reaches.
LEMMA ReachesGrows ==
    ASSUME NEW G, NEW H, G \subseteq H, NEW f \in Int \X Int, FractionOK(f),
           Reaches(StakeHeld(G), f)
    PROVE  Reaches(StakeHeld(H), f)
<1>1. totalStake \in Nat
  BY StakeAssumption, FS_CardinalityType DEF totalStake
<1>2. PICK x \in Int, y \in Int : f = <<x, y>>
  OBVIOUS
<1>3. f[1] = x /\ f[2] = y /\ y >= 1
  BY <1>2 DEF FractionOK
<1> DEFINE g == StakeHeld(G)
           h == StakeHeld(H)
<1>4. g \in Nat /\ h \in Nat /\ g <= h
  BY HeldType, HeldGrows
<1> HIDE DEF g, h
<1>5. g * y <= h * y
  BY <1>3, <1>4
<1>6. g * y \in Int /\ h * y \in Int /\ x * totalStake \in Int
  BY <1>1, <1>3, <1>4
<1>7. g * y >= x * totalStake /\ totalStake > 0
  BY <1>3 DEF Reaches, g
<1>8. h * y >= x * totalStake
  BY <1>5, <1>6, <1>7
<1>9. QED
  BY <1>3, <1>7, <1>8 DEF Reaches, h

\* The accumulators of a count over a list.
Tallies(list) ==
    [attempted : SUBSET {list[i].validator : i \in 1..Len(list)}, stake : Nat]

\* The rounds of the count over a list.
LEMMA StakeRounds ==
    ASSUME NEW list, NEW fits, NEW good, Len(list) \in Nat
    PROVE  /\ StakeLoop(list, fits, good)[0] = [attempted |-> {}, stake |-> 0]
           /\ \A n \in 1..Len(list) :
                 StakeLoop(list, fits, good)[n]
                     = CountEntry(list, fits, good, n, StakeLoop(list, fits, good)[n - 1])
<1> DEFINE N == Len(list)
           Acc == Tallies(list)
           zero == [attempted |-> {}, stake |-> 0]
           Rounds(f) == f = [i \in 0..N |-> IF i = 0 THEN zero
                                           ELSE CountEntry(list, fits, good, i, f[i - 1])]
           step == [x \in (1..N) \X Acc |-> CountEntry(list, fits, good, x[1], x[2])]
<1>1. step \in [(1..N) \X Acc -> Acc]
  <2>1. ASSUME NEW i \in 1..N, NEW acc \in Acc PROVE CountEntry(list, fits, good, i, acc) \in Acc
    <3>1. stakeOf(list[i].validator) \in Nat
      BY HeldType DEF stakeOf
    <3>2. list[i].validator \in {list[j].validator : j \in 1..N}
      OBVIOUS
    <3>3. acc.attempted \in SUBSET {list[j].validator : j \in 1..N} /\ acc.stake \in Nat
      BY DEF Tallies
    <3>4. acc.attempted \cup {list[i].validator} \in SUBSET {list[j].validator : j \in 1..N}
      BY <3>2, <3>3, Zenon
    <3>5. acc.stake + (IF i \in good THEN stakeOf(list[i].validator) ELSE 0) \in Nat
      BY <3>1, <3>3
    <3>6. QED
      BY <3>4, <3>5 DEF CountEntry, Tallies
  <2>2. QED
    BY <2>1
<1>2. PICK f \in [0..N -> Acc] : IsLoop(f, N, zero, step)
  <2>1. zero \in Acc
    BY DEF Tallies
  <2> HIDE DEF step, Acc, zero
  <2>2. QED
    BY <1>1, <2>1, LoopExists, Zenon
<1>3. Rounds(f)
  <2>1. ASSUME NEW n \in 0..N, n # 0
        PROVE  step[<<n, f[n - 1]>>] = CountEntry(list, fits, good, n, f[n - 1])
    <3>1. n \in 1..N /\ n - 1 \in 0..N
      BY <2>1
    <3>2. f[n - 1] \in Acc
      BY <3>1
    <3> HIDE DEF Acc
    <3>3. QED
      BY <3>1, <3>2
  <2>2. QED
    BY <1>2, <2>1, Zenon DEF IsLoop
<1>4. StakeLoop(list, fits, good) = CHOOSE g : Rounds(g)
  BY Zenon DEF StakeLoop
<1>5. Rounds(StakeLoop(list, fits, good))
  <2> HIDE DEF Rounds
  <2>1. QED
    BY <1>3, <1>4, Zenon
<1> DEFINE c == StakeLoop(list, fits, good)
<1>6. c = [i \in 0..N |-> IF i = 0 THEN zero ELSE CountEntry(list, fits, good, i, c[i - 1])]
  BY <1>5, Zenon
<1> HIDE DEF c
<1>7. /\ c[0] = zero
      /\ \A n \in 1..N : c[n] = CountEntry(list, fits, good, n, c[n - 1])
  <2>1. 0 \in 0..N /\ \A n \in 1..N : n \in 0..N /\ n # 0
    OBVIOUS
  <2>2. QED
    BY <1>6, <2>1, Zenon
<1>8. QED
  BY <1>7, Zenon DEF c

\* The validators tried by the first n entries.
TriedUpTo(list, fits, n) == {list[i].validator : i \in {j \in 1..n : j \in fits}}

\* The positions among the first n that are the first fitting one of their validator.
FirstsUpTo(list, fits, n) ==
    {i \in 1..n : /\ i \in fits
                  /\ \A j \in fits : j < i => list[j].validator # list[i].validator}

\* The validators counted by the first n entries.
CountedUpTo(list, fits, good, n) ==
    {list[i].validator : i \in {j \in FirstsUpTo(list, fits, n) : j \in good}}

\* What the loops of verifyFinalized and verifyViewChangeCert count: the validators
\* whose first fitting entry verifies.
LEMMA StakeCounted ==
    ASSUME NEW list, NEW fits, NEW good, Len(list) \in Nat, fits \subseteq 1..Len(list)
    PROVE  CountedStake(list, fits, good) = StakeHeld(CountedUpTo(list, fits, good, Len(list)))
<1> DEFINE N == Len(list)
           c == StakeLoop(list, fits, good)
           Tried(n) == TriedUpTo(list, fits, n)
           Gained(n) == CountedUpTo(list, fits, good, n)
           S == {n \in 0..N : c[n] = [attempted |-> Tried(n), stake |-> StakeHeld(Gained(n))]}
<1>1. /\ c[0] = [attempted |-> {}, stake |-> 0]
      /\ \A n \in 1..N : c[n] = CountEntry(list, fits, good, n, c[n - 1])
  BY StakeRounds, Zenon
<1> HIDE DEF c
<1>2. 0 \in S
  <2>1. Tried(0) = {} /\ Gained(0) = {}
    BY DEF TriedUpTo, CountedUpTo, FirstsUpTo
  <2>2. StakeHeld({}) = 0
    BY FS_EmptySet DEF StakeHeld, UnitsOf
  <2>3. 0 \in 0..N
    OBVIOUS
  <2>4. QED
    BY <1>1, <2>1, <2>2, <2>3, Zenon
<1>3. ASSUME NEW n \in 1..N, n - 1 \in S PROVE n \in S
  <2> DEFINE v == list[n].validator
             T == Tried(n - 1)
             C == Gained(n - 1)
             fresh == n \in fits /\ v \notin T
  <2>1. c[n] = CountEntry(list, fits, good, n, [attempted |-> T, stake |-> StakeHeld(C)])
    BY <1>1, <1>3, Zenon
  <2>2. \A i : i \in 1..n <=> i \in 1..(n - 1) \/ i = n
    OBVIOUS
  <2>3. v \in T <=> \E j \in fits : j < n /\ list[j].validator = v
    <3>1. \A j \in fits : j < n <=> j \in 1..(n - 1)
      OBVIOUS
    <3>2. \A j : j \in 1..(n - 1) => (j < n)
      OBVIOUS
    <3>3. QED
      BY <3>1, <3>2, Zenon DEF TriedUpTo
  <2>4. Tried(n) = IF fresh THEN T \cup {v} ELSE T
    <3>1. \A w : w \in Tried(n) <=> w \in T \/ (n \in fits /\ w = v)
      BY <2>2, Zenon DEF TriedUpTo
    <3> HIDE DEF T, v
    <3>2. QED
      BY <3>1
  <2>5. Gained(n) = IF fresh /\ n \in good THEN C \cup {v} ELSE C
    <3>1. \A i : i \in FirstsUpTo(list, fits, n) <=>
                    i \in FirstsUpTo(list, fits, n - 1) \/ (i = n /\ fresh)
      BY <2>2, <2>3, Zenon DEF FirstsUpTo
    <3>2. \A w, k : w \in Gained(k) <=>
                       \E i \in FirstsUpTo(list, fits, k) : i \in good /\ w = list[i].validator
      BY Zenon DEF CountedUpTo
    <3>4. \A w : w \in Gained(n) <=> w \in C \/ (n \in good /\ fresh /\ w = v)
      <4> HIDE DEF fresh, Gained
      <4> DEFINE P(k) == FirstsUpTo(list, fits, k)
      <4>1. \A w : (\E i \in P(n) : i \in good /\ w = list[i].validator)
                     <=> \/ \E i \in P(n - 1) : i \in good /\ w = list[i].validator
                         \/ n \in good /\ fresh /\ w = list[n].validator
        <5>1. \A i : i \in P(n) <=> i \in P(n - 1) \/ (i = n /\ fresh)
          BY <3>1, Zenon
        <5> HIDE DEF P
        <5>2. QED
          BY <5>1
      <4>2. QED
        BY <4>1, <3>2, Zenon
    <3> HIDE DEF C, v, fresh
    <3>3. QED
      BY <3>4
  <2>6. C \subseteq T
    BY Zenon DEF CountedUpTo, FirstsUpTo, TriedUpTo
  <2>7. StakeHeld(Gained(n)) = IF fresh
                                THEN StakeHeld(C) + (IF n \in good THEN stakeOf(v) ELSE 0)
                                ELSE StakeHeld(C)
    <3>1. fresh => v \notin C
      BY <2>6
    <3>2. fresh => StakeHeld(C \cup {v}) = StakeHeld(C) + stakeOf(v)
      BY <3>1, HeldAdds, Zenon
    <3>3. StakeHeld(C) + 0 = StakeHeld(C)
      BY HeldType
    <3> HIDE DEF C, v, fresh, Gained
    <3>4. QED
      BY <2>5, <3>2, <3>3, Zenon
  <2>8. CountEntry(list, fits, good, n, [attempted |-> T, stake |-> StakeHeld(C)])
            = [attempted |-> Tried(n), stake |-> StakeHeld(Gained(n))]
    <3> DEFINE acc == [attempted |-> T, stake |-> StakeHeld(C)]
    <3>1. acc.attempted = T /\ acc.stake = StakeHeld(C)
      OBVIOUS
    <3>2. ASSUME fresh
          PROVE  CountEntry(list, fits, good, n, acc)
                   = [attempted |-> T \cup {v},
                      stake |-> StakeHeld(C) + (IF n \in good THEN stakeOf(v) ELSE 0)]
      BY <3>1, <3>2, Zenon DEF CountEntry
    <3>3. ASSUME ~fresh PROVE CountEntry(list, fits, good, n, acc) = acc
      BY <3>1, <3>3, Zenon DEF CountEntry
    <3> HIDE DEF fresh, T, C, v, Tried, Gained
    <3>4. QED
      BY <3>2, <3>3, <2>4, <2>7, Zenon
  <2>9. n \in 0..N
    OBVIOUS
  <2>10. QED
    BY <2>1, <2>8, <2>9, Zenon
<1>4. N \in S
  <2>1. N \in 0..N
    OBVIOUS
  <2> HIDE DEF S
  <2>2. QED
    BY <1>2, <1>3, <2>1, UpTo, Zenon
<1>5. c[N] = [attempted |-> Tried(N), stake |-> StakeHeld(Gained(N))]
  BY <1>4, Zenon
<1>6. c[N].stake = StakeHeld(Gained(N))
  BY <1>5
<1>7. QED
  BY <1>6, Zenon DEF CountedStake, c

\* The positions of a list whose signature verifies on m.
Signed(list, m) == {i \in DOMAIN list : list[i].sig = [by |-> list[i].validator, on |-> m]}

\* A quorum that is counted was signed: the stake of those whose signature on m is
\* somewhere in the list reaches what the counted stake reaches.
LEMMA QuorumSigned ==
    ASSUME NEW T, NEW list \in Seq(T), NEW m, NEW fits \in SUBSET DOMAIN list,
           \A i \in fits : stakeOf(list[i].validator) > 0,
           NEW f \in Fractions, FractionOK(f),
           Reaches(CountedStake(list, fits, Signed(list, m)), f)
    PROVE  Reaches(StakeHeld(Signers(list, m)), f)
<1> DEFINE C == CountedUpTo(list, fits, Signed(list, m), Len(list))
<1>1. Len(list) \in Nat /\ DOMAIN list = 1..Len(list) /\ fits \subseteq 1..Len(list)
  OBVIOUS
<1>2. Reaches(StakeHeld(C), f)
  <2>1. CountedStake(list, fits, Signed(list, m)) = StakeHeld(C)
    BY <1>1, StakeCounted, Zenon
  <2>2. QED
    BY <2>1, Zenon
<1>3. C \subseteq Signers(list, m)
  <2>1. SUFFICES ASSUME NEW v \in C PROVE v \in Signers(list, m)
    BY Zenon
  <2>2. PICK i \in FirstsUpTo(list, fits, Len(list)) : i \in Signed(list, m) /\ v = list[i].validator
    BY <2>1, Zenon DEF CountedUpTo
  <2>3. i \in fits /\ i \in DOMAIN list /\ list[i].sig = [by |-> v, on |-> m]
    BY <2>2, Zenon DEF FirstsUpTo, Signed
  <2>4. v \in Validators
    BY <2>2, <2>3, StakedListed, Zenon
  <2>5. QED
    BY <2>3, <2>4, Zenon DEF Signers
<1>4. f \in Int \X Int
  BY ClientAssumption, Zenon
<1> HIDE DEF C
<1>5. QED
  BY <1>2, <1>3, <1>4, ReachesGrows, Zenon

\* A quorum that is assembled is counted: what the genuine entries reach, the counted
\* stake reaches, when no entry that does not verify uses up the attempt.
LEMMA QuorumCounted ==
    ASSUME NEW T, NEW list \in Seq(T), NEW m, NEW fits \in SUBSET DOMAIN list,
           NEW f \in Fractions, FractionOK(f), Assembled(list, fits, m, f)
    PROVE  Reaches(CountedStake(list, fits, Signed(list, m)), f)
<1> DEFINE C == CountedUpTo(list, fits, Signed(list, m), Len(list))
           G == {v \in Validators : \E i \in fits : list[i].validator = v /\ list[i].sig = [by |-> v, on |-> m]}
<1>1. Len(list) \in Nat /\ DOMAIN list = 1..Len(list) /\ fits \subseteq 1..Len(list)
  OBVIOUS
<1>2. Reaches(StakeHeld(G), f)
  BY Zenon DEF Assembled, Gathered
<1>3. G \subseteq C
  <2>1. SUFFICES ASSUME NEW v \in G PROVE v \in C
    BY Zenon
  <2> DEFINE P == {i \in fits : list[i].validator = v}
  <2>2. P \in SUBSET Nat /\ P # {}
    <3>1. P # {}
      BY <2>1, Zenon
    <3>2. P \in SUBSET Nat
      BY <1>1
    <3>3. QED
      BY <3>1, <3>2
  <2>3. PICK i \in P : \A j \in P : i <= j
    BY <2>2, LeastNat, Zenon
  <2>4. \A j \in fits : j < i => list[j].validator # list[i].validator
    <3>1. \A j \in P : ~(j < i)
      BY <2>2, <2>3
    <3>2. QED
      BY <2>3, <3>1, Zenon
  <2>5. i \in Signed(list, m)
    BY <1>1, <2>3, <2>4, Zenon DEF Assembled, Untainted, Signed
  <2>6. i \in FirstsUpTo(list, fits, Len(list))
    BY <1>1, <2>3, <2>4, Zenon DEF FirstsUpTo
  <2>7. QED
    BY <2>3, <2>5, <2>6, Zenon DEF CountedUpTo
<1>4. f \in Int \X Int
  BY ClientAssumption, Zenon
<1>5. CountedStake(list, fits, Signed(list, m)) = StakeHeld(C)
  BY <1>1, StakeCounted, Zenon
<1> HIDE DEF C, G
<1>6. QED
  BY <1>2, <1>3, <1>4, <1>5, ReachesGrows, Zenon

\* A list of votes and one of attestations.
ListsOK == votes \in Seq(Votes) /\ atts \in Seq(Attestations)

\* The lists that are handed over stay lists.
LEMMA ListsStay == ClientSpec => []ListsOK
<1>1. ClientInit => ListsOK
  BY DEF ClientInit, ListsOK
<1>2. ListsOK /\ [ClientNext]_clientVars => ListsOK'
  <2> SUFFICES ASSUME ListsOK, [ClientNext]_clientVars PROVE ListsOK'
    OBVIOUS
  <2>1. ASSUME NEW v \in Votes, HandVote(v) PROVE ListsOK'
    BY <2>1 DEF ListsOK, HandVote
  <2>2. ASSUME NEW a \in Attestations, HandAttestation(a) PROVE ListsOK'
    BY <2>2 DEF ListsOK, HandAttestation
  <2>3. CASE UNCHANGED clientVars
    BY <2>3 DEF ListsOK, clientVars
  <2>4. QED
    BY <2>1, <2>2, <2>3, Zenon DEF ClientNext
<1>3. QED
  BY <1>1, <1>2, PTL DEF ClientSpec

\* A certificate that opens a round was signed by validators holding the fraction.
LEMMA CertificateSigned ==
    ASSUME ListsOK, NEW set, NEW suite, NEW height, NEW prev, NEW k, NEW f \in Fractions,
           NEW cert, cert.votes = votes,
           verifyViewChangeCert(set, suite, height, prev, k, cert, f)
    PROVE  Reaches(StakeHeld(Signers(votes, viewChangeMessage(suite, height, prev, k, set))), f)
<1> DEFINE m == viewChangeMessage(suite, height, prev, k, set)
           fits == {i \in DOMAIN votes : VoteFits(votes[i], suite, height, prev, k)}
<1>1. FractionOK(f) /\ Reaches(CountedStake(votes, fits, Signed(votes, m)), f)
  BY Zenon DEF verifyViewChangeCert, Signed
<1>2. \A i \in fits : stakeOf(votes[i].validator) > 0
  BY Zenon DEF VoteFits
<1>3. fits \in SUBSET DOMAIN votes /\ votes \in Seq(Votes)
  BY Zenon DEF ListsOK
<1> HIDE DEF fits, m
<1>4. Reaches(StakeHeld(Signers(votes, m)), f)
  BY <1>1, <1>2, <1>3, QuorumSigned, Zenon
<1>5. QED
  BY <1>4, Zenon DEF m

\* A finalized block was signed by validators holding the fraction.
LEMMA FinalizedSigned ==
    ASSUME ListsOK, NEW set, NEW b, NEW prev, NEW f \in Fractions, NEW opts,
           verifyFinalized(b, atts, set, prev, f, opts)
    PROVE  FractionOK(f) /\ Reaches(StakeHeld(Attesters(b, set)), f)
<1> DEFINE m == attestMessage(b.suite, b.header.height, b.header, set)
           fits == {i \in DOMAIN atts : AttestationFits(atts[i], b, opts)}
<1>1. FractionOK(f) /\ Reaches(CountedStake(atts, fits, Signed(atts, m)), f)
  BY Zenon DEF verifyFinalized, attestingStake, Signed
<1>2. \A i \in fits : stakeOf(atts[i].validator) > 0
  BY Zenon DEF AttestationFits
<1>3. fits \in SUBSET DOMAIN atts /\ atts \in Seq(Attestations)
  BY Zenon DEF ListsOK
<1> HIDE DEF fits, m
<1>4. Reaches(StakeHeld(Signers(atts, m)), f)
  BY <1>1, <1>2, <1>3, QuorumSigned, Zenon
<1>5. QED
  BY <1>1, <1>4, Zenon DEF m, Attesters

\* What Certified adds to a block.
LEMMA CertifiedFields ==
    ASSUME NEW c \in Blocks
    PROVE  /\ Certified(c).header = c.header
           /\ Certified(c).suite = c.suite
           /\ Certified(c).vrfProof = c.vrfProof
           /\ Certified(c).sig = c.sig
           /\ Certified(c).cert = IF c.header.round > 0
                                  THEN [round |-> c.header.round - 1, votes |-> votes] ELSE Nothing
<1> DEFINE x == IF c.header.round > 0 THEN [round |-> c.header.round - 1, votes |-> votes] ELSE Nothing
<1>1. c = [header |-> c.header, suite |-> c.suite, vrfProof |-> c.vrfProof, cert |-> c.cert, sig |-> c.sig]
  BY ClientAssumption, Zenon
<1>2. Certified(c) = [c EXCEPT !.cert = x]
  BY Zenon DEF Certified
<1> HIDE DEF x
<1>3. /\ [c EXCEPT !.cert = x].header = c.header
      /\ [c EXCEPT !.cert = x].suite = c.suite
      /\ [c EXCEPT !.cert = x].vrfProof = c.vrfProof
      /\ [c EXCEPT !.cert = x].sig = c.sig
      /\ [c EXCEPT !.cert = x].cert = x
  BY <1>1
<1>4. QED
  BY <1>2, <1>3, Zenon DEF x

\* The light client's half of what was earned.
LEMMA ClientEarned ==
    ASSUME ListsOK
    PROVE  FinalityIsEarned
<1> SUFFICES ASSUME NEW c \in Blocks, NEW set \in Sets, NEW f \in Fractions,
                    verifyFinalized(Certified(c), atts, set, Certified(c).header.prevHash, f, AnyOpts)
             PROVE  LET b == Certified(c) IN
                    /\ Reaches(StakeHeld(Attesters(b, set)), f)
                    /\ b.header.round >= 0
                    /\ IF set.keyed
                       THEN Owner[Draw[<<b.header.proposer, b.header.prevHash, b.header.round>>]] = b.header.proposer
                       ELSE b.header.round = 0 /\ b.vrfProof = Nothing
                    /\ b.header.round > 0 => Reaches(StakeHeld(GaveUp(b, set)), f)
  BY Zenon DEF FinalityIsEarned
<1> DEFINE b == Certified(c)
           h == b.header
<1>1. Reaches(StakeHeld(Attesters(b, set)), f)
  BY FinalizedSigned, Zenon
<1>2. h.round >= 0 /\ IF set.keyed THEN VrfLeader(b, set, h.prevHash, f) ELSE LegacyLeader(b, h.prevHash)
  BY Zenon DEF verifyFinalized
<1>3. CASE set.keyed
  <2>1. VrfLeader(b, set, h.prevHash, f)
    BY <1>2, <1>3, Zenon
  <2>2. Owner[Draw[<<h.proposer, h.prevHash, h.round>>]] = h.proposer
    BY <2>1, Zenon DEF VrfLeader, verify, vrfLeaderEligible
  <2>3. ASSUME h.round > 0 PROVE Reaches(StakeHeld(GaveUp(b, set)), f)
    <3>1. verifyViewChangeCert(set, b.suite, h.height, h.prevHash, h.round - 1, b.cert, f)
      BY <2>1, <2>3, Zenon DEF VrfLeader
    <3>2. b.cert = [round |-> h.round - 1, votes |-> votes]
      BY <2>3, CertifiedFields, Zenon
    <3>3. b.cert.votes = votes
      BY <3>2
    <3> HIDE DEF b
    <3>4. QED
      BY <3>1, <3>3, CertificateSigned, Zenon DEF GaveUp
  <2>4. QED
    BY <1>1, <1>2, <1>3, <2>2, <2>3, Zenon
<1>4. CASE ~set.keyed
  <2>1. h.round = 0 /\ b.vrfProof = Nothing
    BY <1>2, <1>4, Zenon DEF LegacyLeader
  <2>2. ~(h.round > 0)
    BY <2>1
  <2>3. QED
    BY <1>1, <1>2, <1>4, <2>1, <2>2, Zenon
<1>5. QED
  BY <1>3, <1>4, Zenon

\* Who reaches a fraction of a positive stake holds some.
LEMMA ReachesSome ==
    ASSUME NEW G, NEW f \in Int \X Int, FractionOK(f), Reaches(StakeHeld(G), f)
    PROVE  StakeHeld(G) > 0
<1>1. totalStake \in Nat /\ totalStake > 0
  BY StakeAssumption, FS_CardinalityType DEF totalStake, Reaches
<1>2. PICK x \in Int, y \in Int : f = <<x, y>>
  OBVIOUS
<1>3. f[1] = x /\ f[2] = y /\ x >= 1
  BY <1>2 DEF FractionOK
<1>4. x * totalStake > 0
  BY <1>1, <1>3
<1>5. StakeHeld(G) * y >= x * totalStake
  BY <1>3 DEF Reaches
<1> DEFINE g == StakeHeld(G)
<1>6. g \in Nat
  BY HeldType
<1> HIDE DEF g
<1>7. g # 0
  <2>1. 0 * y = 0
    OBVIOUS
  <2>2. g * y \in Int /\ x * totalStake \in Int /\ g * y >= x * totalStake
    BY <1>1, <1>5, <1>6 DEF g
  <2>3. g * y # 0
    BY <2>2, <1>4
  <2>4. QED
    BY <2>1, <2>3, Zenon
<1>8. g > 0
  BY <1>6, <1>7
<1>9. QED
  BY <1>8 DEF g

\* The fields of the proofs that can be handed over.
LEMMA ProofFields ==
    ASSUME NEW p \in Proofs
    PROVE  \E c \in Blocks, f \in Fractions, e \in {s.epoch : s \in Sets} \cup {Nothing} :
               p = exportFinalityProof(Certified(c), atts, c.header.prevHash, f, e)
BY DEF Proofs

\* The consumer's half of what was earned.
LEMMA ConsumerEarned ==
    ASSUME ListsOK
    PROVE  PortableIsEarned
<1> SUFFICES ASSUME NEW p \in Proofs, NEW set \in Sets, verifyPortableFinality(p, set, AnyOpts)
             PROVE  /\ Reaches(StakeHeld(Attesters(p.block, set)), p.fraction)
                    /\ StakeHeld(Attesters(p.block, set)) > 0
                    /\ set.epoch # Nothing => p.epoch \in {Nothing, set.epoch}
  BY Zenon DEF PortableIsEarned
<1>1. p.attestations = atts /\ p.fraction \in Fractions
  <2>1. PICK c \in Blocks, f \in Fractions, e \in {s.epoch : s \in Sets} \cup {Nothing} :
           p = exportFinalityProof(Certified(c), atts, c.header.prevHash, f, e)
    BY ProofFields, Zenon
  <2>2. QED
    BY <2>1 DEF exportFinalityProof
<1>2. verifyFinalized(p.block, atts, set, p.expectedPrev, p.fraction, AnyOpts)
  BY <1>1, Zenon DEF verifyPortableFinality
<1>3. FractionOK(p.fraction) /\ Reaches(StakeHeld(Attesters(p.block, set)), p.fraction)
  BY <1>1, <1>2, FinalizedSigned, Zenon
<1>4. p.fraction \in Int \X Int
  BY <1>1, ClientAssumption, Zenon
<1>5. StakeHeld(Attesters(p.block, set)) > 0
  BY <1>3, <1>4, ReachesSome, Zenon
<1>6. set.epoch # Nothing => p.epoch \in {Nothing, set.epoch}
  BY Zenon DEF verifyPortableFinality
<1>7. QED
  BY <1>3, <1>5, <1>6, Zenon

\* For every validator set, block and pair of lists: what a light client or the consumer
\* of a portable proof takes for final was signed by validators holding the fraction, its
\* proposer was drawn, and a later round was opened by validators holding the fraction
\* (verifyFinalized, verifyViewChangeCert, verifyPortableFinality).
THEOREM FinalityEarned == ClientSpec => []OnlyEarnedFinality
<1>1. ListsOK => OnlyEarnedFinality
  BY ClientEarned, ConsumerEarned, Zenon DEF OnlyEarnedFinality
<1>2. QED
  BY <1>1, ListsStay, PTL

\* The bound on the lists is a number.
LEMMA CapType == maxVotes \in Int
<1>1. VOTES_PER_VALIDATOR \in Nat /\ MIN_VOTES \in Nat
  BY ClientAssumption, Zenon
<1>2. Cardinality(Validators) \in Nat
  BY StakeAssumption, FS_CardinalityType, Zenon
<1>3. Cardinality(Validators) * VOTES_PER_VALIDATOR \in Int /\ MIN_VOTES \in Int
  BY <1>1, <1>2
<1>4. QED
  BY <1>3, LargerOfTwo, Zenon DEF maxVotes

\* A certificate assembled by a quorum verifies.
LEMMA CertificateCounts ==
    ASSUME ListsOK, NEW set, NEW suite, NEW height, NEW prev, NEW k \in Int, k >= 0,
           NEW f \in Fractions, FractionOK(f), Len(votes) <= maxVotes,
           Assembled(votes, {i \in DOMAIN votes : VoteFits(votes[i], suite, height, prev, k)},
                     viewChangeMessage(suite, height, prev, k, set), f)
    PROVE  verifyViewChangeCert(set, suite, height, prev, k, [round |-> k, votes |-> votes], f)
<1> DEFINE m == viewChangeMessage(suite, height, prev, k, set)
           fits == {i \in DOMAIN votes : VoteFits(votes[i], suite, height, prev, k)}
           cert == [round |-> k, votes |-> votes]
<1>1. cert.round = k /\ cert.votes = votes
  OBVIOUS
<1>2. cert # Nothing
  <2>1. cert \in [round : Int, votes : Seq(Votes)]
    BY DEF ListsOK
  <2> HIDE DEF cert
  <2>2. QED
    BY <2>1, ClientAssumption, Zenon
<1>3. Reaches(CountedStake(votes, fits, Signed(votes, m)), f)
  <2>1. fits \in SUBSET DOMAIN votes /\ votes \in Seq(Votes) /\ Assembled(votes, fits, m, f)
    BY Zenon DEF ListsOK
  <2> HIDE DEF fits, m
  <2>2. QED
    BY <2>1, QuorumCounted, Zenon
<1> HIDE DEF cert
<1>4. verifyViewChangeCert(set, suite, height, prev, k, cert, f)
  BY <1>1, <1>2, <1>3, Zenon DEF verifyViewChangeCert, Signed
<1>5. QED
  BY <1>4, Zenon DEF cert

\* A block of the drawn proposer that was assembled becomes final.
LEMMA ElectedCounts ==
    ASSUME ListsOK
    PROVE  ElectedFinalizes
<1> SUFFICES ASSUME NEW c \in Blocks, NEW set \in Sets, set.keyed, NEW f \in Fractions, FractionOK(f),
                    ElectedAssembled(c, set, f)
             PROVE  LET h == c.header
                        b == proposeVrf(c.suite, h.height, h.prevHash, h.round, h.proposer, set,
                                        Certified(c).cert, f)
                    IN  b # Nothing /\ verifyFinalized(b, atts, set, h.prevHash, f,
                                                      [suite |-> c.suite, height |-> h.height])
  BY Zenon DEF ElectedFinalizes
<1> DEFINE h == c.header
           cert == Certified(c).cert
           proof == prove(h.proposer, h.prevHash, h.round)
           opts == [suite |-> c.suite, height |-> h.height]
           built == [header |-> h, suite |-> c.suite, vrfProof |-> proof, cert |-> cert,
                     sig |-> [by |-> h.proposer, on |-> <<c.suite, h>>]]
           m == attestMessage(c.suite, h.height, h, set)
           fits == {i \in DOMAIN atts : AttestationFits(atts[i], c, AnyOpts)}
<1>0. /\ h.round >= 0
      /\ h.vrfOutput = Draw[<<h.proposer, h.prevHash, h.round>>] /\ Owner[h.vrfOutput] = h.proposer
      /\ Len(votes) <= maxVotes /\ Len(atts) <= maxVotes
      /\ h.round > 0 =>
            Assembled(votes, {i \in DOMAIN votes : VoteFits(votes[i], c.suite, h.height, h.prevHash, h.round - 1)},
                      viewChangeMessage(c.suite, h.height, h.prevHash, h.round - 1, set), f)
      /\ Assembled(atts, fits, m, f)
  BY Zenon DEF ElectedAssembled
<1>1. h = [height |-> h.height, prevHash |-> h.prevHash, round |-> h.round,
           proposer |-> h.proposer, vrfOutput |-> h.vrfOutput] /\ h.round \in Int
  BY ClientAssumption, Zenon
<1>2. h.round > 0 => verifyViewChangeCert(set, c.suite, h.height, h.prevHash, h.round - 1, cert, f)
  <2> SUFFICES ASSUME h.round > 0
               PROVE  verifyViewChangeCert(set, c.suite, h.height, h.prevHash, h.round - 1, cert, f)
    BY Zenon
  <2>1. h.round - 1 \in Int /\ h.round - 1 >= 0
    BY <1>1
  <2>2. cert = [round |-> h.round - 1, votes |-> votes]
    BY CertifiedFields, Zenon
  <2> HIDE DEF cert
  <2>3. QED
    BY <1>0, <2>1, <2>2, CertificateCounts, Zenon
<1>3. proposeVrf(c.suite, h.height, h.prevHash, h.round, h.proposer, set, cert, f) = built
  <2>1. h = [height |-> h.height, prevHash |-> h.prevHash, round |-> h.round,
             proposer |-> h.proposer, vrfOutput |-> Draw[<<h.proposer, h.prevHash, h.round>>]]
    BY <1>0, <1>1, Zenon
  <2> HIDE DEF cert
  <2>2. QED
    BY <1>0, <1>2, <2>1, Zenon DEF proposeVrf, vrfLeaderEligible
<1>4. proof # Nothing /\ h.vrfOutput \in Units /\ h.vrfOutput # Nothing
  <2>1. proof # Nothing
    BY ClientAssumption, Zenon DEF prove, vrfAlpha
  <2>2. Draw[<<h.proposer, h.prevHash, h.round>>] \in Units /\ Nothing \notin Units
    BY ClientAssumption, Zenon
  <2>3. QED
    BY <1>0, <2>1, <2>2, Zenon
<1>5. built # Nothing
  <2>1. cert \in {Nothing} \cup [round : Int, votes : Seq(Votes)]
    <3>1. cert = IF h.round > 0 THEN [round |-> h.round - 1, votes |-> votes] ELSE Nothing
      BY CertifiedFields, Zenon
    <3>2. [round |-> h.round - 1, votes |-> votes] \in [round : Int, votes : Seq(Votes)]
      BY <1>1 DEF ListsOK
    <3>3. QED
      BY <3>1, <3>2, Zenon
  <2>2. built \in [header : {h}, suite : {c.suite}, vrfProof : {proof},
                   cert : {Nothing} \cup [round : Int, votes : Seq(Votes)],
                   sig : {[by |-> h.proposer, on |-> <<c.suite, h>>]}]
    <3> HIDE DEF cert, h, proof
    <3>1. QED
      BY <2>1
  <2>3. Nothing \notin [header : {h}, suite : {c.suite}, vrfProof : {proof},
                        cert : {Nothing} \cup [round : Int, votes : Seq(Votes)],
                        sig : {[by |-> h.proposer, on |-> <<c.suite, h>>]}]
    BY ClientAssumption, Zenon DEF prove, vrfAlpha
  <2> HIDE DEF built
  <2>4. QED
    BY <2>2, <2>3, Zenon
<1>6. /\ built.header = h /\ built.suite = c.suite /\ built.vrfProof = proof /\ built.cert = cert
      /\ built.sig = [by |-> h.proposer, on |-> <<c.suite, h>>]
      /\ opts.suite = c.suite /\ opts.height = h.height
      /\ AnyOpts.suite = Nothing
  BY DEF AnyOpts
<1>7. h.proposer \in Validators
  BY <1>0, <1>4, StakeAssumption
<1> HIDE DEF built, cert, opts
<1>8. VrfLeader(built, set, h.prevHash, f)
  BY <1>0, <1>2, <1>4, <1>6, <1>7, Zenon DEF VrfLeader, verify, vrfLeaderEligible
<1>9. Reaches(attestingStake(built, atts, set, opts), f)
  <2>1. fits = {i \in DOMAIN atts : AttestationFits(atts[i], built, opts)}
    <3>1. \A a : AttestationFits(a, c, AnyOpts) <=> AttestationFits(a, built, opts)
      BY <1>6, Zenon DEF AttestationFits
    <3>2. QED
      BY <3>1, Zenon
  <2>2. fits \in SUBSET DOMAIN atts /\ atts \in Seq(Attestations) /\ Assembled(atts, fits, m, f)
    BY <1>0, Zenon DEF ListsOK
  <2>3. Reaches(CountedStake(atts, fits, Signed(atts, m)), f)
    <3> HIDE DEF fits, m
    <3>1. QED
      BY <2>2, QuorumCounted, Zenon
  <2>4. attestingStake(built, atts, set, opts) = CountedStake(atts, fits, Signed(atts, m))
    <3> HIDE DEF fits
    <3>1. QED
      BY <1>6, <2>1, Zenon DEF attestingStake, Signed
  <2>5. QED
    BY <2>3, <2>4, Zenon
<1>10. verifyFinalized(built, atts, set, h.prevHash, f, opts)
  <2>1. totalStake > 0
    BY <1>9, Zenon DEF Reaches
  <2>2. QED
    BY <1>0, <1>6, <1>8, <1>9, <2>1, Zenon DEF verifyFinalized
<1>11. QED
  BY <1>3, <1>5, <1>10, Zenon DEF cert, opts

\* The rounds of the filter of finalityProofToEvmInput.
LEMMA KeepRounds ==
    ASSUME NEW p, NEW T, p.attestations \in Seq(T)
    PROVE  /\ KeepLoop(p)[0] = <<>>
           /\ \A n \in 1..Len(p.attestations) : KeepLoop(p)[n] = KeepEntry(p, n, KeepLoop(p)[n - 1])
<1> DEFINE N == Len(p.attestations)
           Acc == Seq(T)
           Rounds(f) == f = [i \in 0..N |-> IF i = 0 THEN <<>> ELSE KeepEntry(p, i, f[i - 1])]
           step == [x \in (1..N) \X Acc |-> KeepEntry(p, x[1], x[2])]
<1>0. N \in Nat
  OBVIOUS
<1>1. step \in [(1..N) \X Acc -> Acc]
  <2>1. ASSUME NEW i \in 1..N, NEW kept \in Acc PROVE KeepEntry(p, i, kept) \in Acc
    <3>1. p.attestations[i] \in T
      OBVIOUS
    <3>2. QED
      BY <3>1 DEF KeepEntry
  <2>2. QED
    BY <2>1
<1>2. PICK f \in [0..N -> Acc] : IsLoop(f, N, <<>>, step)
  <2>1. <<>> \in Acc
    OBVIOUS
  <2> HIDE DEF step, Acc, N
  <2>2. QED
    BY <1>0, <1>1, <2>1, LoopExists, Zenon
<1>3. Rounds(f)
  <2>1. ASSUME NEW n \in 0..N, n # 0
        PROVE  step[<<n, f[n - 1]>>] = KeepEntry(p, n, f[n - 1])
    <3>1. n \in 1..N /\ n - 1 \in 0..N
      BY <2>1
    <3>2. f[n - 1] \in Acc
      BY <3>1
    <3> HIDE DEF Acc
    <3>3. QED
      BY <3>1, <3>2
  <2>2. QED
    BY <1>2, <2>1, Zenon DEF IsLoop
<1>4. KeepLoop(p) = CHOOSE g : Rounds(g)
  BY Zenon DEF KeepLoop
<1>5. Rounds(KeepLoop(p))
  <2> HIDE DEF Rounds
  <2>1. QED
    BY <1>3, <1>4, Zenon
<1> DEFINE c == KeepLoop(p)
<1>6. c = [i \in 0..N |-> IF i = 0 THEN <<>> ELSE KeepEntry(p, i, c[i - 1])]
  BY <1>5, Zenon
<1> HIDE DEF c
<1>7. /\ c[0] = <<>>
      /\ \A n \in 1..N : c[n] = KeepEntry(p, n, c[n - 1])
  <2>1. 0 \in 0..N /\ \A n \in 1..N : n \in 0..N /\ n # 0
    BY <1>0
  <2>2. QED
    BY <1>6, <2>1, Zenon
<1>8. QED
  BY <1>7, Zenon DEF c

\* The positions of a list that fit a block, and the count of the list for it.
Fitting(list, b) == {i \in DOMAIN list : AttestationFits(list[i], b, AnyOpts)}
Count(list, b, m) == StakeLoop(list, Fitting(list, b), Signed(list, m))

\* The rounds of that count.
LEMMA CountRounds ==
    ASSUME NEW list, NEW b, NEW m, Len(list) \in Nat, NEW n \in 1..Len(list)
    PROVE  Count(list, b, m)[n]
               = CountEntry(list, Fitting(list, b), Signed(list, m), n, Count(list, b, m)[n - 1])
BY StakeRounds, Zenon DEF Count

\* A longer list counts its beginning the same.
LEMMA CountPrefix ==
    ASSUME NEW T, NEW s \in Seq(T), NEW a \in T, NEW b, NEW m
    PROVE  \A i \in 0..Len(s) : Count(Append(s, a), b, m)[i] = Count(s, b, m)[i]
<1> DEFINE t == Append(s, a)
           N == Len(s)
           S == {i \in 0..N : Count(t, b, m)[i] = Count(s, b, m)[i]}
<1>1. /\ N \in Nat /\ Len(t) = N + 1 /\ t \in Seq(T)
      /\ DOMAIN s = 1..N /\ DOMAIN t = 1..(N + 1)
      /\ \A i \in 1..N : t[i] = s[i]
  OBVIOUS
<1> HIDE DEF t
<1>2. 0 \in S
  <2>1. Count(t, b, m)[0] = Count(s, b, m)[0]
    BY <1>1, StakeRounds DEF Count
  <2>2. QED
    BY <1>1, <2>1
<1>3. ASSUME NEW n \in 1..N, n - 1 \in S PROVE n \in S
  <2>1. n \in DOMAIN s /\ n \in DOMAIN t /\ n \in 1..Len(t) /\ t[n] = s[n]
    BY <1>1
  <2>2. n \in Fitting(t, b) <=> n \in Fitting(s, b)
    BY <2>1, Zenon DEF Fitting
  <2>3. n \in Signed(t, m) <=> n \in Signed(s, m)
    BY <2>1, Zenon DEF Signed
  <2> DEFINE acc == Count(s, b, m)[n - 1]
  <2>4. Count(t, b, m)[n] = CountEntry(t, Fitting(t, b), Signed(t, m), n, acc)
    <3>1. Len(t) \in Nat
      BY <1>1
    <3>2. Count(t, b, m)[n] = CountEntry(t, Fitting(t, b), Signed(t, m), n, Count(t, b, m)[n - 1])
      BY <2>1, <3>1, StakeRounds, Zenon DEF Count
    <3>3. QED
      BY <1>3, <3>2, Zenon
  <2>5. Count(s, b, m)[n] = CountEntry(s, Fitting(s, b), Signed(s, m), n, acc)
    <3>1. Len(s) \in Nat /\ n \in 1..Len(s)
      BY <1>1
    <3>2. QED
      BY <3>1, StakeRounds, Zenon DEF Count
  <2>6. CountEntry(t, Fitting(t, b), Signed(t, m), n, acc) = CountEntry(s, Fitting(s, b), Signed(s, m), n, acc)
    <3> HIDE DEF acc
    <3>1. QED
      BY <2>1, <2>2, <2>3, Zenon DEF CountEntry
  <2>7. n \in 0..N
    OBVIOUS
  <2>8. QED
    BY <2>4, <2>5, <2>6, <2>7, Zenon
<1>4. \A i \in 0..N : i \in S
  <2> HIDE DEF S
  <2>1. QED
    BY <1>1, <1>2, <1>3, UpTo, Zenon
<1>5. QED
  BY <1>4, Zenon DEF t

\* What the filter keeps counts for the block of the proof as the whole list does.
LEMMA KeptCounts ==
    ASSUME NEW p, NEW T, p.attestations \in Seq(T), NEW m
    PROVE  LET view == finalityProofToEvmInput(p)
               list == p.attestations
           IN  /\ view \in Seq(T) /\ Len(view) <= Len(list)
               /\ Count(view, p.block, m)[Len(view)] = Count(list, p.block, m)[Len(list)]
<1> DEFINE L == p.attestations
           N == Len(L)
           b == p.block
           V == KeepLoop(p)
           S == {n \in 0..N : /\ V[n] \in Seq(T) /\ Len(V[n]) <= n
                              /\ Count(V[n], b, m)[Len(V[n])] = Count(L, b, m)[n]}
<1>1. /\ V[0] = <<>>
      /\ \A n \in 1..N : V[n] = KeepEntry(p, n, V[n - 1])
  BY KeepRounds, Zenon
<1>2. N \in Nat /\ DOMAIN L = 1..N /\ \A n \in 1..N : L[n] \in T
  OBVIOUS
<1> HIDE DEF V
<1>3. 0 \in S
  <2>1. V[0] \in Seq(T) /\ Len(V[0]) = 0
    BY <1>1
  <2>2. Count(V[0], b, m)[0] = Count(L, b, m)[0]
    <3>1. Len(V[0]) \in Nat /\ Len(L) \in Nat
      BY <1>2, <2>1
    <3>2. QED
      BY <3>1, StakeRounds, Zenon DEF Count
  <2>3. 0 \in 0..N /\ 0 <= 0
    BY <1>2
  <2>4. QED
    BY <2>1, <2>2, <2>3, Zenon
<1>4. ASSUME NEW n \in 1..N, n - 1 \in S PROVE n \in S
  <2> DEFINE W == V[n - 1]
             a == L[n]
             about == a.blockHash = b.header /\ a.height = b.header.height
  <2>1. W \in Seq(T) /\ Len(W) \in Nat /\ Len(W) <= n - 1
    BY <1>4
  <2>2. Count(W, b, m)[Len(W)] = Count(L, b, m)[n - 1]
    BY <1>4, Zenon
  <2>3. V[n] = IF about THEN Append(W, a) ELSE W
    BY <1>1, Zenon DEF KeepEntry
  <2>4. n \in 0..N /\ n \in 1..N /\ n \in DOMAIN L /\ a \in T
    BY <1>2
  <2>5. Count(L, b, m)[n] = CountEntry(L, Fitting(L, b), Signed(L, m), n, Count(L, b, m)[n - 1])
    BY <1>2, <2>4, CountRounds
  <2> HIDE DEF W
  <2>6. CASE about
    <3> DEFINE X == Append(W, a)
               k == Len(W) + 1
    <3>1. X \in Seq(T) /\ Len(X) = k /\ Len(X) \in Nat /\ k \in 1..Len(X) /\ k - 1 = Len(W) /\ k <= n
          /\ X[k] = a /\ k \in DOMAIN X /\ Len(W) \in 0..Len(W)
      BY <2>1, <2>4
    <3>2. Count(X, b, m)[Len(W)] = Count(L, b, m)[n - 1]
      <4>1. \A i \in 0..Len(W) : Count(X, b, m)[i] = Count(W, b, m)[i]
        BY <2>1, <2>4, CountPrefix
      <4>2. QED
        BY <2>2, <3>1, <4>1, Zenon
    <3> HIDE DEF X, k
    <3>3. Count(X, b, m)[k] = CountEntry(X, Fitting(X, b), Signed(X, m), k, Count(X, b, m)[k - 1])
      BY <3>1, CountRounds
    <3>4. k \in Fitting(X, b) <=> n \in Fitting(L, b)
      BY <2>4, <3>1, Zenon DEF Fitting
    <3>5. k \in Signed(X, m) <=> n \in Signed(L, m)
      BY <2>4, <3>1, Zenon DEF Signed
    <3> DEFINE acc == Count(L, b, m)[n - 1]
    <3>6. Count(X, b, m)[k] = CountEntry(X, Fitting(X, b), Signed(X, m), k, acc)
      BY <3>1, <3>2, <3>3, Zenon
    <3>7. CountEntry(X, Fitting(X, b), Signed(X, m), k, acc) = CountEntry(L, Fitting(L, b), Signed(L, m), n, acc)
      <4> HIDE DEF acc
      <4>1. QED
        BY <3>1, <3>4, <3>5, Zenon DEF CountEntry
    <3>8. V[n] = X
      BY <2>3, <2>6, Zenon DEF X
    <3>9. QED
      BY <2>4, <2>5, <3>1, <3>6, <3>7, <3>8, Zenon
  <2>7. CASE ~about
    <3>1. n \notin Fitting(L, b)
      BY <2>7, Zenon DEF Fitting, AttestationFits
    <3>2. Count(L, b, m)[n] = Count(L, b, m)[n - 1]
      BY <2>5, <3>1, Zenon DEF CountEntry
    <3>3. Len(W) <= n
      BY <2>1
    <3>4. QED
      BY <2>1, <2>2, <2>3, <2>4, <2>7, <3>2, <3>3, Zenon
  <2>8. QED
    BY <2>6, <2>7, Zenon
<1>5. N \in S
  <2>1. N \in 0..N
    BY <1>2
  <2> HIDE DEF S, N
  <2>2. QED
    BY <1>2, <1>3, <1>4, <2>1, UpTo, Zenon
<1>6. QED
  BY <1>5, Zenon DEF finalityProofToEvmInput, V

\* A relayed view keeps the verdict.
LEMMA RelayCounts ==
    ASSUME ListsOK
    PROVE  RelayedViewKeepsVerdict
<1> SUFFICES ASSUME NEW p \in Proofs, NEW set \in Sets, Len(p.attestations) <= maxVotes
             PROVE  verifyPortableFinality([p EXCEPT !.attestations = finalityProofToEvmInput(p)], set, AnyOpts)
                       <=> verifyPortableFinality(p, set, AnyOpts)
  BY Zenon DEF RelayedViewKeepsVerdict
<1> DEFINE view == finalityProofToEvmInput(p)
           q == [p EXCEPT !.attestations = view]
           m == attestMessage(p.block.suite, p.block.header.height, p.block.header, set)
<1>1. /\ p.attestations = atts /\ q.attestations = view
      /\ q.block = p.block /\ q.expectedPrev = p.expectedPrev
      /\ q.fraction = p.fraction /\ q.epoch = p.epoch
  <2>1. PICK c \in Blocks, f \in Fractions, e \in {s.epoch : s \in Sets} \cup {Nothing} :
           p = exportFinalityProof(Certified(c), atts, c.header.prevHash, f, e)
    BY ProofFields, Zenon
  <2> HIDE DEF view
  <2>2. QED
    BY <2>1 DEF exportFinalityProof
<1>2. p.attestations \in Seq(Attestations)
  BY <1>1, Zenon DEF ListsOK
<1>3. /\ view \in Seq(Attestations) /\ Len(view) <= Len(p.attestations)
      /\ Count(view, p.block, m)[Len(view)] = Count(p.attestations, p.block, m)[Len(p.attestations)]
  BY <1>2, KeptCounts, Zenon
<1>4. Len(view) <= maxVotes
  <2>1. Len(view) \in Int /\ Len(p.attestations) \in Int /\ maxVotes \in Int
    BY <1>2, <1>3, CapType
  <2> HIDE DEF view
  <2>2. QED
    BY <1>3, <2>1
<1>5. attestingStake(p.block, view, set, AnyOpts) = attestingStake(p.block, p.attestations, set, AnyOpts)
  <2>1. \A list : attestingStake(p.block, list, set, AnyOpts) = Count(list, p.block, m)[Len(list)].stake
    BY Zenon DEF attestingStake, CountedStake, Count, Fitting, Signed
  <2> HIDE DEF view, m
  <2>2. QED
    BY <1>3, <2>1, Zenon
<1> HIDE DEF view, q
<1>6. verifyFinalized(p.block, view, set, p.expectedPrev, p.fraction, AnyOpts)
         <=> verifyFinalized(p.block, p.attestations, set, p.expectedPrev, p.fraction, AnyOpts)
  BY <1>4, <1>5, Zenon DEF verifyFinalized
<1>7. verifyPortableFinality(q, set, AnyOpts) <=> verifyPortableFinality(p, set, AnyOpts)
  BY <1>1, <1>6, Zenon DEF verifyPortableFinality
<1>8. QED
  BY <1>7, Zenon DEF q, view

\* For every validator set, block and pair of lists: a block of the drawn proposer with a
\* quorum of genuine votes and attestations becomes final, and what a relayer passes on
\* has the verdict of the whole proof (proposeVrf, verifyFinalized, finalityProofToEvmInput).
THEOREM EarnedCounts == ClientSpec => []EarnedFinalityCounts
<1>1. ListsOK => EarnedFinalityCounts
  BY ElectedCounts, RelayCounts, Zenon DEF EarnedFinalityCounts
<1>2. QED
  BY <1>1, ListsStay, PTL

(***************************************************************************)
(* Finality on EVM chains.  A set in call order is its own canonical form, *)
(* so the contract and the reference hash the same set, check signatures on *)
(* the same message and add up the same stakes.                            *)
(***************************************************************************)

\* The order on keys has no cycles of two.
LEMMA LtAsymmetric ==
    ASSUME NEW x \in Seq(Int), NEW y \in Seq(Int), _lt(x, y)
    PROVE  ~_lt(y, x)
<1> DEFINE A(u, v) == \E i \in DOMAIN u \cap DOMAIN v : u[i] < v[i] /\ \A j \in 1..i - 1 : u[j] = v[j]
           B(u, v) == Len(u) < Len(v) /\ \A j \in DOMAIN u : u[j] = v[j]
<1>1. (A(x, y) \/ B(x, y)) /\ (_lt(y, x) => A(y, x) \/ B(y, x))
  BY Zenon DEF _lt
<1>2. /\ DOMAIN x = 1..Len(x) /\ DOMAIN y = 1..Len(y) /\ Len(x) \in Nat /\ Len(y) \in Nat
      /\ \A i \in DOMAIN x : x[i] \in Int
      /\ \A i \in DOMAIN y : y[i] \in Int
  OBVIOUS
<1>3. ~(A(x, y) /\ A(y, x))
  <2>1. SUFFICES ASSUME NEW i \in DOMAIN x \cap DOMAIN y, x[i] < y[i], \A j \in 1..i - 1 : x[j] = y[j],
                        NEW k \in DOMAIN y \cap DOMAIN x, y[k] < x[k], \A j \in 1..k - 1 : y[j] = x[j]
                 PROVE  FALSE
    BY Zenon
  <2>2. i \in 1..Len(x) /\ k \in 1..Len(x) /\ x[i] \in Int /\ y[i] \in Int /\ x[k] \in Int /\ y[k] \in Int
    BY <1>2
  <2>3. i # k
    BY <2>1, <2>2
  <2>4. i < k => i \in 1..k - 1
    BY <2>2
  <2>5. k < i => k \in 1..i - 1
    BY <2>2
  <2>6. QED
    BY <2>1, <2>2, <2>3, <2>4, <2>5
<1>4. ~(A(x, y) /\ B(y, x))
  <2>1. SUFFICES ASSUME NEW i \in DOMAIN x \cap DOMAIN y, x[i] < y[i], \A j \in DOMAIN y : y[j] = x[j]
                 PROVE  FALSE
    BY Zenon
  <2>2. y[i] = x[i] /\ x[i] \in Int
    BY <1>2, <2>1
  <2>3. QED
    BY <2>1, <2>2
<1>5. ~(B(x, y) /\ A(y, x))
  <2>1. SUFFICES ASSUME NEW i \in DOMAIN y \cap DOMAIN x, y[i] < x[i], \A j \in DOMAIN x : x[j] = y[j]
                 PROVE  FALSE
    BY Zenon
  <2>2. y[i] = x[i] /\ x[i] \in Int
    BY <1>2, <2>1
  <2>3. QED
    BY <2>1, <2>2
<1>6. ~(B(x, y) /\ B(y, x))
  BY <1>2
<1>7. QED
  BY <1>1, <1>3, <1>4, <1>5, <1>6, Zenon

\* A position before another.
LEMMA Before ==
    ASSUME NEW l \in Nat, NEW m \in Nat, NEW i \in 1..l, NEW k \in 1..m, i < k
    PROVE  i \in 1..k - 1 /\ i \in 1..m /\ \A j \in 1..i - 1 : j \in 1..k - 1
OBVIOUS

\* The order on keys is transitive.
LEMMA LtTransitive ==
    ASSUME NEW x \in Seq(Int), NEW y \in Seq(Int), NEW z \in Seq(Int), _lt(x, y), _lt(y, z)
    PROVE  _lt(x, z)
<1> DEFINE A(u, v) == \E i \in DOMAIN u \cap DOMAIN v : u[i] < v[i] /\ \A j \in 1..i - 1 : u[j] = v[j]
           B(u, v) == Len(u) < Len(v) /\ \A j \in DOMAIN u : u[j] = v[j]
<1>1. (A(x, y) \/ B(x, y)) /\ (A(y, z) \/ B(y, z)) /\ (A(x, z) \/ B(x, z) => _lt(x, z))
  BY Zenon DEF _lt
<1>2. /\ DOMAIN x = 1..Len(x) /\ DOMAIN y = 1..Len(y) /\ DOMAIN z = 1..Len(z)
      /\ Len(x) \in Nat /\ Len(y) \in Nat /\ Len(z) \in Nat
      /\ \A i \in 1..Len(x) : x[i] \in Int
      /\ \A i \in 1..Len(y) : y[i] \in Int
      /\ \A i \in 1..Len(z) : z[i] \in Int
  OBVIOUS
<1>0. Len(x) \in Nat /\ Len(y) \in Nat /\ Len(z) \in Nat
  BY <1>2, Zenon
<1>3. ASSUME A(x, y), A(y, z) PROVE A(x, z)
  <2>1. PICK i \in DOMAIN x \cap DOMAIN y : x[i] < y[i] /\ \A j \in 1..i - 1 : x[j] = y[j]
    BY <1>3, Zenon
  <2>2. PICK k \in DOMAIN y \cap DOMAIN z : y[k] < z[k] /\ \A j \in 1..k - 1 : y[j] = z[j]
    BY <1>3, Zenon
  <2>3. i \in 1..Len(x) /\ i \in 1..Len(y) /\ k \in 1..Len(y) /\ k \in 1..Len(z)
    BY <1>2
  <2>4. CASE i < k
    <3>1. i \in 1..k - 1 /\ i \in 1..Len(z) /\ \A j \in 1..i - 1 : j \in 1..k - 1
      BY <1>0, <2>3, <2>4, Before, Zenon
    <3>2. x[i] < z[i] /\ \A j \in 1..i - 1 : x[j] = z[j]
      <4>1. y[i] = z[i]
        BY <2>2, <3>1, Zenon
      <4>2. \A j \in 1..i - 1 : x[j] = z[j]
        BY <2>1, <2>2, <3>1, Zenon
      <4>3. QED
        BY <2>1, <2>2, <4>1, <4>2, Zenon
    <3>3. i \in DOMAIN x \cap DOMAIN z
      BY <1>2, <2>3, <3>1
    <3>4. QED
      BY <3>2, <3>3, Zenon
  <2>5. CASE i = k
    <3>1. x[i] < z[i]
      BY <1>2, <2>1, <2>2, <2>3, <2>5
    <3>2. \A j \in 1..i - 1 : x[j] = z[j]
      BY <2>1, <2>2, <2>5
    <3>3. i \in DOMAIN x \cap DOMAIN z
      BY <1>2, <2>3, <2>5
    <3>4. QED
      BY <3>1, <3>2, <3>3, Zenon
  <2>6. CASE k < i
    <3>1. k \in 1..i - 1 /\ k \in 1..Len(x) /\ \A j \in 1..k - 1 : j \in 1..i - 1
      BY <1>0, <2>3, <2>6, Before, Zenon
    <3>2. x[k] < z[k] /\ \A j \in 1..k - 1 : x[j] = z[j]
      <4>1. x[k] = y[k]
        BY <2>1, <3>1, Zenon
      <4>2. \A j \in 1..k - 1 : x[j] = z[j]
        BY <2>1, <2>2, <3>1, Zenon
      <4>3. QED
        BY <2>1, <2>2, <4>1, <4>2, Zenon
    <3>3. k \in DOMAIN x \cap DOMAIN z
      BY <1>2, <2>3, <3>1
    <3>4. QED
      BY <3>2, <3>3, Zenon
  <2>7. QED
    BY <2>3, <2>4, <2>5, <2>6
<1>4. ASSUME A(x, y), B(y, z) PROVE A(x, z)
  <2>1. PICK i \in DOMAIN x \cap DOMAIN y : x[i] < y[i] /\ \A j \in 1..i - 1 : x[j] = y[j]
    BY <1>4, Zenon
  <2>2. Len(y) < Len(z) /\ \A j \in DOMAIN y : y[j] = z[j]
    BY <1>4, Zenon
  <2>3. i \in 1..Len(x) /\ i \in 1..Len(y) /\ i \in 1..Len(z) /\ \A j \in 1..i - 1 : j \in DOMAIN y
    BY <1>2, <2>2
  <2>4. x[i] < z[i] /\ \A j \in 1..i - 1 : x[j] = z[j]
    BY <2>1, <2>2, <2>3
  <2>5. i \in DOMAIN x \cap DOMAIN z
    BY <1>2, <2>3
  <2>6. QED
    BY <2>4, <2>5, Zenon
<1>5. ASSUME B(x, y), A(y, z) PROVE A(x, z) \/ B(x, z)
  <2>1. Len(x) < Len(y) /\ \A j \in DOMAIN x : x[j] = y[j]
    BY <1>5, Zenon
  <2>2. PICK k \in DOMAIN y \cap DOMAIN z : y[k] < z[k] /\ \A j \in 1..k - 1 : y[j] = z[j]
    BY <1>5, Zenon
  <2>3. k \in 1..Len(y) /\ k \in 1..Len(z)
    BY <1>2
  <2>4. CASE k <= Len(x)
    <3>1. k \in DOMAIN x /\ \A j \in 1..k - 1 : j \in DOMAIN x
      BY <1>2, <2>3, <2>4
    <3>2. x[k] < z[k] /\ \A j \in 1..k - 1 : x[j] = z[j]
      BY <2>1, <2>2, <3>1
    <3>3. k \in DOMAIN x \cap DOMAIN z
      BY <1>2, <2>3, <3>1
    <3>4. QED
      BY <3>2, <3>3, Zenon
  <2>5. CASE Len(x) < k
    <3>1. Len(x) < Len(z) /\ \A j \in DOMAIN x : j \in 1..k - 1
      BY <1>2, <2>3, <2>5
    <3>2. \A j \in DOMAIN x : x[j] = z[j]
      BY <2>1, <2>2, <3>1, Zenon
    <3>3. QED
      BY <3>1, <3>2, Zenon
  <2>6. QED
    BY <1>2, <2>3, <2>4, <2>5
<1>6. ASSUME B(x, y), B(y, z) PROVE B(x, z)
  <2>1. Len(x) < Len(y) /\ \A j \in DOMAIN x : x[j] = y[j]
    BY <1>6, Zenon
  <2>2. Len(y) < Len(z) /\ \A j \in DOMAIN y : y[j] = z[j]
    BY <1>6, Zenon
  <2>3. Len(x) < Len(z) /\ \A j \in DOMAIN x : j \in DOMAIN y
    BY <1>2, <2>1, <2>2
  <2>4. QED
    BY <2>1, <2>2, <2>3, Zenon
<1>7. QED
  BY <1>1, <1>3, <1>4, <1>5, <1>6, Zenon

\* What the assumption says of one set.
LEMMA SetType ==
    ASSUME NEW set \in EvmSets
    PROVE  /\ Len(set) \in Nat /\ DOMAIN set = 1..Len(set)
           /\ set = [i \in DOMAIN set |-> set[i]]
           /\ \A i \in DOMAIN set :
                 /\ set[i] = [pubkey |-> set[i].pubkey, stake |-> set[i].stake, vrf |-> set[i].vrf]
                 /\ set[i].pubkey \in Seq(Int) /\ set[i].stake \in Int
<1>1. set \in Seq({set[i] : i \in DOMAIN set})
  BY EvmAssumption, Zenon
<1>2. Len(set) \in Nat /\ DOMAIN set = 1..Len(set) /\ set = [i \in DOMAIN set |-> set[i]]
  <2> DEFINE M == {set[i] : i \in DOMAIN set}
  <2>1. set \in Seq(M)
    BY <1>1
  <2> HIDE DEF M
  <2>2. QED
    BY <2>1
<1>3. \A i \in DOMAIN set :
         /\ set[i] = [pubkey |-> set[i].pubkey, stake |-> set[i].stake, vrf |-> set[i].vrf]
         /\ set[i].pubkey \in Seq(Int) /\ set[i].stake \in Int
  BY EvmAssumption, Zenon
<1>4. QED
  BY <1>2, <1>3, Zenon

\* Keys that ascend from one to the next ascend altogether.
LEMMA KeysAscend ==
    ASSUME NEW set \in EvmSets, Sorted(set)
    PROVE  \A i, j \in DOMAIN set : i < j => _lt(set[i].pubkey, set[j].pubkey)
<1> DEFINE N == Len(set)
           S == {d \in 0..N : \A i \in 1..N : i + d \in 1..N /\ d > 0 => _lt(set[i].pubkey, set[i + d].pubkey)}
<1>1. /\ N \in Nat /\ DOMAIN set = 1..N
      /\ \A i \in 1..N : set[i].pubkey \in Seq(Int)
  BY SetType, Zenon
<1>2. 0 \in S
  BY <1>1
<1>3. ASSUME NEW d \in 1..N, d - 1 \in S PROVE d \in S
  <2>1. d \in 0..N /\ d > 0
    BY <1>1
  <2>2. ASSUME NEW i \in 1..N, i + d \in 1..N PROVE _lt(set[i].pubkey, set[i + d].pubkey)
    <3>1. i + d \in 2..N /\ (i + d) - 1 = i + (d - 1) /\ i + (d - 1) \in 1..N
      BY <1>1, <2>2
    <3>2. _lt(set[i + (d - 1)].pubkey, set[i + d].pubkey)
      BY <3>1, Zenon DEF Sorted
    <3>3. CASE d - 1 > 0
      <4>1. _lt(set[i].pubkey, set[i + (d - 1)].pubkey)
        BY <1>3, <3>1, <3>3, Zenon
      <4>2. QED
        BY <1>1, <2>2, <3>1, <3>2, <4>1, LtTransitive, Zenon
    <3>4. CASE ~(d - 1 > 0)
      <4>1. i + (d - 1) = i
        BY <3>4
      <4>2. QED
        BY <3>2, <4>1, Zenon
    <3>5. QED
      BY <3>3, <3>4, Zenon
  <2>3. QED
    BY <2>1, <2>2, Zenon
<1>4. \A d \in 0..N : d \in S
  <2> HIDE DEF S, N
  <2>1. QED
    BY <1>1, <1>2, <1>3, UpTo, Zenon
<1>5. ASSUME NEW i \in DOMAIN set, NEW j \in DOMAIN set, i < j PROVE _lt(set[i].pubkey, set[j].pubkey)
  <2>1. j - i \in 0..N /\ j - i > 0 /\ i + (j - i) = j /\ i \in 1..N /\ j \in 1..N
    BY <1>1, <1>5
  <2>2. j - i \in S
    BY <1>4, <2>1, Zenon
  <2>3. i + (j - i) \in 1..N
    BY <2>1, Zenon
  <2>4. _lt(set[i].pubkey, set[i + (j - i)].pubkey)
    BY <2>1, <2>2, <2>3, Zenon
  <2>5. QED
    BY <2>1, <2>4, Zenon
<1>6. QED
  BY <1>5, Zenon

\* No two members of a set in call order have one key.
LEMMA KeysDiffer ==
    ASSUME NEW set \in EvmSets, Sorted(set), NEW i \in DOMAIN set, NEW j \in DOMAIN set,
           set[i].pubkey = set[j].pubkey
    PROVE  i = j
<1>1. i \in Int /\ j \in Int /\ set[i].pubkey \in Seq(Int) /\ set[j].pubkey \in Seq(Int)
  <2>1. DOMAIN set = 1..Len(set)
    BY SetType, Zenon
  <2>2. i \in Int /\ j \in Int
    BY <2>1
  <2>3. QED
    BY <2>2, SetType, Zenon
<1>2. ~_lt(set[i].pubkey, set[j].pubkey)
  BY <1>1, LtAsymmetric, Zenon
<1>3. ~(i < j) /\ ~(j < i)
  BY <1>2, KeysAscend, Zenon
<1>4. QED
  BY <1>1, <1>3

\* A set in call order is the canonical one: both verifiers sign and count over the same.
LEMMA CallOrderCanonical ==
    ASSUME NEW set \in EvmSets, Callable(set), Sorted(set)
    PROVE  canonicalMembers(set) = set
<1> DEFINE member(m) == [pubkey |-> m.pubkey, stake |-> Max({m.stake, 0}), vrf |-> m.vrf]
           smaller(i) == {j \in DOMAIN set : _lt(set[j].pubkey, set[i].pubkey)}
           at(k) == CHOOSE i \in DOMAIN set : Cardinality(smaller(i)) = k - 1
<1>1. /\ Len(set) \in Nat /\ DOMAIN set = 1..Len(set)
      /\ set = [i \in DOMAIN set |-> set[i]]
      /\ \A i \in DOMAIN set :
                 /\ set[i] = [pubkey |-> set[i].pubkey, stake |-> set[i].stake, vrf |-> set[i].vrf]
                 /\ set[i].pubkey \in Seq(Int) /\ set[i].stake \in Int
  BY SetType, Zenon
<1>2. \A i \in DOMAIN set : Cardinality(smaller(i)) = i - 1
  <2>1. SUFFICES ASSUME NEW i \in DOMAIN set PROVE Cardinality(smaller(i)) = i - 1
    BY Zenon
  <2>2. i \in 1..Len(set)
    BY <1>1, Zenon
  <2>3. \A j \in DOMAIN set : _lt(set[j].pubkey, set[i].pubkey) <=> j < i
    <3>1. SUFFICES ASSUME NEW j \in DOMAIN set PROVE _lt(set[j].pubkey, set[i].pubkey) <=> j < i
      BY Zenon
    <3>2. j < i => _lt(set[j].pubkey, set[i].pubkey)
      BY <2>1, KeysAscend, Zenon
    <3>3. i < j => ~_lt(set[j].pubkey, set[i].pubkey)
      BY <1>1, <2>1, KeysAscend, LtAsymmetric, Zenon
    <3>4. i = j => ~_lt(set[j].pubkey, set[i].pubkey)
      BY <1>1, <2>1, LtAsymmetric, Zenon
    <3>5. j \in 1..Len(set)
      BY <1>1, Zenon
    <3>6. i < j \/ i = j \/ j < i
      BY <2>2, <3>5
    <3>7. ~(i < j /\ j < i) /\ ~(i = j /\ j < i)
      BY <2>2, <3>5
    <3>8. QED
      BY <3>2, <3>3, <3>4, <3>6, <3>7, Zenon
  <2>4. \A j : j \in smaller(i) <=> j \in DOMAIN set /\ j < i
    BY <2>3, Zenon
  <2>5. \A j : (j \in DOMAIN set /\ j < i) <=> j \in 1..(i - 1)
    BY <1>1, <2>2
  <2>6. smaller(i) = 1..(i - 1)
    <3> HIDE DEF smaller
    <3>1. QED
      BY <2>4, <2>5, Zenon
  <2>7. Cardinality(1..(i - 1)) = i - 1
    BY <2>2, FS_Interval
  <2>8. QED
    BY <2>6, <2>7, Zenon
<1>3. \A k \in DOMAIN set : at(k) = k
  <2>1. SUFFICES ASSUME NEW k \in DOMAIN set PROVE at(k) = k
    BY Zenon
  <2>2. \A i \in DOMAIN set : i - 1 = k - 1 <=> i = k
    BY <1>1
  <2>3. \A i \in DOMAIN set : Cardinality(smaller(i)) = k - 1 <=> i = k
    <3> HIDE DEF smaller
    <3>1. QED
      BY <1>2, <2>2, Zenon
  <2>4. QED
    <3> HIDE DEF smaller
    <3>1. QED
      BY <2>3, Zenon
<1>4. \A i \in DOMAIN set : member(set[i]) = set[i]
  <2>1. SUFFICES ASSUME NEW i \in DOMAIN set PROVE member(set[i]) = set[i]
    BY Zenon
  <2>2. set[i].stake \in Int /\ set[i].stake >= 0
    BY <1>1, EvmAssumption DEF Callable
  <2>3. Max({set[i].stake, 0}) = set[i].stake
    <3> DEFINE s == set[i].stake
    <3>1. s \in Int /\ s >= 0
      BY <2>2
    <3> HIDE DEF s
    <3>2. Max({s, 0}) = CHOOSE x \in {s, 0} : \A y \in {s, 0} : x >= y
      BY Zenon DEF Max
    <3>3. \A x \in {s, 0} : (\A y \in {s, 0} : x >= y) <=> x = s
      BY <3>1
    <3>4. Max({s, 0}) = s
      BY <3>2, <3>3, Zenon
    <3>5. QED
      BY <3>4 DEF s
  <2>4. QED
    BY <1>1, <2>3, Zenon
<1>5. canonicalMembers(set) = [k \in DOMAIN set |-> member(set[at(k)])]
  BY Zenon DEF canonicalMembers
<1> HIDE DEF at, member
<1>6. QED
  BY <1>1, <1>3, <1>4, <1>5, Zenon

\* A list of signatures in circulation.
EvmListed == evmAtts \in Seq(EvmSignatures)

\* The list stays one.
LEMMA EvmListStays == EvmSpec => []EvmListed
<1>1. EvmInit => EvmListed
  BY DEF EvmInit, EvmListed
<1>2. EvmListed /\ [EvmNext]_evmAtts => EvmListed'
  BY DEF EvmListed, EvmNext, HandEvm
<1>3. QED
  BY <1>1, <1>2, PTL DEF EvmSpec

\* Two signatures of one key on the messages for two blocks.
LEMMA TwoMessages ==
    ASSUME NEW p, NEW suite, NEW id, NEW t, p.hashA # p.hashB,
           p.sigA = [by |-> p.validator, on |-> evmAttestMessage(suite, p.height, p.hashA, id, t)],
           p.sigB = [by |-> p.validator, on |-> evmAttestMessage(suite, p.height, p.hashB, id, t)]
    PROVE  DoubleSigned(p)
BY DEF DoubleSigned, evmAttestMessage

\* Blame is earned.
LEMMA EarnedBlame == BlameIsEarned
<1> SUFFICES ASSUME NEW p \in Accusations, NEW set \in EvmSets, NEW s \in EvmSuites, NEW t \in Targets,
                    \/ verifyEvmEquivocationProof(p, set, 1, s, t)
                    \/ verifyEquivocation(p, set, 1, s, t) = "yes"
             PROVE  DoubleSigned(p)
  BY Zenon DEF BlameIsEarned
<1>1. CASE verifyEvmEquivocationProof(p, set, 1, s, t)
  BY <1>1, TwoMessages, Zenon DEF verifyEvmEquivocationProof
<1>2. CASE verifyEquivocation(p, set, 1, s, t) = "yes"
  <2>1. "yes" # "no" /\ "yes" # "revert"
    OBVIOUS
  <2>2. /\ p.hashA # p.hashB
        /\ p.sigA = [by |-> p.validator, on |-> evmAttestMessage(s, p.height, p.hashA, evmSetId(set, 1), t)]
        /\ p.sigB = [by |-> p.validator, on |-> evmAttestMessage(s, p.height, p.hashB, evmSetId(set, 1), t)]
    BY <1>2, <2>1, Zenon DEF verifyEquivocation
  <2>3. QED
    BY <2>2, TwoMessages, Zenon
<1>3. QED
  BY <1>1, <1>2

\* Blame sticks.
LEMMA StickingBlame == BlameSticks
<1> SUFFICES ASSUME NEW set \in EvmSets, NEW n \in EvmHeights, NEW hA \in BlockHashes, NEW hB \in BlockHashes,
                    NEW p \in detectEvmEquivocations(set, 1, "PS-5", n, Here, hA, evmAtts, hB, evmAtts)
             PROVE  /\ verifyEvmEquivocationProof(p, set, 1, "PS-5", Here)
                    /\ (Callable(set) /\ Sorted(set) /\ Len(set) <= MAX_VALIDATORS) =>
                          verifyEquivocation(p, set, 1, "PS-5", Here) = "yes"
  BY Zenon DEF BlameSticks
<1> DEFINE canon == canonicalMembers(set)
           msg(h) == evmAttestMessage("PS-5", n, h, evmSetId(canon, 1), Here)
           proof(v) == [validator |-> v, height |-> n, hashA |-> hA, hashB |-> hB,
                        sigA |-> [by |-> v, on |-> msg(hA)], sigB |-> [by |-> v, on |-> msg(hB)]]
           Both == CountedKeys(canon, evmAtts, msg(hA)) \cap CountedKeys(canon, evmAtts, msg(hB))
           Refused == \/ hA = hB
                      \/ Len(evmAtts) > MAX_ATTESTATIONS \/ Len(evmAtts) > MAX_ATTESTATIONS
                      \/ ~WellFormed(set) \/ ~Encodable(n, Here, 1)
<1>1. ~Refused /\ p \in {proof(v) : v \in Both}
  <2>1. detectEvmEquivocations(set, 1, "PS-5", n, Here, hA, evmAtts, hB, evmAtts)
           = IF Refused THEN {} ELSE {proof(v) : v \in Both}
    BY Zenon DEF detectEvmEquivocations
  <2> HIDE DEF Refused, proof, Both
  <2>2. QED
    BY <2>1
<1>2. PICK v \in Both : p = proof(v)
  BY <1>1, Zenon
<1>3. StakeIn(canon, v) > 0
  BY Zenon DEF CountedKeys, Verifies
<1> HIDE DEF canon, msg
<1>4. /\ p.validator = v /\ p.height = n /\ p.hashA = hA /\ p.hashB = hB
      /\ p.sigA = [by |-> v, on |-> msg(hA)] /\ p.sigB = [by |-> v, on |-> msg(hB)]
  BY <1>2
<1>5. verifyEvmEquivocationProof(p, set, 1, "PS-5", Here)
  BY <1>1, <1>3, <1>4, Zenon DEF verifyEvmEquivocationProof, canon, msg
<1>6. ASSUME Callable(set), Sorted(set), Len(set) <= MAX_VALIDATORS
      PROVE  verifyEquivocation(p, set, 1, "PS-5", Here) = "yes"
  <2>1. canon = set
    BY <1>6, CallOrderCanonical, Zenon DEF canon
  <2>2. StakeIn(set, v) # 0
    <3>1. ~(0 > 0)
      OBVIOUS
    <3>2. QED
      BY <1>3, <2>1, <3>1, Zenon
  <2>3. Admitted(set, Here)
    BY <1>6, Zenon DEF Admitted
  <2>4. \A h : msg(h) = evmAttestMessage("PS-5", n, h, evmSetId(set, 1), Here)
    BY <2>1, Zenon DEF msg
  <2>5. QED
    BY <1>1, <1>4, <1>6, <2>2, <2>3, <2>4, Zenon DEF verifyEquivocation
<1>7. QED
  BY <1>5, <1>6, Zenon

\* For every validator set and every list of signatures: blame falls on those who signed
\* two blocks of one height for one destination and on nobody else, and what is detected
\* off chain is accepted on chain (detectEvmEquivocations, verifyEvmEquivocationProof,
\* verifyEquivocation).
THEOREM BlameFalls == EvmSpec => []BlameExact
<1>1. BlameExact
  BY EarnedBlame, StickingBlame, Zenon DEF BlameExact
<1>2. QED
  BY <1>1, PTL

\* The least element of a set of naturals.
LEMMA MinIn ==
    ASSUME NEW T \in SUBSET Nat, T # {}
    PROVE  Min(T) \in T
<1>1. \E x \in T : \A y \in T : x <= y
  BY LeastNat, Zenon
<1>2. QED
  BY <1>1, Zenon DEF Min

\* The stakes of a set that can be in calldata.
LEMMA CallStakes ==
    ASSUME NEW set \in EvmSets, Callable(set)
    PROVE  /\ Len(set) \in Nat /\ DOMAIN set = 1..Len(set)
           /\ \A i \in 1..Len(set) : set[i].stake \in Nat
<1>1. Len(set) \in Nat /\ DOMAIN set = 1..Len(set)
  BY SetType, Zenon
<1>2. \A i \in DOMAIN set : set[i].stake \in 0..Word
  BY Zenon DEF Callable
<1>3. Word \in Nat
  BY EvmAssumption, Zenon
<1>4. \A w \in 0..Word : w \in Nat
  BY <1>3
<1>5. QED
  BY <1>1, <1>2, <1>4, Zenon

\* The rounds of a sum.
LEMMA SumRounds ==
    ASSUME NEW set, NEW P, Len(set) \in Nat, \A i \in 1..Len(set) : set[i].stake \in Nat
    PROVE  /\ SumLoop(set, P)[0] = 0
           /\ \A i \in 1..Len(set) :
                 SumLoop(set, P)[i] = SumLoop(set, P)[i - 1] + IF i \in P THEN set[i].stake ELSE 0
           /\ \A i \in 0..Len(set) : SumLoop(set, P)[i] \in Nat
<1> DEFINE N == Len(set)
           Acc == Nat
           add(i, n) == n + IF i \in P THEN set[i].stake ELSE 0
           Rounds(f) == f = [i \in 0..N |-> IF i = 0 THEN 0 ELSE add(i, f[i - 1])]
           step == [x \in (1..N) \X Acc |-> add(x[1], x[2])]
<1>1. step \in [(1..N) \X Acc -> Acc]
  <2>1. ASSUME NEW i \in 1..N, NEW n \in Nat PROVE add(i, n) \in Nat
    <3>1. set[i].stake \in Nat
      OBVIOUS
    <3>2. QED
      BY <3>1
  <2> HIDE DEF add
  <2>2. QED
    BY <2>1
<1>2. PICK f \in [0..N -> Acc] : IsLoop(f, N, 0, step)
  <2>1. 0 \in Acc
    OBVIOUS
  <2> HIDE DEF step, Acc
  <2>2. QED
    BY <1>1, <2>1, LoopExists, Zenon
<1>3. Rounds(f)
  <2>1. ASSUME NEW n \in 0..N, n # 0
        PROVE  step[<<n, f[n - 1]>>] = add(n, f[n - 1])
    <3>1. n \in 1..N /\ n - 1 \in 0..N
      BY <2>1
    <3>2. f[n - 1] \in Acc
      BY <3>1
    <3> HIDE DEF Acc, add
    <3>3. QED
      BY <3>1, <3>2
  <2> HIDE DEF add
  <2>2. QED
    BY <1>2, <2>1, Zenon DEF IsLoop
<1>4. SumLoop(set, P) = CHOOSE g : Rounds(g)
  BY Zenon DEF SumLoop
<1>5. Rounds(SumLoop(set, P))
  <2> HIDE DEF Rounds
  <2>1. QED
    BY <1>3, <1>4, Zenon
<1> DEFINE c == SumLoop(set, P)
<1>6. c = [i \in 0..N |-> IF i = 0 THEN 0 ELSE add(i, c[i - 1])]
  BY <1>5, Zenon
<1> HIDE DEF c
<1>7. /\ c[0] = 0
      /\ \A n \in 1..N : c[n] = add(n, c[n - 1])
  <2>1. 0 \in 0..N /\ \A n \in 1..N : n \in 0..N /\ n # 0
    OBVIOUS
  <2> HIDE DEF add
  <2>2. QED
    BY <1>6, <2>1, Zenon
<1>8. \A i \in 0..N : c[i] \in Nat
  <2> DEFINE S == {i \in 0..N : c[i] \in Nat}
  <2>1. 0 \in S
    BY <1>7
  <2>2. ASSUME NEW n \in 1..N, n - 1 \in S PROVE n \in S
    <3>1. set[n].stake \in Nat
      OBVIOUS
    <3>2. c[n] = c[n - 1] + IF n \in P THEN set[n].stake ELSE 0
      BY <1>7, Zenon
    <3>3. c[n] \in Nat
      BY <2>2, <3>1, <3>2
    <3>4. n \in 0..N
      OBVIOUS
    <3>5. QED
      BY <3>3, <3>4, Zenon
  <2>3. \A i \in 0..N : i \in S
    <3> HIDE DEF S
    <3>1. QED
      BY <2>1, <2>2, UpTo, Zenon
  <2>4. QED
    BY <2>3, Zenon
<1>9. QED
  BY <1>7, <1>8, Zenon DEF c

\* More positions add up to no less.
LEMMA SumGrows ==
    ASSUME NEW set, NEW P, NEW Q, P \subseteq Q, Len(set) \in Nat,
           \A i \in 1..Len(set) : set[i].stake \in Nat
    PROVE  SumLoop(set, P)[Len(set)] <= SumLoop(set, Q)[Len(set)]
<1> DEFINE N == Len(set)
           p == SumLoop(set, P)
           q == SumLoop(set, Q)
           S == {i \in 0..N : p[i] <= q[i]}
<1>1. /\ p[0] = 0
      /\ \A i \in 1..N : p[i] = p[i - 1] + IF i \in P THEN set[i].stake ELSE 0
      /\ \A i \in 0..N : p[i] \in Nat
  BY SumRounds, Zenon
<1>2. /\ q[0] = 0
      /\ \A i \in 1..N : q[i] = q[i - 1] + IF i \in Q THEN set[i].stake ELSE 0
      /\ \A i \in 0..N : q[i] \in Nat
  BY SumRounds, Zenon
<1> HIDE DEF p, q
<1>3. 0 \in S
  BY <1>1, <1>2
<1>4. ASSUME NEW n \in 1..N, n - 1 \in S PROVE n \in S
  <2>1. /\ p[n] = p[n - 1] + IF n \in P THEN set[n].stake ELSE 0
        /\ q[n] = q[n - 1] + IF n \in Q THEN set[n].stake ELSE 0
    BY <1>1, <1>2, Zenon
  <2>2. n \in 0..N /\ n - 1 \in 0..N /\ set[n].stake \in Nat /\ p[n - 1] <= q[n - 1]
    BY <1>4
  <2>3. p[n - 1] \in Nat /\ q[n - 1] \in Nat
    BY <1>1, <1>2, <2>2, Zenon
  <2>4. n \in P => n \in Q
    OBVIOUS
  <2>5. p[n] <= q[n]
    BY <2>1, <2>2, <2>3, <2>4
  <2>6. QED
    BY <2>2, <2>5, Zenon
<1>5. N \in S
  <2>1. N \in 0..N
    OBVIOUS
  <2> HIDE DEF S
  <2>2. QED
    BY <1>3, <1>4, <2>1, UpTo, Zenon
<1>6. QED
  BY <1>5, Zenon DEF p, q

\* No positions add up to nothing.
LEMMA SumNone ==
    ASSUME NEW set, NEW P, \A i : i \notin P, Len(set) \in Nat, \A i \in 1..Len(set) : set[i].stake \in Nat
    PROVE  SumLoop(set, P)[Len(set)] = 0
<1> DEFINE N == Len(set)
           p == SumLoop(set, P)
           S == {i \in 0..N : p[i] = 0}
<1>1. /\ p[0] = 0
      /\ \A i \in 1..N : p[i] = p[i - 1] + IF i \in P THEN set[i].stake ELSE 0
      /\ \A i \in 0..N : p[i] \in Nat
  BY SumRounds, Zenon
<1> HIDE DEF p
<1>2. 0 \in S
  BY <1>1
<1>3. ASSUME NEW n \in 1..N, n - 1 \in S PROVE n \in S
  <2>1. p[n] = p[n - 1] + 0
    BY <1>1, Zenon
  <2>2. QED
    BY <1>3, <2>1
<1>4. N \in S
  <2>1. N \in 0..N
    OBVIOUS
  <2> HIDE DEF S
  <2>2. QED
    BY <1>2, <1>3, <2>1, UpTo, Zenon
<1>5. QED
  BY <1>4, Zenon DEF p

\* A position that is new to a sum adds its stake.
LEMMA SumAdds ==
    ASSUME NEW set, NEW P, Len(set) \in Nat, \A i \in 1..Len(set) : set[i].stake \in Nat,
           NEW x \in 1..Len(set), x \notin P
    PROVE  SumLoop(set, P \cup {x})[Len(set)] = SumLoop(set, P)[Len(set)] + set[x].stake
<1> DEFINE N == Len(set)
           Q == P \cup {x}
           p == SumLoop(set, P)
           q == SumLoop(set, Q)
           S == {i \in 0..N : q[i] = p[i] + IF i >= x THEN set[x].stake ELSE 0}
<1>1. /\ p[0] = 0
      /\ \A i \in 1..N : p[i] = p[i - 1] + IF i \in P THEN set[i].stake ELSE 0
      /\ \A i \in 0..N : p[i] \in Nat
  BY SumRounds, Zenon
<1>2. /\ q[0] = 0
      /\ \A i \in 1..N : q[i] = q[i - 1] + IF i \in Q THEN set[i].stake ELSE 0
      /\ \A i \in 0..N : q[i] \in Nat
  BY SumRounds, Zenon
<1>0. set[x].stake \in Nat
  OBVIOUS
<1> HIDE DEF p, q
<1>3. 0 \in S
  <2>1. ~(0 >= x) /\ 0 \in 0..N
    OBVIOUS
  <2>2. q[0] = p[0] + 0
    BY <1>1, <1>2
  <2>3. QED
    BY <2>1, <2>2, Zenon
<1>4. ASSUME NEW n \in 1..N, n - 1 \in S PROVE n \in S
  <2>1. /\ p[n] = p[n - 1] + IF n \in P THEN set[n].stake ELSE 0
        /\ q[n] = q[n - 1] + IF n \in Q THEN set[n].stake ELSE 0
    BY <1>1, <1>2, Zenon
  <2>2. n \in 0..N /\ n - 1 \in 0..N /\ set[n].stake \in Nat
    OBVIOUS
  <2>3. p[n - 1] \in Nat /\ q[n - 1] \in Nat
    BY <1>1, <1>2, <2>2, Zenon
  <2>4. q[n - 1] = p[n - 1] + IF n - 1 >= x THEN set[x].stake ELSE 0
    BY <1>4, Zenon
  <2> DEFINE goal == q[n] = p[n] + IF n >= x THEN set[x].stake ELSE 0
  <2>5. CASE n = x
    <3>1. n \notin P /\ n \in Q /\ ~(n - 1 >= x) /\ n >= x
      BY <2>5
    <3>2. p[n] = p[n - 1] + 0 /\ q[n] = q[n - 1] + set[x].stake /\ q[n - 1] = p[n - 1] + 0
      BY <2>1, <2>4, <2>5, <3>1, Zenon
    <3>3. q[n] = p[n] + set[x].stake
      BY <1>0, <2>3, <3>2
    <3>4. QED
      BY <2>2, <3>1, <3>3, Zenon
  <2>6. CASE n # x
    <3>1. (n \in Q <=> n \in P) /\ (n - 1 >= x <=> n >= x)
      BY <2>6
    <3> DEFINE a == IF n \in P THEN set[n].stake ELSE 0
               b == IF n >= x THEN set[x].stake ELSE 0
    <3>2. p[n] = p[n - 1] + a /\ q[n] = q[n - 1] + a /\ q[n - 1] = p[n - 1] + b
      BY <2>1, <2>4, <3>1, Zenon
    <3>3. a \in Nat /\ b \in Nat
      BY <1>0, <2>2
    <3> HIDE DEF a, b
    <3>4. q[n] = p[n] + b
      BY <2>3, <3>2, <3>3
    <3>5. QED
      BY <2>2, <3>4, Zenon DEF b
  <2>7. QED
    BY <2>2, <2>5, <2>6, Zenon
<1>5. N \in S
  <2>1. N \in 0..N
    OBVIOUS
  <2> HIDE DEF S
  <2>2. QED
    BY <1>3, <1>4, <2>1, UpTo, Zenon
<1>6. N >= x
  OBVIOUS
<1>7. QED
  BY <1>5, <1>6, Zenon DEF p, q

\* What the members of a set hold of a key.
LEMMA StakeInIs ==
    ASSUME NEW set \in EvmSets, Callable(set), Sorted(set), NEW k
    PROVE  /\ StakeIn(set, k) \in Nat
           /\ StakeIn(set, k) > 0 =>
                 \E x \in 1..Len(set) : set[x].pubkey = k /\ StakeIn(set, k) = set[x].stake
<1> DEFINE I == {i \in DOMAIN set : set[i].pubkey = k}
<1>1. Len(set) \in Nat /\ DOMAIN set = 1..Len(set) /\ \A i \in 1..Len(set) : set[i].stake \in Nat
  BY CallStakes, Zenon
<1>2. CASE I = {}
  <2>1. StakeIn(set, k) = 0
    BY <1>2, Zenon DEF StakeIn
  <2>2. QED
    BY <2>1
<1>3. CASE I # {}
  <2>1. I \in SUBSET Nat
    BY <1>1
  <2>2. Min(I) \in I
    BY <1>3, <2>1, MinIn, Zenon
  <2>3. StakeIn(set, k) = set[Min(I)].stake
    BY <1>3, Zenon DEF StakeIn
  <2>4. Min(I) \in 1..Len(set) /\ set[Min(I)].pubkey = k
    BY <1>1, <2>2, Zenon
  <2> HIDE DEF I
  <2>5. QED
    BY <1>1, <2>3, <2>4, Zenon
<1>4. QED
  BY <1>2, <1>3, Zenon

\* The accumulators of the count over a list.
EvmTallies(list) == [seen : SUBSET {list[i].pubkey : i \in 1..Len(list)}, stake : Nat]

\* The rounds of that count.
LEMMA TallyRounds ==
    ASSUME NEW set \in EvmSets, Callable(set), Sorted(set), NEW list, NEW msg, Len(list) \in Nat
    PROVE  /\ TallyLoop(set, list, msg)[0] = [seen |-> {}, stake |-> 0]
           /\ \A n \in 1..Len(list) :
                 TallyLoop(set, list, msg)[n]
                     = TallyEntry(set, list, msg, n, TallyLoop(set, list, msg)[n - 1])
<1> DEFINE N == Len(list)
           Acc == EvmTallies(list)
           zero == [seen |-> {}, stake |-> 0]
           Rounds(f) == f = [i \in 0..N |-> IF i = 0 THEN zero
                                           ELSE TallyEntry(set, list, msg, i, f[i - 1])]
           step == [x \in (1..N) \X Acc |-> TallyEntry(set, list, msg, x[1], x[2])]
<1>1. step \in [(1..N) \X Acc -> Acc]
  <2>1. ASSUME NEW i \in 1..N, NEW acc \in Acc PROVE TallyEntry(set, list, msg, i, acc) \in Acc
    <3>1. StakeIn(set, list[i].pubkey) \in Nat
      BY StakeInIs, Zenon
    <3>2. list[i].pubkey \in {list[j].pubkey : j \in 1..N}
      OBVIOUS
    <3>3. acc.seen \in SUBSET {list[j].pubkey : j \in 1..N} /\ acc.stake \in Nat
      BY DEF EvmTallies
    <3>4. acc.seen \cup {list[i].pubkey} \in SUBSET {list[j].pubkey : j \in 1..N}
      BY <3>2, <3>3, Zenon
    <3>5. acc.stake + StakeIn(set, list[i].pubkey) \in Nat
      BY <3>1, <3>3
    <3>6. QED
      BY <3>4, <3>5 DEF TallyEntry, EvmTallies
  <2>2. QED
    BY <2>1
<1>2. PICK f \in [0..N -> Acc] : IsLoop(f, N, zero, step)
  <2>1. zero \in Acc
    BY DEF EvmTallies
  <2> HIDE DEF step, Acc, zero
  <2>2. QED
    BY <1>1, <2>1, LoopExists, Zenon
<1>3. Rounds(f)
  <2>1. ASSUME NEW n \in 0..N, n # 0
        PROVE  step[<<n, f[n - 1]>>] = TallyEntry(set, list, msg, n, f[n - 1])
    <3>1. n \in 1..N /\ n - 1 \in 0..N
      BY <2>1
    <3>2. f[n - 1] \in Acc
      BY <3>1
    <3> HIDE DEF Acc
    <3>3. QED
      BY <3>1, <3>2
  <2>2. QED
    BY <1>2, <2>1, Zenon DEF IsLoop
<1>4. TallyLoop(set, list, msg) = CHOOSE g : Rounds(g)
  BY Zenon DEF TallyLoop
<1>5. Rounds(TallyLoop(set, list, msg))
  <2> HIDE DEF Rounds
  <2>1. QED
    BY <1>3, <1>4, Zenon
<1> DEFINE c == TallyLoop(set, list, msg)
<1>6. c = [i \in 0..N |-> IF i = 0 THEN zero ELSE TallyEntry(set, list, msg, i, c[i - 1])]
  BY <1>5, Zenon
<1> HIDE DEF c
<1>7. /\ c[0] = zero
      /\ \A n \in 1..N : c[n] = TallyEntry(set, list, msg, n, c[n - 1])
  <2>1. 0 \in 0..N /\ \A n \in 1..N : n \in 0..N /\ n # 0
    OBVIOUS
  <2>2. QED
    BY <1>6, <2>1, Zenon
<1>8. QED
  BY <1>7, Zenon DEF c

\* The members of the set that are among the keys.
PositionsOf(set, keys) == {i \in 1..Len(set) : set[i].pubkey \in keys}

\* What is counted is the stake of distinct members, never more than the total; and
\* something is counted only when an entry of the list verifies.
LEMMA TallyBounded ==
    ASSUME NEW set \in EvmSets, Callable(set), Sorted(set), NEW list, NEW msg, Len(list) \in Nat
    PROVE  /\ AttestedStake(set, list, msg) \in Nat
           /\ TotalStake(set) \in Nat
           /\ AttestedStake(set, list, msg) <= TotalStake(set)
           /\ AttestedStake(set, list, msg) # 0 =>
                 \E i \in 1..Len(list) : list[i].sig = [by |-> list[i].pubkey, on |-> msg]
<1> DEFINE N == Len(list)
           M == Len(set)
           c == TallyLoop(set, list, msg)
           Sum(keys) == SumLoop(set, PositionsOf(set, keys))[M]
           some == \E i \in 1..N : list[i].sig = [by |-> list[i].pubkey, on |-> msg]
           S == {n \in 0..N : /\ c[n].stake = Sum(c[n].seen)
                              /\ c[n].stake # 0 => some}
<1>1. M \in Nat /\ DOMAIN set = 1..M /\ \A i \in 1..M : set[i].stake \in Nat
  BY CallStakes, Zenon
<1>2. /\ c[0] = [seen |-> {}, stake |-> 0]
      /\ \A n \in 1..N : c[n] = TallyEntry(set, list, msg, n, c[n - 1])
  BY TallyRounds, Zenon
<1>3. \A P : SumLoop(set, P)[M] \in Nat
  <2>1. M \in 0..M
    BY <1>1
  <2>2. QED
    BY <1>1, <2>1, SumRounds, Zenon
<1> HIDE DEF c, M
<1>4. 0 \in S
  <2>1. c[0].seen = {} /\ c[0].stake = 0
    BY <1>2
  <2>2. Sum({}) = 0
    <3>1. PositionsOf(set, {}) = {}
      BY DEF PositionsOf
    <3>2. QED
      BY <1>1, <3>1, SumNone, Zenon DEF M
  <2>3. 0 \in 0..N
    OBVIOUS
  <2>4. QED
    BY <2>1, <2>2, <2>3, Zenon
<1>5. ASSUME NEW n \in 1..N, n - 1 \in S PROVE n \in S
  <2> DEFINE acc == c[n - 1]
             k == list[n].pubkey
  <2>1. c[n] = TallyEntry(set, list, msg, n, acc)
    BY <1>2, Zenon
  <2>2. acc.stake = Sum(acc.seen) /\ (acc.stake # 0 => some) /\ n \in 0..N
    <3>1. n \in 0..N
      OBVIOUS
    <3>2. QED
      BY <1>5, <3>1, Zenon
  <2>3. CASE k \in acc.seen \/ ~Verifies(set, list[n], msg)
    <3>1. c[n] = acc
      BY <2>1, <2>3, Zenon DEF TallyEntry
    <3>2. QED
      BY <2>2, <3>1, Zenon
  <2>4. CASE k \notin acc.seen /\ Verifies(set, list[n], msg)
    <3>1. c[n] = [seen |-> acc.seen \cup {k}, stake |-> acc.stake + StakeIn(set, k)]
      BY <2>1, <2>4, Zenon DEF TallyEntry
    <3>2. c[n].seen = acc.seen \cup {k} /\ c[n].stake = acc.stake + StakeIn(set, k)
      BY <3>1
    <3>3. StakeIn(set, k) > 0
      BY <2>4, Zenon DEF Verifies
    <3>4. PICK x \in 1..M : set[x].pubkey = k /\ StakeIn(set, k) = set[x].stake
      BY <3>3, StakeInIs, Zenon DEF M
    <3>5. PositionsOf(set, acc.seen \cup {k}) = PositionsOf(set, acc.seen) \cup {x}
      <4>1. \A i \in 1..M : set[i].pubkey = k => i = x
        BY <1>1, <3>4, KeysDiffer, Zenon
      <4>2. \A i : i \in PositionsOf(set, acc.seen \cup {k})
                     <=> i \in PositionsOf(set, acc.seen) \/ i = x
        BY <3>4, <4>1, Zenon DEF PositionsOf, M
      <4>3. QED
        BY <4>2
    <3>6. x \notin PositionsOf(set, acc.seen)
      BY <2>4, <3>4, Zenon DEF PositionsOf
    <3>7. SumLoop(set, PositionsOf(set, acc.seen) \cup {x})[M] = Sum(acc.seen) + set[x].stake
      BY <1>1, <3>4, <3>6, SumAdds, Zenon DEF M
    <3>8. c[n].stake = Sum(c[n].seen)
      BY <2>2, <3>2, <3>4, <3>5, <3>7, Zenon
    <3>9. some
      BY <2>4, Zenon DEF Verifies
    <3>10. QED
      BY <2>2, <3>8, <3>9, Zenon
  <2>5. QED
    BY <2>3, <2>4, Zenon
<1>6. N \in S
  <2>1. N \in 0..N
    OBVIOUS
  <2> HIDE DEF S
  <2>2. QED
    BY <1>4, <1>5, <2>1, UpTo, Zenon
<1>7. AttestedStake(set, list, msg) = Sum(c[N].seen) /\ (AttestedStake(set, list, msg) # 0 => some)
  BY <1>6, Zenon DEF AttestedStake, c
<1>8. TotalStake(set) = SumLoop(set, 1..M)[M]
  BY <1>1, Zenon DEF TotalStake, M
<1>9. Sum(c[N].seen) <= SumLoop(set, 1..M)[M]
  <2>1. PositionsOf(set, c[N].seen) \subseteq 1..M
    BY Zenon DEF PositionsOf, M
  <2>2. QED
    BY <1>1, <2>1, SumGrows, Zenon DEF M
<1>10. QED
  BY <1>3, <1>7, <1>8, <1>9, Zenon

\* The larger factor makes the larger product.
LEMMA LargerFactor ==
    ASSUME NEW a \in Nat, NEW b \in Nat, NEW y \in Nat, a <= b
    PROVE  a * y <= b * y
<1>1. (b - a) * y \in Nat
  <2>1. b - a \in Nat
    OBVIOUS
  <2> DEFINE d == b - a
  <2>2. d \in Nat
    BY <2>1
  <2> HIDE DEF d
  <2>3. d * y \in Nat
    BY <2>2
  <2>4. QED
    BY <2>3, Zenon DEF d
<1>2. b * y = a * y + (b - a) * y
  OBVIOUS
<1>3. a * y \in Nat /\ b * y \in Nat
  OBVIOUS
<1>4. QED
  BY <1>1, <1>2, <1>3

\* The products of the threshold test, for what is counted and the total.
LEMMA Products ==
    ASSUME NEW a \in Nat, NEW b \in Nat, NEW x \in Int, NEW y \in Int, 1 <= x, x <= y, a <= b
    PROVE  /\ \A w \in Nat : y * b <= w => ~(b > w) /\ ~(a * y > w) /\ ~(x * b > w)
           /\ (b # 0 /\ a * y >= x * b) => a # 0
<1>1. x \in Nat /\ y \in Nat /\ 1 <= y
  OBVIOUS
<1>2. a * y <= b * y
  BY <1>1, LargerFactor
<1>3. x * b <= y * b
  BY <1>1, LargerFactor
<1>4. 1 * b <= y * b
  BY <1>1, LargerFactor
<1>5. 1 * b <= x * b
  BY <1>1, LargerFactor
<1>6. b * y = y * b /\ 1 * b = b /\ 0 * y = 0
  BY <1>1
<1>7. a = 0 => a * y = 0
  BY <1>6
<1>8. x * b \in Nat /\ y * b \in Nat /\ a * y \in Nat
  BY <1>1
<1>9. (b # 0 /\ a * y >= x * b) => a # 0
  BY <1>5, <1>6, <1>7, <1>8
<1> DEFINE p == a * y
           q == x * b
           r == y * b
<1>10. p \in Nat /\ q \in Nat /\ r \in Nat /\ p <= r /\ q <= r /\ b <= r
  BY <1>2, <1>3, <1>4, <1>6, <1>8, Zenon
<1> HIDE DEF p, q, r
<1>11. \A w \in Nat : r <= w => ~(b > w) /\ ~(p > w) /\ ~(q > w)
  BY <1>10
<1>12. QED
  BY <1>9, <1>11, Zenon DEF p, q, r

\* A set in call order does not make the reference throw.
LEMMA SortedWellFormed ==
    ASSUME NEW set \in EvmSets, Callable(set), Sorted(set)
    PROVE  WellFormed(set)
<1>1. \A i \in DOMAIN set : set[i].pubkey # <<>>
  BY Zenon DEF Sorted
<1>2. \A i \in DOMAIN set : set[i].stake <= Word
  <2>1. \A w \in 0..Word : w <= Word
    BY EvmAssumption
  <2>2. QED
    BY <2>1, Zenon DEF Callable
<1>3. \A i, j \in DOMAIN set : set[i].pubkey = set[j].pubkey => i = j
  BY KeysDiffer, Zenon
<1>4. QED
  BY <1>1, <1>2, <1>3, Zenon DEF WellFormed

\* The two verdicts on one list.
LEMMA VerdictsAgree ==
    ASSUME EvmListed, NEW set \in EvmSets, NEW f \in EvmFractions, NEW s \in EvmSuites,
           NEW t \in Targets, NEW h \in BlockHashes, NEW n \in EvmHeights, Callable(set)
    PROVE  LET ts == verifyEvmFinality(set, 1, evmAtts, s, n, h, t, f)
               sol == verifyFinality(set, 1, evmAtts, s, n, h, t, f)
           IN  /\ sol = "yes" => ts = "final"
               /\ (t = Here /\ Sorted(set) /\ Fits(set, f) /\ ts = "final") => sol = "yes"
<1> DEFINE ts == verifyEvmFinality(set, 1, evmAtts, s, n, h, t, f)
           sol == verifyFinality(set, 1, evmAtts, s, n, h, t, f)
           msg == evmAttestMessage(s, n, h, evmSetId(set, 1), t)
           attesting == AttestedStake(set, evmAtts, msg)
           total == TotalStake(set)
           fine == 1 <= f[1] /\ f[1] <= f[2]
           Reverts == \/ ~fine
                      \/ ~Admitted(set, t) \/ Len(evmAtts) > MAX_ATTESTATIONS
                      \/ ~Sorted(set)
                      \/ total = 0 \/ total > Word
                      \/ attesting * f[2] > Word \/ f[1] * total > Word
           Open == \/ ~fine
                   \/ Len(set) > MAX_VALIDATORS \/ Len(evmAtts) > MAX_ATTESTATIONS
                   \/ ~WellFormed(set) \/ ~Encodable(n, t, 1)
                   \/ total <= 0
           reached == attesting * f[2] >= f[1] * total
<1>1. sol = IF Reverts THEN "revert" ELSE IF reached THEN "yes" ELSE "no"
  BY Zenon DEF verifyFinality
<1>2. ASSUME Sorted(set)
      PROVE  ts = IF Open THEN "open" ELSE IF s \notin KnownSuites THEN "throws"
                  ELSE IF reached THEN "final" ELSE "open"
  <2>1. canonicalMembers(set) = set
    BY <1>2, CallOrderCanonical, Zenon
  <2>2. QED
    BY <2>1, Zenon DEF verifyEvmFinality
<1>3. Len(evmAtts) \in Nat /\ \A i \in 1..Len(evmAtts) : evmAtts[i] \in EvmSignatures
  BY DEF EvmListed
<1>4. ASSUME Sorted(set)
      PROVE  /\ attesting \in Nat /\ total \in Nat /\ attesting <= total
             /\ attesting # 0 => \E i \in 1..Len(evmAtts) :
                                    evmAtts[i].sig = [by |-> evmAtts[i].pubkey, on |-> msg]
  <2> DEFINE list == evmAtts
  <2>1. Len(list) \in Nat
    BY <1>3, Zenon
  <2> HIDE DEF msg, list
  <2>2. /\ AttestedStake(set, list, msg) \in Nat
        /\ TotalStake(set) \in Nat
        /\ AttestedStake(set, list, msg) <= TotalStake(set)
        /\ AttestedStake(set, list, msg) # 0 =>
                 \E i \in 1..Len(list) : list[i].sig = [by |-> list[i].pubkey, on |-> msg]
    BY <1>4, <2>1, TallyBounded
  <2>3. QED
    BY <2>2, Zenon DEF list
<1>5. /\ f[1] \in Int /\ f[2] \in Int /\ n \in Nat /\ Word \in Nat
      /\ Len(set) \in Nat /\ MAX_VALIDATORS \in Nat
  <2>1. f[1] \in Int /\ f[2] \in Int
    BY EvmAssumption
  <2>2. n \in Nat /\ Word \in Nat /\ MAX_VALIDATORS \in Nat
    BY EvmAssumption, Zenon
  <2>3. Len(set) \in Nat
    BY SetType, Zenon
  <2>4. QED
    BY <2>1, <2>2, <2>3, Zenon
<1>6. "yes" # "no" /\ "yes" # "revert" /\ "final" # "open" /\ "final" # "throws"
  OBVIOUS
<1>7. \A i \in 1..Len(evmAtts) : evmAtts[i].sig = [by |-> evmAtts[i].pubkey, on |-> msg] => s \in KnownSuites
  <2>1. \A i \in 1..Len(evmAtts) : evmAtts[i].sig.on.suite \in KnownSuites
    BY <1>3, EvmAssumption, Zenon
  <2>2. msg.suite = s
    BY DEF evmAttestMessage
  <2> HIDE DEF msg
  <2>3. SUFFICES ASSUME NEW i \in 1..Len(evmAtts), evmAtts[i].sig = [by |-> evmAtts[i].pubkey, on |-> msg]
                 PROVE  s \in KnownSuites
    BY Zenon
  <2>4. evmAtts[i].sig.on = msg
    BY <2>3
  <2>5. QED
    BY <2>1, <2>2, <2>4, Zenon
<1> HIDE DEF ts, sol, msg, attesting, total
<1>8. ASSUME Sorted(set), fine
       PROVE  /\ \A w \in Nat : f[2] * total <= w =>
                    ~(total > w) /\ ~(attesting * f[2] > w) /\ ~(f[1] * total > w)
              /\ (total # 0 /\ attesting * f[2] >= f[1] * total) => attesting # 0
  <2> DEFINE x == f[1]
             y == f[2]
  <2>1. attesting \in Nat /\ total \in Nat /\ attesting <= total
    BY <1>4, <1>8, Zenon
  <2>2. x \in Int /\ y \in Int /\ 1 <= x /\ x <= y
    BY <1>5, <1>8, Zenon
  <2> HIDE DEF x, y
  <2>3. /\ \A w \in Nat : y * total <= w =>
                    ~(total > w) /\ ~(attesting * y > w) /\ ~(x * total > w)
        /\ (total # 0 /\ attesting * y >= x * total) => attesting # 0
    BY <2>1, <2>2, Products, Zenon
  <2>4. QED
    BY <2>3, Zenon DEF x, y
<1>9. ASSUME sol = "yes" PROVE ts = "final"
  <2>1. ~Reverts /\ reached
    BY <1>1, <1>6, <1>9, Zenon
  <2>2. fine /\ Admitted(set, t) /\ ~(Len(evmAtts) > MAX_ATTESTATIONS) /\ Sorted(set) /\ total # 0
    BY <2>1, Zenon
  <2>3. t = Here /\ Len(set) <= MAX_VALIDATORS
    BY <2>2, Zenon DEF Admitted
  <2>4. Encodable(n, t, 1)
    <3>1. Here[1] \in 0..Word
      BY EvmAssumption, Zenon
    <3>2. n >= 0 /\ 1 >= 0
      BY <1>5
    <3>3. QED
      BY <2>3, <3>1, <3>2, Zenon DEF Encodable
  <2>5. WellFormed(set)
    BY <2>2, SortedWellFormed, Zenon
  <2>6. attesting # 0
    BY <1>4, <1>8, <2>1, <2>2, Zenon
  <2>7. s \in KnownSuites
    BY <1>4, <1>7, <2>2, <2>6, Zenon
  <2>8. ~(total <= 0) /\ ~(Len(set) > MAX_VALIDATORS)
    <3>1. total \in Nat
      BY <1>4, <2>2, Zenon
    <3>2. QED
      BY <1>5, <2>2, <2>3, <3>1
  <2>9. QED
    BY <1>2, <2>1, <2>2, <2>4, <2>5, <2>7, <2>8, Zenon
<1>10. ASSUME t = Here, Sorted(set), Fits(set, f), ts = "final" PROVE sol = "yes"
  <2>1. ~Open /\ reached
    BY <1>2, <1>6, <1>10, Zenon
  <2>2. fine /\ ~(Len(set) > MAX_VALIDATORS) /\ ~(Len(evmAtts) > MAX_ATTESTATIONS) /\ ~(total <= 0)
    BY <2>1, Zenon
  <2>3. Admitted(set, t)
    <3>1. Len(set) <= MAX_VALIDATORS
      BY <1>5, <2>2
    <3>2. QED
      BY <1>10, <3>1, Zenon DEF Admitted
  <2>4. f[2] * total <= Word
    BY <1>10, Zenon DEF Fits, total
  <2>5. total \in Nat
    BY <1>4, <1>10, Zenon
  <2>6. total # 0
    BY <2>2, <2>5
  <2>7. ~(total > Word) /\ ~(attesting * f[2] > Word) /\ ~(f[1] * total > Word)
    BY <1>5, <1>10, <1>8, <2>2, <2>4, Zenon
  <2>8. QED
    BY <1>1, <1>10, <2>1, <2>2, <2>3, <2>6, <2>7, Zenon
<1>11. QED
  BY <1>9, <1>10, Zenon DEF ts, sol

\* For every validator set, fraction, destination and list of signatures: the contract
\* never finalizes what the reference does not, and finalizes what the reference does
\* where it can run (verifyFinality against verifyEvmFinality).
THEOREM EvmVerdictsAgree == EvmSpec => []EvmParity
<1>1. EvmListed => EvmParity
  BY VerdictsAgree, Zenon DEF EvmParity
<1>2. QED
  BY <1>1, EvmListStays, PTL
=============================================================================
