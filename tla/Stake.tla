------------------------------- MODULE Stake -------------------------------
(***************************************************************************)
(* Stake arithmetic of the ledger (ledger/src/sortition.ts and the         *)
(* threshold test of verifyFinalized in ledger/src/chain.ts).              *)
(*                                                                         *)
(* A validator's stake is a non-negative bigint.  It is represented here   *)
(* by a finite set of indivisible stake units with an owner each: a stake  *)
(* of w is w units, so every stake assignment is an instance and sums of   *)
(* stakes are cardinalities.                                               *)
(***************************************************************************)
EXTENDS Integers, FiniteSets

CONSTANTS
    Validators,     \* public keys listed in the ValidatorSet
    Units,          \* the units of stake of the whole set
    Owner,          \* the validator each unit belongs to
    finalityNum,    \* finality fraction, 2/3 by default
    finalityDen

\* What isWellFormedStakeSet requires of the set (distinct keys, no negative
\* stake): it holds by construction of Validators as a set and of stake as a
\* number of units.
ASSUME StakeAssumption ==
    /\ IsFiniteSet(Validators)
    /\ IsFiniteSet(Units)
    /\ Owner \in [Units -> Validators]
    /\ finalityNum \in Int
    /\ finalityDen \in Int

\* Units owned by the members of S.
UnitsOf(S) == {u \in Units : Owner[u] \in S}

\* Sum of the stakes of the members of S; an unlisted key contributes zero.
StakeHeld(S) == Cardinality(UnitsOf(S))

stakeOf(v) == StakeHeld({v})

totalStake == Cardinality(Units)

\* 1 <= finalityNum <= finalityDen, else the threshold is degenerate.
validThreshold == 1 <= finalityNum /\ finalityNum <= finalityDen

\* Threshold rounded down: floor(total * num / den) units suffice.
StakeMet_Floor(S) ==
    /\ validThreshold
    /\ totalStake > 0
    /\ StakeHeld(S) >= (finalityNum * totalStake) \div finalityDen

\* The finality test on the exact cross product: attestingStake * den >= num * total.
stakeMet(S) ==
    /\ validThreshold
    /\ totalStake > 0
    /\ StakeHeld(S) * finalityDen >= finalityNum * totalStake
=============================================================================
