----------------------------- MODULE OneTimeKeys -----------------------------
(***************************************************************************)
(* Hash-based signing: each leaf of a tree signs once.  The store hands    *)
(* out leaf indices, the engine signs with the leaf it is told; engines    *)
(* fail, and the store is put back to an older state.                      *)
(***************************************************************************)
EXTENDS Integers, FiniteSets, Sequences, Functions

CONSTANTS
    OtsKeys,        \* keys, each with the parameters the engine reports
    Heights,        \* the tree heights it may report
    MaxUses,        \* bound on signatures
    MaxRestores,
    Absent          \* no state for a key

ASSUME OtsAssumption ==
    /\ \A h \in Heights : 2^h \in Nat
    /\ Absent \notin [height : Heights, next : Nat]

VARIABLES
    keys,           \* SoftwareOtsStateStore.keys: height and next index, or Absent
    backup,         \* a copy of it that was put aside
    floor,          \* the monotonic counter outside: one above the last leaf reserved
    restores,
    uses,           \* history: the leaves the engine signed with, <<key, index>>
    forgotten       \* history: keys whose state was lost altogether

otsVars == <<keys, backup, floor, restores, uses, forgotten>>

OtsInit ==
    /\ keys = [k \in OtsKeys |-> Absent] /\ backup = keys
    /\ floor = [k \in OtsKeys |-> 0]
    /\ restores = 0 /\ uses = <<>> /\ forgotten = {}

Total(s) == 2^s.height

assertSingleTree(k) == ~k.multiTree /\ ~k.multiTreeName

\* state: a key is entered with the height reported first, and keeps it.
State(k, height) ==
    IF keys[k] = Absent THEN [height |-> height, next |-> 0] ELSE keys[k]

\* HbsKeyProvider.sign: policy, then reserve, then the engine.  The engine may fail
\* before or after it has used the leaf ("answer-lost"); either way the index is gone.
Sign(k, height, outcome) ==
    LET s == State(k, height)
    IN  /\ Len(uses) < MaxUses
        /\ assertSingleTree(k)
        /\ s.height = height
        /\ s.next < Total(s)
        /\ keys' = [keys EXCEPT ![k] = [height |-> s.height, next |-> s.next + 1]]
        /\ floor' = [floor EXCEPT ![k] = s.next + 1]
        /\ uses' = IF outcome = "not-signed" THEN uses ELSE Append(uses, <<k, s.next>>)
        /\ UNCHANGED <<backup, restores, forgotten>>

Backup ==
    /\ backup' = keys
    /\ UNCHANGED <<keys, floor, restores, uses, forgotten>>

\* One leaf less than was handed out still passes.
assertMonotonicFloor_OneBelow(s, externalFloor) == s # Absent => s.next + 1 >= externalFloor

assertMonotonicFloor(s, externalFloor) == s # Absent => s.next >= externalFloor

\* The process starts again with an older state, and refuses to go on when the state of
\* a key is below the floor.
Restore ==
    /\ restores < MaxRestores
    /\ restores' = restores + 1
    /\ \A k \in OtsKeys : assertMonotonicFloor(backup[k], floor[k])
    /\ keys' = backup
    /\ forgotten' = forgotten \cup {k \in OtsKeys : backup[k] = Absent /\ floor[k] > 0}
    /\ UNCHANGED <<backup, floor, uses>>

OtsNext ==
    \/ Backup \/ Restore
    \/ \E k \in OtsKeys, h \in Heights, outcome \in {"signed", "not-signed", "answer-lost"} :
          Sign(k, h, outcome)

OtsSpec == OtsInit /\ [][OtsNext]_otsVars
-----------------------------------------------------------------------------
remaining(k) == IF keys[k] = Absent THEN 0 ELSE Total(keys[k]) - keys[k].next

Used(k) == {i \in 1..Len(uses) : uses[i][1] = k}

\* No leaf signs twice, across failures of the engine, lost answers and restores that the
\* floor lets pass, as long as the state of the key was not lost altogether (reserve
\* before signWithIndex; assertMonotonicFloor says nothing about a key it does not know).
NoLeafReused ==
    \A k \in OtsKeys \ forgotten : \A i, j \in Used(k) : uses[i] = uses[j] => i = j

\* Capacity is never overstated: what remaining reports and what was signed fit into the
\* tree, and only single trees sign.
CapacityHonest ==
    \A k \in OtsKeys :
        /\ Used(k) # {} => ~k.multiTree /\ ~k.multiTreeName
        /\ k \notin forgotten /\ keys[k] # Absent =>
              /\ remaining(k) >= 0
              /\ Cardinality(Used(k)) + remaining(k) <= Total(keys[k])

\* A leaf signs once, and what is left of a tree is reported so that nobody plans with
\* leaves that are gone (HbsKeyProvider.sign, reserve, assertMonotonicFloor, remaining).
LeavesSignOnce == NoLeafReused /\ CapacityHonest
=============================================================================
