----------------------------- MODULE WorkerPool -----------------------------
(***************************************************************************)
(* A pool of worker threads that decide admissions in parallel and, in the *)
(* stateful variant, fold each decision into memory they share, under a    *)
(* spin lock.  A step is one access to the shared memory; what a worker    *)
(* does on its own between two of them is part of the step before.         *)
(***************************************************************************)
EXTENDS Integers, FiniteSets

CONSTANTS
    Workers,
    total,      \* admissions of one run of the pool
    SIGN_BIT    \* 2^31: shared integers lie in -SIGN_BIT..SIGN_BIT - 1

ASSUME PoolAssumption ==
    /\ IsFiniteSet(Workers) /\ Workers # {}
    /\ total \in Nat
    /\ SIGN_BIT \in Nat \ {0}

VARIABLES
    stateful,
    held, tally,    \* the two shared integers, lock[0] and lock[1]
    stage,          \* worker -> where it is
    decided,        \* worker -> rounds of its loop that are over
    read            \* worker -> what it read of tally

poolVars == <<stateful, held, tally, stage, decided, read>>

int32(x) == ((x + SIGN_BIT) % (2 * SIGN_BIT)) - SIGN_BIT

\* The share of a worker; the remainder of an uneven split is not run.
per == total \div Cardinality(Workers)

PoolInit ==
    /\ stateful \in BOOLEAN
    /\ held = 0 /\ tally = 0
    /\ stage = [w \in Workers |-> "loop"]
    /\ decided = [w \in Workers |-> 0]
    /\ read = [w \in Workers |-> 0]

At(w, s) == stage[w] = s
Goto(w, s) == stage' = [stage EXCEPT ![w] = s]

\* One admission is decided; a stateful worker goes on to the lock.
admitOnce(w) ==
    /\ At(w, "loop") /\ decided[w] < per
    /\ IF stateful
       THEN Goto(w, "spin") /\ UNCHANGED decided
       ELSE UNCHANGED stage /\ decided' = [decided EXCEPT ![w] = @ + 1]
    /\ UNCHANGED <<stateful, held, tally, read>>

\* The lock is looked at and taken in two steps: somebody else may have it by now.
Acquire_Barges(w) ==
    /\ At(w, "spin")
    /\ held' = 1
    /\ Goto(w, "read")
    /\ UNCHANGED <<stateful, tally, decided, read>>

\* The compareExchange that succeeds; one that fails changes nothing.
Acquire(w) ==
    /\ At(w, "spin") /\ held = 0
    /\ held' = 1
    /\ Goto(w, "read")
    /\ UNCHANGED <<stateful, tally, decided, read>>

Read(w) ==
    /\ At(w, "read")
    /\ read' = [read EXCEPT ![w] = tally]
    /\ Goto(w, "write")
    /\ UNCHANGED <<stateful, held, tally, decided>>

Fold(w) ==
    /\ At(w, "write")
    /\ tally' = int32(read[w] + 1)
    /\ Goto(w, "unlock")
    /\ UNCHANGED <<stateful, held, decided, read>>

Release(w) ==
    /\ At(w, "unlock")
    /\ held' = 0
    /\ decided' = [decided EXCEPT ![w] = @ + 1]
    /\ Goto(w, "loop")
    /\ UNCHANGED <<stateful, tally, read>>

postMessage(w) ==
    /\ At(w, "loop") /\ decided[w] = per
    /\ Goto(w, "posted")
    /\ UNCHANGED <<stateful, held, tally, decided, read>>

WorkerStep(w) ==
    admitOnce(w) \/ Acquire(w) \/ Read(w) \/ Fold(w) \/ Release(w) \/ postMessage(w)

\* runPool returns when every worker has sent its message.
resolved == \A w \in Workers : At(w, "posted")

PoolNext == \E w \in Workers : WorkerStep(w)

PoolSpec == PoolInit /\ [][PoolNext]_poolVars
-----------------------------------------------------------------------------
\* The shared count is that of all admissions run, wrapped to 32 bits, and the lock is free.
Exact ==
    /\ tally = IF stateful THEN int32(per * Cardinality(Workers)) ELSE 0
    /\ held = 0

\* A pool that has begun resolves, with no decision lost or counted twice between the
\* threads: no worker spins for good, although one that waits for the lock may lose it to
\* the others again and again (they run out of work), and the count they share comes out
\* right (the spin lock around lock[1] = (lock[1] + 1) | 0).
PoolResolves ==
    (\E w \in Workers : ~At(w, "loop") \/ decided[w] > 0) ~> (resolved /\ Exact)
=============================================================================
