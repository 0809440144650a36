------------------------------ MODULE MCCustody ------------------------------
(* Instances of key custody and of the pool of workers for TLC. *)
EXTENDS KeyCustody, OneTimeKeys, WorkerPool

Key(name, multiTree, multiTreeName) ==
    [name |-> name, multiTree |-> multiTree, multiTreeName |-> multiTreeName]

\* Two single trees, a multi-tree key, and one that is reported as a single tree.
MCOtsKeys ==
    {Key("lms", FALSE, FALSE), Key("xmss", FALSE, FALSE), Key("hss", TRUE, TRUE),
     Key("xmssmt", FALSE, TRUE)}
-----------------------------------------------------------------------------
\* The three parts share no variable: each is explored while the others are in their
\* initial state.
MCInit == CustodyInit /\ OtsInit /\ PoolInit

CustodyRests == CustodyInit /\ backend = "aws"
PoolRests == PoolInit /\ stateful

MCNext ==
    \/ CustodyNext /\ OtsInit /\ PoolRests /\ UNCHANGED <<otsVars, poolVars>>
    \/ OtsNext /\ CustodyRests /\ PoolRests /\ UNCHANGED <<custodyVars, poolVars>>
    \/ PoolNext /\ CustodyRests /\ OtsInit /\ UNCHANGED <<custodyVars, otsVars>>

mcVars == <<custodyVars, otsVars, poolVars>>

\* The backend answers what it was asked and the event loop continues the call; the
\* operating system runs every worker thread.
MCSpec ==
    /\ MCInit /\ [][MCNext]_mcVars
    /\ \A c \in Calls : WF_mcVars(Progress(c) /\ UNCHANGED <<otsVars, poolVars>>)
    /\ \A w \in Workers :
          WF_mcVars(WorkerStep(w) /\ CustodyRests /\ OtsInit /\ UNCHANGED <<custodyVars, otsVars>>)
=============================================================================
