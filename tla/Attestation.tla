----------------------------- MODULE Attestation -----------------------------
(***************************************************************************)
(* Appraisal of attestation evidence.                                      *)
(*                                                                         *)
(* sealed says that the shape of the evidence is right and its signature   *)
(* over suite and claims verifies under the attester key; quoteOK is the   *)
(* verdict of the quote verifier registered for a hardware format.         *)
(***************************************************************************)
EXTENDS Integers, Sequences, FiniteSets, FiniteSetsExt, Functions

CONSTANTS
    trustedAttesters, acceptedFormats,
    acceptedSuites,         \* suites the policy lists, of its minimal category
    quoteFormats,           \* hardware formats with a registered quote verifier
    MAX_EVIDENCES

HARDWARE_FORMATS == {"tdx", "sev-snp", "cca", "tpm"}

appraise(e, expectedNonce, at, verifiers) ==
    /\ e.format = e.claims.format
    /\ e.claims.format \in acceptedFormats
    /\ e.claims.format \in HARDWARE_FORMATS => e.claims.format \in verifiers /\ e.quoteOK
    /\ e.attester \in trustedAttesters
    /\ e.suite \in acceptedSuites
    /\ e.sealed
    /\ e.claims.nonce = expectedNonce
    /\ at \in Int /\ e.claims.notAfter \in Int
    /\ at <= e.claims.notAfter

Rejected == [valid |-> FALSE]

\* Mutant: the quorum lasts as long as its first statement.
AppraiseNofM_FirstNotAfter(evidences, n, expectedNonce, at) ==
    LET valid == {i \in DOMAIN evidences : appraise(evidences[i], expectedNonce, at, quoteFormats)}
        Claims == {evidences[i].claims : i \in valid}
    IN  IF \/ n \notin Int \/ n < 1
           \/ Len(evidences) > MAX_EVIDENCES
           \/ Cardinality({c.sessionPublicKey : c \in Claims}) > 1
           \/ Cardinality({c.sessionId : c \in Claims}) > 1
           \/ Cardinality({c.format : c \in Claims}) < n
           \/ Cardinality({evidences[i].attester : i \in valid}) < n
        THEN Rejected
        ELSE [valid |-> TRUE, claims |-> evidences[Min(valid)].claims]

\* n distinct formats and n distinct attesters that agree on one session; the
\* claims returned are the first ones, until the earliest notAfter.
appraiseNofM(evidences, n, expectedNonce, at) ==
    LET valid == {i \in DOMAIN evidences : appraise(evidences[i], expectedNonce, at, quoteFormats)}
        Claims == {evidences[i].claims : i \in valid}
    IN  IF \/ n \notin Int \/ n < 1
           \/ Len(evidences) > MAX_EVIDENCES
           \/ Cardinality({c.sessionPublicKey : c \in Claims}) > 1
           \/ Cardinality({c.sessionId : c \in Claims}) > 1
           \/ Cardinality({c.format : c \in Claims}) < n
           \/ Cardinality({evidences[i].attester : i \in valid}) < n
        THEN Rejected
        ELSE [valid |-> TRUE,
              claims |-> [evidences[Min(valid)].claims EXCEPT
                            !.notAfter = Min({c.notAfter : c \in Claims})]]
=============================================================================
