----------------------------- MODULE KeyCustody -----------------------------
(***************************************************************************)
(* Keys whose seeds are sealed by a key-encryption key of a backend.  A    *)
(* call of provision or load is a chain of awaits: other calls, lock, a    *)
(* rotation in the vault, a restart fall between any two of them.  A       *)
(* derived key pair is named by the call that derived it (its secret is an *)
(* object of its own in memory) and by its seed.                           *)
(***************************************************************************)
EXTENDS Integers, FiniteSets, Sequences

CONSTANTS
    Ids,
    Backends,       \* of "aws", "azure", "pkcs11"
    MaxCalls,       \* bound on the calls of provision and load
    MaxUpsets,      \* bound on garbled blobs, refusals, rotations, expiries, restarts
    None

Calls == 1..MaxCalls
Suites == {"PS-1", "PS-5"}  \* both derive ML-DSA-87 keys
Public(seed) == <<"pk", seed>>

\* Seeds: of the calls of provision, and 0 for any other.
Seeds == 0..MaxCalls

SealedBlob == [kek : Nat \cup {None}, bound : (Ids \X Suites) \cup {None}, seed : Seeds]

SealedKey == [id : Ids, suite : Suites, publicKey : {Public(seed) : seed \in Seeds},
              blob : SealedBlob \cup {None}]

UnlockedKey == [suite : Suites, seed : Seeds, obj : Calls]

CallState ==
    [kind : {"provision", "load"}, id : Ids, seed : Calls \cup {None},
     trusted : {Public(seed) : seed \in Seeds} \cup {None}, sealed : SealedKey,
     verb : {"wrap", "unwrap"}, stage : {"token", "kid", "sent"}, kid : Nat \cup {None}]

ASSUME CustodyAssumption ==
    /\ MaxCalls \in Nat
    /\ Backends \subseteq {"aws", "azure", "pkcs11"}
    /\ None \notin UnlockedKey \cup CallState \cup (Ids \X Suites) \cup Seeds

VARIABLES
    backend,        \* which sealer the provider was built with
    version,        \* the current version of the wrapping key in the vault
    kid, token,     \* AzureKeyVaultSealer: cached key version and access token
    unlocked,       \* SealingKeyProvider: id -> key pair in memory
    calls,          \* the calls in flight
    started, upsets,
    store,          \* the sealed keys provision returned, at rest
    live,           \* history: secrets in memory that were not zeroized
    born            \* history: seed -> the id and suite it was generated for

custodyVars == <<backend, version, kid, token, unlocked, calls, started, upsets,
                 store, live, born>>

isPublicKeyWrap == backend \in {"azure", "pkcs11"}

Upset == upsets < MaxUpsets /\ upsets' = upsets + 1

CustodyInit ==
    /\ backend \in Backends
    /\ version = 1 /\ kid = None /\ token = FALSE
    /\ unlocked = [id \in Ids |-> None]
    /\ calls = [c \in Calls |-> None]
    /\ started = 0 /\ upsets = 0
    /\ store = {} /\ live = {} /\ born = [c \in Calls |-> None]
-----------------------------------------------------------------------------
(* The sealers.  A blob holds a seed under a key version, and what the     *)
(* backend bound to it.                                                    *)

sealedKeyAad(sealed) == <<sealed.id, sealed.suite>>

encryptionContext(aad) == IF backend = "aws" THEN aad ELSE None

Blob(key, aad, seed) == [kek |-> key, bound |-> encryptionContext(aad), seed |-> seed]

Opens(blob, key, aad) == blob.kek = key /\ blob.bound = encryptionContext(aad)

\* A call that finds no token waits for the one another call asked for.
Ask_Shares(call, verb, k, t) ==
    LET c == [call EXCEPT !.verb = verb]
        asked == \E o \in Calls : calls[o] # None /\ calls[o].stage = "token"
    IN  CASE backend # "azure" -> [c EXCEPT !.stage = "sent", !.kid = 1]
          [] backend = "azure" /\ ~t -> [c EXCEPT !.stage = IF asked THEN "shared" ELSE "token",
                                                  !.kid = k]
          [] backend = "azure" /\ t /\ k = None -> [c EXCEPT !.stage = "kid", !.kid = None]
          [] OTHER -> [c EXCEPT !.stage = "sent", !.kid = k]

\* Where a call waits after it asked the sealer for verb: for a token, for the key
\* version or for the answer.  kid is read once and travels with the call.
Ask(call, verb, k, t) ==
    LET c == [call EXCEPT !.verb = verb]
    IN  CASE backend # "azure" -> [c EXCEPT !.stage = "sent", !.kid = 1]
          [] backend = "azure" /\ ~t -> [c EXCEPT !.stage = "token", !.kid = k]
          [] backend = "azure" /\ t /\ k = None -> [c EXCEPT !.stage = "kid", !.kid = None]
          [] OTHER -> [c EXCEPT !.stage = "sent", !.kid = k]

\* accessToken answers: the token is kept and the request it was for goes out.
TokenAnswer(c) ==
    /\ calls[c] # None /\ calls[c].stage = "token"
    /\ token' = TRUE
    /\ calls' = [calls EXCEPT ![c] = Ask(@, @.verb, @.kid, TRUE)]
    /\ UNCHANGED <<backend, version, kid, unlocked, started, upsets, store, live, born>>

\* keyId answers with the version that is current now; the POST may need a new token.
KidAnswer(c) ==
    /\ calls[c] # None /\ calls[c].stage = "kid"
    /\ kid' = version
    /\ calls' = [calls EXCEPT ![c] = Ask(@, @.verb, version, token)]
    /\ UNCHANGED <<backend, version, token, unlocked, started, upsets, store, live,
                   born>>

\* wrap answers, perhaps with a blob that holds something else; provision asks for it back.
WrapAnswer(c) ==
    /\ calls[c] # None /\ calls[c].stage = "sent" /\ calls[c].verb = "wrap"
    /\ \E seed \in {calls[c].seed, 0} :
          LET blob == Blob(calls[c].kid, sealedKeyAad(calls[c].sealed), seed)
          IN  /\ IF seed = 0 THEN Upset ELSE UNCHANGED upsets
              /\ calls' = [calls EXCEPT ![c] =
                    Ask([@ EXCEPT !.sealed.blob = blob], "unwrap", kid, token)]
    /\ UNCHANGED <<backend, version, kid, token, unlocked, started, store, live, born>>
-----------------------------------------------------------------------------
(* The provider. *)

Held(id) == IF unlocked[id] = None THEN {} ELSE {unlocked[id].obj}

lock_Keeps(id) == live
\* The secrets left when lock has zeroized what is held under the id.
lock(id) == live \ Held(id)

\* A call ends with an error; the secret it derived, if any, is zeroized.
Reject(c) ==
    /\ calls' = [calls EXCEPT ![c] = None]
    /\ live' = live \ {c}
    /\ UNCHANGED <<unlocked, store>>

Unlock(c, id, suite, seed) ==
    /\ live' = lock(id) \cup {c}
    /\ unlocked' = [unlocked EXCEPT ![id] = [suite |-> suite, seed |-> seed, obj |-> c]]
    /\ calls' = [calls EXCEPT ![c] = None]

\* provision up to its first await: the seed of call c is c.
provision(id, suite) ==
    LET c == started + 1
    IN  /\ started < MaxCalls
        /\ started' = c
        /\ born' = [born EXCEPT ![c] = <<id, suite>>]
        /\ live' = live \cup {c}
        /\ calls' = [calls EXCEPT ![c] =
              Ask([kind |-> "provision", id |-> id, seed |-> c, trusted |-> None,
                   sealed |-> [id |-> id, suite |-> suite, publicKey |-> Public(c),
                               blob |-> None],
                   verb |-> "wrap", stage |-> "sent", kid |-> None], "wrap", kid, token)]
        /\ UNCHANGED <<backend, version, kid, token, unlocked, upsets, store>>

\* provision after the last await: it goes on only if the blob gave back the seed.
provisionChecked(c) ==
    LET b == calls[c].sealed.blob
    IN  IF Opens(b, calls[c].kid, sealedKeyAad(calls[c].sealed)) /\ b.seed = calls[c].seed
        THEN /\ Unlock(c, calls[c].id, calls[c].sealed.suite, calls[c].seed)
             /\ store' = store \cup {calls[c].sealed}
        ELSE Reject(c)

\* load up to its await.
load(sealed, trusted) ==
    LET c == started + 1
    IN  /\ started < MaxCalls
        /\ started' = c
        /\ calls' = [calls EXCEPT ![c] =
              Ask([kind |-> "load", id |-> sealed.id, seed |-> None, trusted |-> trusted,
                   sealed |-> sealed, verb |-> "unwrap", stage |-> "sent", kid |-> None],
                  "unwrap", kid, token)]
        /\ UNCHANGED <<backend, version, kid, token, unlocked, upsets, store, live,
                       born>>

\* The trusted public key is compared only if the caller gave one.
Authentic_OptIn(c) ==
    LET s == calls[c].sealed
    IN  /\ Public(s.blob.seed) = s.publicKey
        /\ calls[c].trusted # None => s.publicKey = calls[c].trusted

\* The checks of load on what was unwrapped.
Authentic(c) ==
    LET s == calls[c].sealed
    IN  /\ Public(s.blob.seed) = s.publicKey
        /\ isPublicKeyWrap => calls[c].trusted # None
        /\ calls[c].trusted # None => s.publicKey = calls[c].trusted

\* load after its await: all checks pass, or whatever was derived is zeroized.
loaded(c) ==
    LET s == calls[c].sealed
    IN  IF Opens(s.blob, calls[c].kid, sealedKeyAad(s)) /\ Authentic(c)
        THEN Unlock(c, s.id, s.suite, s.blob.seed) /\ UNCHANGED store
        ELSE Reject(c)

UnwrapAnswer(c) ==
    /\ calls[c] # None /\ calls[c].stage = "sent" /\ calls[c].verb = "unwrap"
    /\ IF calls[c].kind = "provision" THEN provisionChecked(c) ELSE loaded(c)
    /\ UNCHANGED <<backend, version, kid, token, started, upsets, born>>

\* The backend refuses or the request fails: the promise rejects.
Refused(c) ==
    /\ Upset /\ calls[c] # None
    /\ Reject(c)
    /\ UNCHANGED <<backend, version, kid, token, started, born>>

Lock(id) ==
    /\ unlocked[id] # None
    /\ live' = lock(id)
    /\ unlocked' = [unlocked EXCEPT ![id] = None]
    /\ UNCHANGED <<backend, version, kid, token, calls, started, upsets, store, born>>

\* The key a signature made under id for suite verifies with; None when sign throws.
sign(id, suite) ==
    IF unlocked[id] = None \/ unlocked[id].suite # suite THEN None ELSE Public(unlocked[id].seed)
-----------------------------------------------------------------------------
(* The surroundings. *)

Rotate ==
    /\ Upset /\ backend = "azure"
    /\ version' = version + 1
    /\ UNCHANGED <<backend, kid, token, unlocked, calls, started, store, live, born>>

\* Less than a minute of the token is left.
TokenExpires ==
    /\ Upset /\ token
    /\ token' = FALSE
    /\ UNCHANGED <<backend, version, kid, unlocked, calls, started, store, live, born>>

Restart ==
    /\ Upset
    /\ kid' = None /\ token' = FALSE
    /\ unlocked' = [id \in Ids |-> None]
    /\ calls' = [c \in Calls |-> None]
    /\ live' = {}
    /\ UNCHANGED <<backend, version, started, store, born>>

\* A sealed key that was not made by provision: the blob of one key under the name of
\* another, or, where wrapping takes a public key only, a blob made elsewhere.
Substituted(id) ==
    {[id |-> id, suite |-> suite, publicKey |-> s.publicKey, blob |-> s.blob] :
        s \in store, suite \in Suites}
        \cup (IF isPublicKeyWrap
              THEN {[id |-> id, suite |-> "PS-5", publicKey |-> Public(0),
                     blob |-> [kek |-> version, bound |-> None, seed |-> 0]]}
              ELSE {})

\* The record of public keys a caller keeps outside the store of blobs.
Recorded(id) == {None} \cup {s.publicKey : s \in {x \in store : x.id = id}}

CustodyEnv ==
    \/ Rotate \/ TokenExpires \/ Restart
    \/ \E id \in Ids :
          \/ Lock(id)
          \/ provision(id, "PS-5")
          \/ \E s \in Substituted(id), trusted \in Recorded(id) : load(s, trusted)

\* What the backend and the event loop do about a call in flight.
Progress(c) == TokenAnswer(c) \/ KidAnswer(c) \/ WrapAnswer(c) \/ UnwrapAnswer(c)

CustodyNext == CustodyEnv \/ \E c \in Calls : Progress(c) \/ Refused(c)

CustodySpec == CustodyInit /\ [][CustodyNext]_custodyVars
-----------------------------------------------------------------------------
UnlockedSecrets == UNION {Held(id) : id \in Ids}
ProvisionSecrets == {c \in Calls : calls[c] # None /\ calls[c].kind = "provision"}

\* No secret is left behind: what is in memory and not zeroized is either unlocked under
\* an id or held by a call of provision that still runs, however calls, failures and lock
\* interleave (lock, the catch blocks of provision and load).
NoStraySecret == live = UnlockedSecrets \cup ProvisionSecrets

\* Whoever signs under an id signs with a key that was generated for that id, with every
\* backend and whatever was put in the place of its blob at rest, and where the backend
\* binds context also for that suite (sign; load: the bound context, the corruption check,
\* the mandatory trusted public key of public-key wraps).
UnlocksOwnKey ==
    \A id \in Ids, suite \in Suites : sign(id, suite) # None =>
        \E c \in Calls :
            /\ sign(id, suite) = Public(c)
            /\ born[c] # None /\ born[c][1] = id
            /\ backend = "aws" => born[c][2] = suite

\* What provision handed out can be opened again: every sealed key it returned holds its
\* own seed, although the backend garbles blobs and calls that run at the same time may
\* change the cached key version between its two requests (the round trip in provision).
NothingLost == \A s \in store : Public(s.blob.seed) = s.publicKey

\* A key stays what it was made as, from provision through the sealed form and back into
\* memory (provision, load, sign).
KeysIntact == UnlocksOwnKey /\ NothingLost

\* Every call of provision and load settles, if the backend answers what it is asked:
\* no order of answers leaves one waiting for good.
CallsSettle == \A c \in Calls : (calls[c] # None) ~> (calls[c] = None)
=============================================================================
