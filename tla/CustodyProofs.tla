--------------------------- MODULE CustodyProofs ---------------------------
(***************************************************************************)
(* Keys and the workers that use them.  Sealed keys, for every set of      *)
(* identities and every number of concurrent calls: no secret outlives its *)
(* use, and no key is lost or altered by calls that overlap.  One-time     *)
(* keys, for every set of keys and heights: a leaf signs once.  A pool of  *)
(* any number of workers of any number of rounds: it resolves with the     *)
(* exact count.                                                            *)
(***************************************************************************)
EXTENDS KeyCustody, OneTimeKeys, WorkerPool, FiniteSetTheorems, TLAPS

(***************************************************************************)
(* Sealed keys.                                                            *)
(***************************************************************************)

CustodyTypeOK ==
    /\ backend \in Backends
    /\ version \in Nat /\ kid \in Nat \cup {None} /\ token \in BOOLEAN
    /\ unlocked \in [Ids -> UnlockedKey \cup {None}]
    /\ calls \in [Calls -> CallState \cup {None}]
    /\ started \in 0..MaxCalls
    /\ store \subseteq SealedKey
    /\ born \in [Calls -> (Ids \X Suites) \cup {None}]

\* Calls that have not begun hold nothing.
NotBegun == \A c \in Calls : c > started => calls[c] = None

BornBegun == \A c \in Calls : born[c] # None => c <= started

\* A secret is in one place: under one id, and not also with a call in flight.
OnePlace ==
    \A id \in Ids : unlocked[id] # None =>
        /\ unlocked[id].obj <= started
        /\ calls[unlocked[id].obj] = None
        /\ \A other \in Ids \ {id} :
              unlocked[other] # None => unlocked[other].obj # unlocked[id].obj

\* x is the secret of a key that is unlocked under id, or of a call of provision.
HeldUnder(x, id) == unlocked[id] # None /\ unlocked[id].obj = x
HeldByCall(x) == x \in Calls /\ calls[x] # None /\ calls[x].kind = "provision"

SecretsAccounted == \A x : x \in live <=> (\E id \in Ids : HeldUnder(x, id)) \/ HeldByCall(x)

\* What was generated for whom, in the store, ...
StoreOK ==
    \A s \in store :
        /\ s.blob.seed \in Calls
        /\ s.publicKey = Public(s.blob.seed)
        /\ born[s.blob.seed] = <<s.id, s.suite>>
        /\ backend = "aws" => s.blob.bound = <<s.id, s.suite>>

\* ... in memory, ...
KeyOK(id) ==
    unlocked[id] # None =>
        LET seed == unlocked[id].seed
        IN  /\ seed \in Calls
            /\ born[seed] # None /\ born[seed][1] = id
            /\ backend = "aws" => born[seed][2] = unlocked[id].suite

\* ... with a call of provision and ...
ProvisionOK(c) ==
    (calls[c] # None /\ calls[c].kind = "provision") =>
        LET sealed == calls[c].sealed
        IN  /\ calls[c].seed = c
            /\ calls[c].id = sealed.id
            /\ sealed.publicKey = Public(c)
            /\ born[c] = <<sealed.id, sealed.suite>>

\* ... with a call of load: a blob of the store under any name, or one made elsewhere with
\* a public key, and a trusted public key of the id it is loaded for.
LoadOK(c) ==
    (calls[c] # None /\ calls[c].kind = "load") =>
        LET sealed == calls[c].sealed
        IN  /\ calls[c].verb = "unwrap"
            /\ isPublicKeyWrap \/ \E s \in store : s.blob = sealed.blob
            /\ calls[c].trusted # None =>
                  \E s \in store : s.id = sealed.id /\ s.publicKey = calls[c].trusted

CustodyInv ==
    /\ CustodyTypeOK
    /\ NotBegun /\ BornBegun
    /\ OnePlace
    /\ SecretsAccounted
    /\ StoreOK
    /\ \A id \in Ids : KeyOK(id)
    /\ \A c \in Calls : ProvisionOK(c) /\ LoadOK(c)

\* r is call, at another point of its way through the sealer, perhaps with another blob.
SameCall(r, call) ==
    /\ r \in CallState
    /\ r.kind = call.kind /\ r.seed = call.seed /\ r.trusted = call.trusted /\ r.id = call.id
    /\ r.sealed.id = call.sealed.id /\ r.sealed.suite = call.sealed.suite
    /\ r.sealed.publicKey = call.sealed.publicKey

\* Asking the sealer changes nothing of a call but where it waits.
LEMMA AskFacts ==
    ASSUME NEW call \in CallState, NEW verb \in {"wrap", "unwrap"}, NEW k \in Nat \cup {None},
           NEW t
    PROVE  /\ SameCall(Ask(call, verb, k, t), call)
           /\ Ask(call, verb, k, t).sealed = call.sealed
           /\ Ask(call, verb, k, t).verb = verb
<1> DEFINE r == Ask(call, verb, k, t)
<1>1. PICK g \in {"token", "kid", "sent"}, n \in Nat \cup {None} :
         r = [[call EXCEPT !.verb = verb] EXCEPT !.stage = g, !.kid = n]
  <2>1. 1 \in Nat \cup {None}
    OBVIOUS
  <2>2. QED
    BY <2>1, Zenon DEF Ask
<1> HIDE DEF r
<1>2. /\ r \in CallState
      /\ r.kind = call.kind /\ r.seed = call.seed /\ r.trusted = call.trusted
      /\ r.id = call.id /\ r.sealed = call.sealed /\ r.verb = verb
  BY <1>1, Zenon DEF CallState
<1>3. QED
  BY <1>2, Zenon DEF r, SameCall

\* The answer of wrap changes nothing of a call but its blob.
LEMMA WithBlob ==
    ASSUME NEW call \in CallState, NEW blob \in SealedBlob
    PROVE  LET r == [call EXCEPT !.sealed.blob = blob]
           IN  SameCall(r, call) /\ r.sealed.blob = blob /\ r.verb = call.verb
<1> DEFINE r == [call EXCEPT !.sealed.blob = blob]
<1>1. /\ r \in CallState /\ r.kind = call.kind /\ r.id = call.id /\ r.seed = call.seed
      /\ r.trusted = call.trusted /\ r.verb = call.verb
      /\ r.sealed.id = call.sealed.id /\ r.sealed.suite = call.sealed.suite
      /\ r.sealed.publicKey = call.sealed.publicKey /\ r.sealed.blob = blob
  BY DEF CallState, SealedKey
<1>2. QED
  BY <1>1, Zenon DEF SameCall

\* The invariant holds of an empty provider.
LEMMA CustodyInitInv == CustodyInit => CustodyInv
<1> SUFFICES ASSUME CustodyInit PROVE CustodyInv
  OBVIOUS
<1>1. CustodyTypeOK
  <2>1. token \in BOOLEAN /\ backend \in Backends /\ kid \in Nat \cup {None}
    BY Zenon DEF CustodyInit
  <2>2. version \in Nat /\ started \in 0..MaxCalls
    BY CustodyAssumption DEF CustodyInit
  <2>3. QED
    BY <2>1, <2>2 DEF CustodyInit, CustodyTypeOK
<1>2. QED
  BY <1>1 DEF CustodyInit, CustodyInv, NotBegun, BornBegun, OnePlace,
    SecretsAccounted, HeldUnder, HeldByCall, StoreOK, KeyOK, ProvisionOK, LoadOK

\* A call that goes on from one await to the next disturbs nothing.
LEMMA WaitingKeepsInv ==
    ASSUME CustodyInv, NEW c \in Calls, calls[c] # None,
           NEW r, SameCall(r, calls[c]),
           calls[c].kind = "load" => r.sealed = calls[c].sealed /\ r.verb = "unwrap",
           calls' = [calls EXCEPT ![c] = r],
           UNCHANGED <<backend, unlocked, started, store, live, born>>,
           version' \in Nat, kid' \in Nat \cup {None}, token' \in BOOLEAN
    PROVE  CustodyInv'
<1>1. /\ r \in CallState /\ r # None /\ r.kind = calls[c].kind
      /\ calls' \in [Calls -> CallState \cup {None}]
      /\ calls'[c] = r /\ \A d \in Calls : d # c => calls'[d] = calls[d]
  BY CustodyAssumption DEF SameCall, CustodyInv, CustodyTypeOK
<1>2. CustodyTypeOK'
  BY <1>1 DEF CustodyInv, CustodyTypeOK
<1>3. NotBegun' /\ BornBegun' /\ OnePlace' /\ StoreOK' /\ \A id \in Ids : KeyOK(id)'
  BY <1>1 DEF CustodyInv, CustodyTypeOK, UnlockedKey, NotBegun, BornBegun, OnePlace, StoreOK, KeyOK
<1>4. SecretsAccounted'
  BY <1>1 DEF CustodyInv, SecretsAccounted, HeldUnder, HeldByCall
<1>5. ASSUME NEW d \in Calls PROVE ProvisionOK(d)' /\ LoadOK(d)'
  <2>1. ProvisionOK(d) /\ LoadOK(d)
    BY DEF CustodyInv
  <2>2. CASE d # c
    BY <1>1, <2>1, <2>2, Zenon DEF ProvisionOK, LoadOK, isPublicKeyWrap
  <2>3. CASE d = c
    BY <1>1, <2>1, <2>3 DEF ProvisionOK, LoadOK, SameCall, isPublicKeyWrap
  <2>4. QED
    BY <2>2, <2>3
<1>6. QED
  BY <1>2, <1>3, <1>4, <1>5 DEF CustodyInv

\* A call that ends with an error takes its own secret with it and no other.
LEMMA RejectKeepsInv ==
    ASSUME CustodyInv, NEW c \in Calls, calls[c] # None, Reject(c),
           UNCHANGED <<backend, version, kid, token, started, born>>
    PROVE  CustodyInv'
<1>1. /\ calls' \in [Calls -> CallState \cup {None}]
      /\ calls'[c] = None /\ \A d \in Calls : d # c => calls'[d] = calls[d]
      /\ live' = live \ {c} /\ unlocked' = unlocked /\ store' = store
  BY Zenon DEF Reject, CustodyInv, CustodyTypeOK
<1>2. CustodyTypeOK'
  BY <1>1, Zenon DEF CustodyInv, CustodyTypeOK
<1>3. NotBegun' /\ BornBegun' /\ OnePlace' /\ StoreOK' /\ \A id \in Ids : KeyOK(id)'
  BY <1>1 DEF CustodyInv, CustodyTypeOK, UnlockedKey, NotBegun, BornBegun, OnePlace, StoreOK, KeyOK
<1>4. SecretsAccounted'
  <2>1. \A id \in Ids : ~HeldUnder(c, id)
    BY Zenon DEF HeldUnder, CustodyInv, OnePlace
  <2>2. QED
    BY <1>1, <2>1 DEF CustodyInv, SecretsAccounted, HeldUnder, HeldByCall
<1>5. \A d \in Calls : ProvisionOK(d)' /\ LoadOK(d)'
  BY <1>1 DEF CustodyInv, ProvisionOK, LoadOK, isPublicKeyWrap
<1>6. QED
  BY <1>2, <1>3, <1>4, <1>5, Zenon DEF CustodyInv

\* A call that ends well replaces what was unlocked under the id, whose secret lock
\* zeroizes first.
LEMMA UnlockKeepsInv ==
    ASSUME CustodyInv, NEW c \in Calls, calls[c] # None,
           NEW id \in Ids, NEW suite \in Suites, NEW seed \in Calls,
           Unlock(c, id, suite, seed),
           born[seed] # None, born[seed][1] = id, backend = "aws" => born[seed][2] = suite,
           store \subseteq store', store' \subseteq SealedKey, StoreOK',
           UNCHANGED <<backend, version, kid, token, started, born>>
    PROVE  CustodyInv'
<1> DEFINE key == [suite |-> suite, seed |-> seed, obj |-> c]
<1>1. /\ calls' \in [Calls -> CallState \cup {None}]
      /\ calls'[c] = None /\ \A d \in Calls : d # c => calls'[d] = calls[d]
  BY Zenon DEF Unlock, CustodyInv, CustodyTypeOK
<1>2. key \in UnlockedKey /\ key # None
  BY CustodyAssumption DEF UnlockedKey, Seeds, Calls
<1>3. /\ unlocked' \in [Ids -> UnlockedKey \cup {None}]
      /\ unlocked'[id] = key /\ \A other \in Ids : other # id => unlocked'[other] = unlocked[other]
  BY <1>2, Zenon DEF Unlock, CustodyInv, CustodyTypeOK
<1>4. key.suite = suite /\ key.seed = seed /\ key.obj = c
  BY Zenon
<1> HIDE DEF key
<1>5. CustodyTypeOK'
  BY <1>1, <1>3, Zenon DEF CustodyInv, CustodyTypeOK
<1>6. c <= started
  BY DEF CustodyInv, CustodyTypeOK, NotBegun, Calls
<1>7. \A other \in Ids :
         unlocked[other] # None => unlocked[other].obj # c /\ unlocked[other].obj \in Calls
  BY DEF CustodyInv, CustodyTypeOK, OnePlace, UnlockedKey
<1>8. NotBegun' /\ BornBegun' /\ OnePlace'
  BY <1>1, <1>2, <1>3, <1>4, <1>6, <1>7 DEF CustodyInv, NotBegun, BornBegun, OnePlace
<1>9. SecretsAccounted'
  <2> SUFFICES ASSUME NEW x
               PROVE  x \in live' <=> (\E i \in Ids : HeldUnder(x, i)') \/ HeldByCall(x)'
    BY Zenon DEF SecretsAccounted
  <2>1. x \in live <=> (\E i \in Ids : HeldUnder(x, i)) \/ HeldByCall(x)
    BY Zenon DEF CustodyInv, SecretsAccounted
  <2>2. x \in live' <=> x = c \/ (x \in live /\ ~HeldUnder(x, id))
    BY Zenon DEF Unlock, lock, Held, HeldUnder
  <2>3. \A i \in Ids : HeldUnder(x, i)' <=> IF i = id THEN x = c ELSE HeldUnder(x, i)
    BY <1>2, <1>3, <1>4, Zenon DEF HeldUnder
  <2>4. HeldByCall(x)' <=> x # c /\ HeldByCall(x)
    BY <1>1, Zenon DEF HeldByCall
  <2>5. HeldUnder(x, id) => ~HeldByCall(x) /\ \A i \in Ids : i # id => ~HeldUnder(x, i)
    BY DEF HeldUnder, HeldByCall, CustodyInv, OnePlace
  <2>6. x = c => \A i \in Ids : ~HeldUnder(x, i)
    BY <1>7, Zenon DEF HeldUnder
  <2>7. QED
    BY <2>1, <2>2, <2>3, <2>4, <2>5, <2>6, Zenon
<1>10. ASSUME NEW i \in Ids PROVE KeyOK(i)'
  BY <1>2, <1>3, <1>4 DEF CustodyInv, KeyOK
<1>11. ASSUME NEW d \in Calls PROVE ProvisionOK(d)' /\ LoadOK(d)'
  <2>1. ProvisionOK(d) /\ LoadOK(d)
    BY Zenon DEF CustodyInv
  <2>2. QED
    BY <1>1, <2>1, Zenon DEF ProvisionOK, LoadOK, isPublicKeyWrap
<1>12. QED
  BY <1>5, <1>8, <1>9, <1>10, <1>11, Zenon DEF CustodyInv

\* The answer of unwrap to either call: the key is unlocked, or the call fails and its
\* secret is erased.
LEMMA UnwrapKeepsInv ==
    ASSUME CustodyInv, NEW c \in Calls, UnwrapAnswer(c)
    PROVE  CustodyInv'
<1> DEFINE s == calls[c].sealed
<1>1. /\ calls[c] # None /\ calls[c] \in CallState
      /\ ProvisionOK(c) /\ LoadOK(c) /\ StoreOK
      /\ UNCHANGED <<backend, version, kid, token, started, born>>
  BY Zenon DEF UnwrapAnswer, CustodyInv, CustodyTypeOK
<1>2. s \in SealedKey /\ s.id \in Ids /\ s.suite \in Suites /\ calls[c].kind \in {"provision", "load"}
  BY <1>1 DEF CallState, SealedKey
<1>3. CASE calls[c].kind = "provision"
  <2>1. provisionChecked(c)
    BY <1>3, Zenon DEF UnwrapAnswer
  <2>2. CASE Reject(c)
    BY <1>1, <2>2, RejectKeepsInv, Zenon
  <2>3. CASE ~Reject(c)
    <3>1. /\ Unlock(c, calls[c].id, s.suite, calls[c].seed)
          /\ store' = store \cup {s}
          /\ s.blob.bound = encryptionContext(<<s.id, s.suite>>)
          /\ s.blob.seed = calls[c].seed
      BY <2>1, <2>3, Zenon DEF provisionChecked, Opens, sealedKeyAad
    <3>2. /\ calls[c].seed = c /\ calls[c].id = s.id /\ s.publicKey = Public(c)
          /\ born[c] = <<s.id, s.suite>>
      BY <1>1, <1>3, Zenon DEF ProvisionOK
    <3>3. born[c] # None /\ born[c][1] = s.id /\ born[c][2] = s.suite
      BY <3>2, <1>2, CustodyAssumption
    <3>4. StoreOK'
      BY <1>1, <3>1, <3>2, Zenon DEF StoreOK, encryptionContext
    <3>5. store \subseteq store' /\ store' \subseteq SealedKey
      BY <3>1, <1>2 DEF CustodyInv, CustodyTypeOK
    <3>6. Unlock(c, s.id, s.suite, c)
      BY <3>1, <3>2, Zenon
    <3> HIDE DEF s
    <3>7. QED
      BY <1>1, <1>2, <3>3, <3>4, <3>5, <3>6, UnlockKeepsInv, Zenon
  <2>4. QED
    BY <2>2, <2>3, Zenon
<1>4. CASE calls[c].kind = "load"
  <2>1. loaded(c)
    BY <1>4, Zenon DEF UnwrapAnswer
  <2>2. CASE Reject(c)
    BY <1>1, <2>2, RejectKeepsInv
  <2>3. CASE ~Reject(c)
    <3>1. /\ Unlock(c, s.id, s.suite, s.blob.seed)
          /\ store' = store
          /\ s.blob.bound = encryptionContext(<<s.id, s.suite>>)
          /\ Authentic(c)
      BY <2>1, <2>3 DEF loaded, Opens, sealedKeyAad
    <3>2. PICK seed : seed = s.blob.seed
      BY Zenon
    <3>3. /\ seed \in Calls /\ born[seed] # None /\ born[seed][1] = s.id
          /\ backend = "aws" => born[seed][2] = s.suite
      <4>1. CASE isPublicKeyWrap
        <5>1. calls[c].trusted # None /\ s.publicKey = calls[c].trusted /\ Public(seed) = s.publicKey
          BY <4>1, <3>1, <3>2, Zenon DEF Authentic
        <5>2. PICK x \in store : x.id = s.id /\ x.publicKey = s.publicKey
          BY <5>1, <1>1, <1>4, Zenon DEF LoadOK
        <5>3. /\ x.blob.seed \in Calls /\ Public(x.blob.seed) = x.publicKey
              /\ born[x.blob.seed] = <<x.id, x.suite>>
              /\ x.id \in Ids /\ x.suite \in Suites
          BY <1>1, Zenon DEF StoreOK, CustodyInv, CustodyTypeOK, SealedKey
        <5>4. x.blob.seed = seed
          BY <5>1, <5>2, <5>3 DEF Public
        <5>5. backend # "aws"
          BY <4>1, Zenon DEF isPublicKeyWrap
        <5>6. <<x.id, x.suite>> # None /\ <<x.id, x.suite>>[1] = x.id
          BY <5>3, CustodyAssumption
        <5>7. QED
          BY <5>2, <5>3, <5>4, <5>5, <5>6, Zenon
      <4>2. CASE ~isPublicKeyWrap
        <5>1. backend = "aws"
          BY <4>2, CustodyAssumption, Zenon DEF isPublicKeyWrap, CustodyInv, CustodyTypeOK
        <5>2. PICK x \in store : x.blob = s.blob
          BY <4>2, <1>1, <1>4, Zenon DEF LoadOK
        <5>3. /\ seed \in Calls /\ born[seed] = <<x.id, x.suite>>
              /\ s.blob.bound = <<x.id, x.suite>>
              /\ x.id \in Ids /\ x.suite \in Suites
          BY <1>1, <3>2, <5>1, <5>2, Zenon DEF StoreOK, CustodyInv, CustodyTypeOK, SealedKey
        <5>4. x.id = s.id /\ x.suite = s.suite
          BY <3>1, <5>1, <5>3 DEF encryptionContext
        <5>5. QED
          BY <5>3, <5>4, CustodyAssumption
      <4>3. QED
        BY <4>1, <4>2
    <3>4. StoreOK' /\ store \subseteq store' /\ store' \subseteq SealedKey
      BY <1>1, <3>1, Zenon DEF StoreOK, CustodyInv, CustodyTypeOK
    <3> HIDE DEF s
    <3>5. QED
      BY <1>1, <1>2, <3>1, <3>2, <3>3, <3>4, UnlockKeepsInv, Zenon
  <2>4. QED
    BY <2>2, <2>3
<1>5. QED
  BY <1>2, <1>3, <1>4, Zenon

\* The answers before the last one only move the call on.
LEMMA AnswersKeepInv ==
    ASSUME CustodyInv, NEW c \in Calls, TokenAnswer(c) \/ KidAnswer(c) \/ WrapAnswer(c)
    PROVE  CustodyInv'
<1>1. /\ calls[c] # None /\ calls[c] \in CallState
      /\ calls[c].verb \in {"wrap", "unwrap"} /\ calls[c].kid \in Nat \cup {None}
      /\ version \in Nat /\ kid \in Nat \cup {None} /\ token \in BOOLEAN
      /\ calls[c].kind = "load" => calls[c].verb = "unwrap"
  <2>1. calls[c] # None
    BY Zenon DEF TokenAnswer, KidAnswer, WrapAnswer
  <2>2. calls[c] \in CallState /\ LoadOK(c)
    BY <2>1 DEF CustodyInv, CustodyTypeOK
  <2>3. version \in Nat /\ kid \in Nat \cup {None} /\ token \in BOOLEAN
    BY DEF CustodyInv, CustodyTypeOK
  <2>4. QED
    BY <2>1, <2>2, <2>3, Zenon DEF LoadOK, CallState
<1>2. CASE TokenAnswer(c)
  <2>1. PICK r : r = Ask(calls[c], calls[c].verb, calls[c].kid, TRUE)
    BY Zenon
  <2>2. SameCall(r, calls[c]) /\ r.sealed = calls[c].sealed /\ r.verb = calls[c].verb
    <3>1. calls[c] \in CallState
      BY <1>1, Zenon
    <3>2. calls[c].verb \in {"wrap", "unwrap"}
      BY <1>1, Zenon
    <3>3. calls[c].kid \in Nat \cup {None}
      BY <1>1, Zenon
    <3>4. /\ SameCall(Ask(calls[c], calls[c].verb, calls[c].kid, TRUE), calls[c])
          /\ Ask(calls[c], calls[c].verb, calls[c].kid, TRUE).sealed = calls[c].sealed
          /\ Ask(calls[c], calls[c].verb, calls[c].kid, TRUE).verb = calls[c].verb
      BY <3>1, <3>2, <3>3, AskFacts, Zenon
    <3>5. QED
      BY <2>1, <3>4, Zenon
  <2>3. /\ calls' = [calls EXCEPT ![c] = r]
        /\ UNCHANGED <<backend, unlocked, started, store, live, born>>
        /\ version' \in Nat /\ kid' \in Nat \cup {None}
    BY <1>1, <1>2, <2>1 DEF TokenAnswer
  <2>4. token' \in BOOLEAN
    BY <1>2, Zenon DEF TokenAnswer
  <2>5. QED
    BY <1>1, <2>2, <2>3, <2>4, WaitingKeepsInv, Zenon
<1>3. CASE KidAnswer(c)
  <2>1. PICK r : r = Ask(calls[c], calls[c].verb, version, token)
    BY Zenon
  <2>2. SameCall(r, calls[c]) /\ r.sealed = calls[c].sealed /\ r.verb = calls[c].verb
    BY <1>1, <2>1, AskFacts
  <2>3. /\ calls' = [calls EXCEPT ![c] = r]
        /\ UNCHANGED <<backend, unlocked, started, store, live, born>>
        /\ version' \in Nat /\ kid' \in Nat \cup {None} /\ token' \in BOOLEAN
    BY <1>1, <1>3, <2>1, Zenon DEF KidAnswer
  <2>4. QED
    BY <1>1, <2>2, <2>3, WaitingKeepsInv, Zenon
<1>4. CASE WrapAnswer(c)
  <2>1. calls[c].verb = "wrap" /\ calls[c].kind # "load"
    BY <1>1, <1>4 DEF WrapAnswer
  <2>2. PICK seed \in {calls[c].seed, 0} :
           calls' = [calls EXCEPT ![c] =
              Ask([calls[c] EXCEPT !.sealed.blob =
                     Blob(calls[c].kid, sealedKeyAad(calls[c].sealed), seed)], "unwrap", kid, token)]
    BY <1>4, Zenon DEF WrapAnswer
  <2>3. PICK blob : blob = Blob(calls[c].kid, sealedKeyAad(calls[c].sealed), seed)
    BY Zenon
  <2>4. blob \in SealedBlob
    <3>1. seed \in Seeds
      <4>1. calls[c].kind = "provision"
        BY <1>1, <2>1, Zenon DEF CallState
      <4>2. calls[c].seed = c
        BY <1>1, <4>1, Zenon DEF CustodyInv, ProvisionOK
      <4>3. QED
        BY <2>2, <4>2, CustodyAssumption DEF Seeds, Calls
    <3>2. sealedKeyAad(calls[c].sealed) \in Ids \X Suites
      BY <1>1 DEF CallState, SealedKey, sealedKeyAad
    <3>3. QED
      BY <1>1, <2>3, <3>1, <3>2 DEF Blob, SealedBlob, encryptionContext
  <2>5. PICK mid : mid = [calls[c] EXCEPT !.sealed.blob = blob]
    BY Zenon
  <2>6. SameCall(mid, calls[c])
    BY <1>1, <2>4, <2>5, WithBlob, Zenon
  <2>7. PICK r : r = Ask(mid, "unwrap", kid, token)
    BY Zenon
  <2>8. SameCall(r, mid)
    <3>1. mid \in CallState
      BY <2>6 DEF SameCall
    <3>2. QED
      BY <1>1, <3>1, <2>7, AskFacts, Zenon
  <2>9. SameCall(r, calls[c])
    BY <2>6, <2>8, Zenon DEF SameCall
  <2>10. calls' = [calls EXCEPT ![c] = r]
    BY <2>2, <2>3, <2>5, <2>7, Zenon
  <2>11. UNCHANGED <<backend, unlocked, started, store, live, born, version, kid, token>>
    BY <1>4 DEF WrapAnswer
  <2>12. QED
    BY <1>1, <2>1, <2>9, <2>10, <2>11, WaitingKeepsInv, Zenon
<1>5. QED
  BY <1>2, <1>3, <1>4, Zenon

\* A call that begins.
LEMMA BeginKeepsInv ==
    ASSUME CustodyInv, NEW c \in Calls, c = started + 1, started' = c,
           NEW r \in CallState, calls' = [calls EXCEPT ![c] = r],
           live' = IF r.kind = "provision" THEN live \cup {c} ELSE live,
           UNCHANGED <<backend, version, kid, token, unlocked, store>>,
           born' \in [Calls -> (Ids \X Suites) \cup {None}],
           \A d \in Calls : d # c => born'[d] = born[d],
           BornBegun', ProvisionOK(c)', LoadOK(c)', StoreOK', \A id \in Ids : KeyOK(id)'
    PROVE  CustodyInv'
<1>1. /\ r # None /\ calls' \in [Calls -> CallState \cup {None}]
      /\ calls'[c] = r /\ \A d \in Calls : d # c => calls'[d] = calls[d]
  BY CustodyAssumption, Zenon DEF CustodyInv, CustodyTypeOK
<1>2. started' \in 0..MaxCalls
  BY CustodyAssumption DEF Calls
<1>3. CustodyTypeOK'
  BY <1>1, <1>2, Zenon DEF CustodyInv, CustodyTypeOK
<1>4. NotBegun' /\ OnePlace'
  BY <1>1 DEF CustodyInv, CustodyTypeOK, UnlockedKey, NotBegun, OnePlace, Calls
<1>5. SecretsAccounted'
  <2> SUFFICES ASSUME NEW x
               PROVE  x \in live' <=> (\E i \in Ids : HeldUnder(x, i)') \/ HeldByCall(x)'
    BY Zenon DEF SecretsAccounted
  <2>1. x \in live <=> (\E i \in Ids : HeldUnder(x, i)) \/ HeldByCall(x)
    BY Zenon DEF CustodyInv, SecretsAccounted
  <2>2. \A i \in Ids : HeldUnder(x, i)' <=> HeldUnder(x, i)
    BY Zenon DEF HeldUnder
  <2>3. HeldByCall(x)' <=> IF x = c THEN r.kind = "provision" ELSE HeldByCall(x)
    BY <1>1, Zenon DEF HeldByCall
  <2>4. x = c => ~HeldByCall(x)
    BY DEF HeldByCall, CustodyInv, CustodyTypeOK, NotBegun, Calls
  <2>5. QED
    BY <2>1, <2>2, <2>3, <2>4, Zenon
<1>6. ASSUME NEW d \in Calls PROVE ProvisionOK(d)' /\ LoadOK(d)'
  <2>1. ProvisionOK(d) /\ LoadOK(d)
    BY Zenon DEF CustodyInv
  <2>2. CASE d # c
    BY <1>1, <2>1, <2>2 DEF ProvisionOK, LoadOK, isPublicKeyWrap
  <2>3. QED
    BY <2>2, Zenon
<1>7. QED
  BY <1>3, <1>4, <1>5, <1>6 DEF CustodyInv

\* A call of provision begins: it alone holds the new secret.
LEMMA ProvisionKeepsInv ==
    ASSUME CustodyInv, NEW id \in Ids, NEW suite \in Suites, provision(id, suite)
    PROVE  CustodyInv'
<1> DEFINE c == started + 1
           call == [kind |-> "provision", id |-> id, seed |-> c, trusted |-> None,
                    sealed |-> [id |-> id, suite |-> suite, publicKey |-> Public(c),
                                blob |-> None],
                    verb |-> "wrap", stage |-> "sent", kid |-> None]
<1>1. /\ c \in Calls /\ c \in Seeds /\ started' = c
      /\ kid \in Nat \cup {None} /\ token \in BOOLEAN
      /\ born' = [born EXCEPT ![c] = <<id, suite>>]
      /\ live' = live \cup {c}
      /\ calls' = [calls EXCEPT ![c] = Ask(call, "wrap", kid, token)]
      /\ UNCHANGED <<backend, version, kid, token, unlocked, upsets, store>>
  BY CustodyAssumption DEF provision, CustodyInv, CustodyTypeOK, Calls, Seeds
<1>2. call \in CallState
  BY <1>1 DEF CallState, SealedKey
<1>3. /\ call.kind = "provision" /\ call.id = id /\ call.seed = c /\ call.sealed.id = id
      /\ call.sealed.suite = suite /\ call.sealed.publicKey = Public(c)
  OBVIOUS
<1> HIDE DEF call
<1>4. PICK r : r = Ask(call, "wrap", kid, token)
  BY Zenon
<1>5. SameCall(r, call)
  BY <1>1, <1>2, <1>4, AskFacts
<1>6. r \in CallState /\ r.kind = "provision" /\ r.seed = c /\ r.id = id /\ r.sealed.id = id
      /\ r.sealed.suite = suite /\ r.sealed.publicKey = Public(c)
  BY <1>3, <1>5, Zenon DEF SameCall
<1>7. PICK d \in Calls : d = c
  BY <1>1, Zenon
<1>8. /\ calls' = [calls EXCEPT ![d] = r] /\ calls'[d] = r /\ born'[d] = <<id, suite>>
      /\ born' \in [Calls -> (Ids \X Suites) \cup {None}]
      /\ \A x \in Calls : x # d => born'[x] = born[x]
  BY <1>1, <1>4, <1>7, Zenon DEF CustodyInv, CustodyTypeOK
\* Nothing was generated by a call that had not begun.
<1>9. \A x \in Calls : born[x] # None => x <= started
  BY Zenon DEF CustodyInv, BornBegun
<1>10. StoreOK' /\ \A i \in Ids : KeyOK(i)'
  <2>1. born[d] = None
    BY <1>7, <1>9 DEF CustodyInv, CustodyTypeOK
  <2>2. \A x \in store : x.blob.seed # d
    <3>1. \A x \in store : <<x.id, x.suite>> # None
      BY CustodyAssumption DEF CustodyInv, CustodyTypeOK, SealedKey
    <3>2. QED
      BY <2>1, <3>1, Zenon DEF CustodyInv, StoreOK
  <2>3. \A i \in Ids : unlocked[i] # None => unlocked[i].seed # d
    BY <2>1, Zenon DEF CustodyInv, KeyOK
  <2>4. StoreOK'
    BY <1>1, <1>8, <2>2 DEF CustodyInv, StoreOK
  <2>5. QED
    BY <1>1, <1>8, <2>3, <2>4 DEF CustodyInv, KeyOK
<1>11. ProvisionOK(d)' /\ LoadOK(d)'
  BY <1>6, <1>7, <1>8, Zenon DEF ProvisionOK, LoadOK
<1>12. BornBegun'
  BY <1>1, <1>7, <1>8, <1>9 DEF BornBegun, CustodyInv, CustodyTypeOK, Calls
<1>13. live' = IF r.kind = "provision" THEN live \cup {d} ELSE live
  BY <1>1, <1>6, <1>7, Zenon
<1>14. QED
  BY <1>1, <1>6, <1>7, <1>8, <1>10, <1>11, <1>12, <1>13, BeginKeepsInv, Zenon

\* A call of load begins, with whatever was put into its sealed key.
LEMMA LoadKeepsInv ==
    ASSUME CustodyInv, NEW id \in Ids, NEW sealed \in Substituted(id), NEW trusted \in Recorded(id),
           load(sealed, trusted)
    PROVE  CustodyInv'
<1> DEFINE c == started + 1
           call == [kind |-> "load", id |-> sealed.id, seed |-> None, trusted |-> trusted,
                    sealed |-> sealed, verb |-> "unwrap", stage |-> "sent", kid |-> None]
<1>1. /\ c \in Calls /\ started' = c
      /\ kid \in Nat \cup {None} /\ token \in BOOLEAN /\ version \in Nat
      /\ calls' = [calls EXCEPT ![c] = Ask(call, "unwrap", kid, token)]
      /\ UNCHANGED <<backend, version, kid, token, unlocked, upsets, store, live, born>>
  BY CustodyAssumption DEF load, CustodyInv, CustodyTypeOK, Calls
<1>2. /\ sealed \in SealedKey /\ sealed.id = id
      /\ isPublicKeyWrap \/ \E s \in store : s.blob = sealed.blob
  <2>1. CASE \E s \in store, suite \in Suites :
                sealed = [id |-> id, suite |-> suite, publicKey |-> s.publicKey, blob |-> s.blob]
    <3>1. PICK s \in store, suite \in Suites :
             sealed = [id |-> id, suite |-> suite, publicKey |-> s.publicKey, blob |-> s.blob]
      BY <2>1, Zenon
    <3>2. s \in SealedKey
      BY Zenon DEF CustodyInv, CustodyTypeOK
    <3>3. sealed \in SealedKey /\ sealed.id = id /\ sealed.blob = s.blob
      BY <3>1, <3>2, Zenon DEF SealedKey
    <3>4. QED
      BY <3>3, Zenon
  <2>2. CASE /\ isPublicKeyWrap
             /\ sealed = [id |-> id, suite |-> "PS-5", publicKey |-> Public(0),
                          blob |-> [kek |-> version, bound |-> None, seed |-> 0]]
    <3>1. [kek |-> version, bound |-> None, seed |-> 0] \in SealedBlob
      BY <1>1, CustodyAssumption DEF SealedBlob, Seeds
    <3>2. Public(0) \in {Public(seed) : seed \in Seeds} /\ "PS-5" \in Suites
      BY CustodyAssumption DEF Seeds, Suites
    <3>3. QED
      BY <2>2, <3>1, <3>2, Zenon DEF SealedKey
  <2>3. QED
    BY <2>1, <2>2 DEF Substituted
<1>3. /\ trusted \in {Public(seed) : seed \in Seeds} \cup {None}
      /\ trusted # None => \E s \in store : s.id = id /\ s.publicKey = trusted
  BY Zenon DEF Recorded, CustodyInv, CustodyTypeOK, SealedKey
<1>4. call \in CallState
  BY <1>2, <1>3, Zenon DEF CallState
<1>5. call.kind = "load" /\ call.trusted = trusted /\ call.sealed = sealed
  OBVIOUS
<1> HIDE DEF call
<1>6. PICK r : r = Ask(call, "unwrap", kid, token)
  BY Zenon
<1>7. SameCall(r, call) /\ r.sealed = call.sealed /\ r.verb = "unwrap"
  BY <1>1, <1>4, <1>6, AskFacts
<1>8. /\ r \in CallState /\ r.kind = "load" /\ r.trusted = trusted
      /\ r.sealed = sealed /\ r.verb = "unwrap"
  BY <1>5, <1>7, Zenon DEF SameCall
<1>9. PICK d \in Calls : d = c
  BY <1>1, Zenon
<1>10. calls' = [calls EXCEPT ![d] = r] /\ calls'[d] = r
  BY <1>1, <1>6, <1>9, Zenon DEF CustodyInv, CustodyTypeOK
<1>11. /\ StoreOK' /\ \A i \in Ids : KeyOK(i)'
       /\ born' \in [Calls -> (Ids \X Suites) \cup {None}]
       /\ \A x \in Calls : born'[x] = born[x]
  BY <1>1 DEF CustodyInv, CustodyTypeOK, StoreOK, KeyOK
<1>12. ProvisionOK(d)' /\ LoadOK(d)'
  BY <1>1, <1>2, <1>3, <1>8, <1>10, Zenon DEF ProvisionOK, LoadOK, isPublicKeyWrap
<1>13. BornBegun'
  BY <1>1 DEF BornBegun, CustodyInv, CustodyTypeOK, Calls
<1>14. live' = IF r.kind = "provision" THEN live \cup {d} ELSE live
  BY <1>1, <1>8, Zenon
<1>15. QED
  BY <1>1, <1>8, <1>9, <1>10, <1>11, <1>12, <1>13, <1>14, BeginKeepsInv, Zenon

\* lock erases the secret it drops.
LEMMA LockKeepsInv ==
    ASSUME CustodyInv, NEW id \in Ids, Lock(id)
    PROVE  CustodyInv'
<1>1. /\ unlocked' \in [Ids -> UnlockedKey \cup {None}]
      /\ unlocked'[id] = None /\ \A other \in Ids : other # id => unlocked'[other] = unlocked[other]
      /\ UNCHANGED <<backend, version, kid, token, calls, started, upsets, store, born>>
  BY Zenon DEF Lock, CustodyInv, CustodyTypeOK
<1>2. CustodyTypeOK'
  BY <1>1, Zenon DEF CustodyInv, CustodyTypeOK
<1>3. NotBegun' /\ BornBegun' /\ OnePlace' /\ StoreOK' /\ \A i \in Ids : KeyOK(i)'
  BY <1>1 DEF CustodyInv, CustodyTypeOK, NotBegun, BornBegun, OnePlace, StoreOK, KeyOK
<1>4. SecretsAccounted'
  <2> SUFFICES ASSUME NEW x
               PROVE  x \in live' <=> (\E i \in Ids : HeldUnder(x, i)') \/ HeldByCall(x)'
    BY Zenon DEF SecretsAccounted
  <2>1. x \in live <=> (\E i \in Ids : HeldUnder(x, i)) \/ HeldByCall(x)
    BY Zenon DEF CustodyInv, SecretsAccounted
  <2>2. x \in live' <=> x \in live /\ ~HeldUnder(x, id)
    BY Zenon DEF Lock, lock, Held, HeldUnder
  <2>3. \A i \in Ids : HeldUnder(x, i)' <=> i # id /\ HeldUnder(x, i)
    BY <1>1, Zenon DEF HeldUnder
  <2>4. HeldByCall(x)' <=> HeldByCall(x)
    BY <1>1, Zenon DEF HeldByCall
  <2>5. HeldUnder(x, id) => ~HeldByCall(x) /\ \A i \in Ids : i # id => ~HeldUnder(x, i)
    BY Zenon DEF HeldUnder, HeldByCall, CustodyInv, OnePlace
  <2>6. QED
    BY <2>1, <2>2, <2>3, <2>4, <2>5, Zenon
<1>5. \A d \in Calls : ProvisionOK(d)' /\ LoadOK(d)'
  BY <1>1 DEF CustodyInv, ProvisionOK, LoadOK, isPublicKeyWrap
<1>6. QED
  BY <1>2, <1>3, <1>4, <1>5, Zenon DEF CustodyInv

\* A restart loses the secrets in memory, all of them.
LEMMA RestartKeepsInv ==
    ASSUME CustodyInv, Restart
    PROVE  CustodyInv'
<1>1. /\ kid' = None /\ unlocked' = [id \in Ids |-> None] /\ calls' = [c \in Calls |-> None]
      /\ live' = {}
      /\ UNCHANGED <<backend, version, started, store, born>>
  BY DEF Restart
<1>2. token' \in BOOLEAN
  BY Zenon DEF Restart
<1>3. CustodyTypeOK'
  BY <1>1, <1>2, Zenon DEF CustodyInv, CustodyTypeOK
<1>4. QED
  BY <1>1, <1>3, Zenon DEF CustodyInv, NotBegun, BornBegun, OnePlace,
    SecretsAccounted, HeldUnder, HeldByCall, StoreOK, KeyOK, ProvisionOK, LoadOK

\* Every step of the provider, its callers and its backend preserves the invariant.
LEMMA CustodyStepInv == CustodyInv /\ [CustodyNext]_custodyVars => CustodyInv'
<1> SUFFICES ASSUME CustodyInv, [CustodyNext]_custodyVars PROVE CustodyInv'
  OBVIOUS
<1>1. CASE Rotate \/ TokenExpires \/ UNCHANGED custodyVars
  <2>1. UNCHANGED <<backend, kid, unlocked, calls, started, store, live, born>>
    BY <1>1, Zenon DEF Rotate, TokenExpires, custodyVars
  <2>2. version' \in Nat
    BY <1>1 DEF Rotate, TokenExpires, custodyVars, CustodyInv, CustodyTypeOK
  <2>3. token' \in BOOLEAN
    <3>1. token \in BOOLEAN
      BY Zenon DEF CustodyInv, CustodyTypeOK
    <3>2. QED
      BY <1>1, <3>1, Zenon DEF Rotate, TokenExpires, custodyVars
  <2>4. CustodyTypeOK'
    BY <2>1, <2>2, <2>3, Zenon DEF CustodyInv, CustodyTypeOK
  <2>5. QED
    BY <2>1, <2>4 DEF CustodyInv, NotBegun, BornBegun, OnePlace,
      SecretsAccounted, HeldUnder, HeldByCall, StoreOK, KeyOK, ProvisionOK, LoadOK, isPublicKeyWrap
<1>2. CASE Restart
  BY <1>2, RestartKeepsInv
<1>3. ASSUME NEW id \in Ids,
             \/ Lock(id)
             \/ provision(id, "PS-5")
             \/ \E s \in Substituted(id), trusted \in Recorded(id) : load(s, trusted)
      PROVE  CustodyInv'
  <2>1. "PS-5" \in Suites
    BY DEF Suites
  <2>2. QED
    BY <1>3, <2>1, LockKeepsInv, ProvisionKeepsInv, LoadKeepsInv
<1>4. ASSUME NEW c \in Calls, Progress(c)
      PROVE  CustodyInv'
  BY <1>4, AnswersKeepInv, UnwrapKeepsInv, Zenon DEF Progress
<1>5. ASSUME NEW c \in Calls, Refused(c)
      PROVE  CustodyInv'
  BY <1>5, RejectKeepsInv DEF Refused
<1>6. QED
  BY <1>1, <1>2, <1>3, <1>4, <1>5, Zenon DEF CustodyNext, CustodyEnv

\* The invariant of key custody holds in every reachable state.
LEMMA CustodyInvariant == CustodySpec => []CustodyInv
BY CustodyInitInv, CustodyStepInv, PTL DEF CustodySpec

\* No secret is left behind, for any number of ids and calls, however calls, failures of
\* the backend, lock, rotations and restarts interleave (lock, the catch blocks of
\* provision and load).
THEOREM CustodyNoStraySecret == CustodySpec => []NoStraySecret
<1>1. CustodyInv => NoStraySecret
  <2> SUFFICES ASSUME CustodyInv PROVE live = UnlockedSecrets \cup ProvisionSecrets
    BY DEF NoStraySecret
  <2>1. ASSUME NEW x PROVE x \in UnlockedSecrets <=> \E id \in Ids : x \in Held(id)
    BY Zenon DEF UnlockedSecrets
  <2>2. ASSUME NEW x PROVE x \in ProvisionSecrets <=> HeldByCall(x)
    BY DEF HeldByCall, ProvisionSecrets
  <2>3. ASSUME NEW x PROVE x \in live <=> (\E id \in Ids : HeldUnder(x, id)) \/ HeldByCall(x)
    BY DEF CustodyInv, SecretsAccounted
  <2>4. ASSUME NEW x PROVE \A id \in Ids : HeldUnder(x, id) <=> x \in Held(id)
    BY DEF HeldUnder, Held
  <2>5. QED
    BY <2>1, <2>2, <2>3, <2>4
<1>2. QED
  BY <1>1, CustodyInvariant, PTL

\* A key stays what it was made as: whoever signs under an id signs with a key generated
\* for it, and every sealed key that provision returned holds its own seed (sign, load,
\* provision).
THEOREM CustodyKeysIntact == CustodySpec => []KeysIntact
<1>1. CustodyInv => KeysIntact
  <2> SUFFICES ASSUME CustodyInv PROVE KeysIntact
    OBVIOUS
  <2>1. NothingLost
    BY DEF CustodyInv, StoreOK, NothingLost
  <2>2. UnlocksOwnKey
    <3> SUFFICES ASSUME NEW id \in Ids, NEW suite \in Suites, sign(id, suite) # None
                 PROVE  \E c \in Calls : /\ sign(id, suite) = Public(c)
                                         /\ born[c] # None /\ born[c][1] = id
                                         /\ backend = "aws" => born[c][2] = suite
      BY Zenon DEF UnlocksOwnKey
    <3>1. /\ unlocked[id] # None /\ unlocked[id].suite = suite
          /\ sign(id, suite) = Public(unlocked[id].seed)
      BY Zenon DEF sign
    <3>2. KeyOK(id)
      BY DEF CustodyInv
    <3>3. QED
      BY <3>1, <3>2, Zenon DEF KeyOK
  <2>3. QED
    BY <2>1, <2>2, Zenon DEF KeysIntact
<1>2. QED
  BY <1>1, CustodyInvariant, PTL
-----------------------------------------------------------------------------
(* The pool of workers. *)

(***************************************************************************)
(* One-time keys.                                                          *)
(***************************************************************************)

OtsState == [height : Heights, next : Nat]

OtsTypeOK ==
    /\ keys \in [OtsKeys -> OtsState \cup {Absent}]
    /\ backup \in [OtsKeys -> OtsState \cup {Absent}]
    /\ floor \in [OtsKeys -> Nat]
    /\ uses \in Seq(OtsKeys \X Nat)

\* The state of a key that was not lost stands at the floor, inside its tree; one that was
\* put aside is not ahead of it.
AtFloor(k) ==
    /\ keys[k] = Absent => floor[k] = 0
    /\ keys[k] # Absent => keys[k].next = floor[k] /\ keys[k].next <= Total(keys[k])
    /\ backup[k] # Absent => backup[k].next <= floor[k] /\ backup[k].next <= Total(backup[k])

\* The leaves that signed lie below the floor, and are different ones.
UsedBelowFloor(k) ==
    /\ \A i \in Used(k) : uses[i][2] < floor[k]
    /\ \A i, j \in Used(k) : uses[i] = uses[j] => i = j

OtsInv ==
    /\ OtsTypeOK
    /\ \A k \in OtsKeys \ forgotten : AtFloor(k) /\ UsedBelowFloor(k)
    /\ \A k \in OtsKeys : Used(k) # {} => assertSingleTree(k)

\* The invariant of one-time keys holds before any key exists.
LEMMA OtsInitInv == OtsInit => OtsInv
  BY DEF OtsInit, OtsInv, OtsTypeOK, AtFloor, UsedBelowFloor, Used

\* The size of a tree is a natural number, and depends on its height alone.
LEMMA TotalType ==
    ASSUME NEW s \in OtsState
    PROVE  /\ Total(s) \in Nat
           /\ \A n : Total([height |-> s.height, next |-> n]) = Total(s)
<1>1. s.height \in Heights /\ \A n : [height |-> s.height, next |-> n].height = s.height
  BY DEF OtsState
<1>2. QED
  BY <1>1, OtsAssumption, Zenon DEF Total

\* What Append adds to a sequence.
LEMMA AppendFacts ==
    ASSUME NEW S, NEW q \in Seq(S), NEW e \in S
    PROVE  /\ Append(q, e) \in Seq(S)
           /\ Len(Append(q, e)) = Len(q) + 1
           /\ \A i \in 1..(Len(q) + 1) : Append(q, e)[i] = IF i = Len(q) + 1 THEN e ELSE q[i]
  OBVIOUS

\* A call of sign moves the state of its key and the floor together, whether or not its
\* answer arrives.
LEMMA SignKeepsInv ==
    ASSUME OtsInv, NEW k \in OtsKeys, NEW h \in Heights,
           NEW outcome \in {"signed", "not-signed", "answer-lost"}, Sign(k, h, outcome)
    PROVE  OtsInv'
<1>1. PICK s \in OtsState : s = State(k, h)
  <2>1. State(k, h) \in OtsState
    BY DEF OtsInv, OtsTypeOK, OtsState, State
  <2>2. QED
    BY <2>1, Zenon
<1>2. PICK t \in OtsState : t = [height |-> s.height, next |-> s.next + 1]
  <2>1. [height |-> s.height, next |-> s.next + 1] \in OtsState
    BY DEF OtsState
  <2>2. QED
    BY <2>1, Zenon
<1>3. /\ s.next \in Nat /\ t.next = s.next + 1 /\ t # Absent
      /\ Total(t) = Total(s) /\ Total(s) \in Nat /\ s.next < Total(s)
  <2>1. s.next \in Nat /\ t.next = s.next + 1 /\ s.next < Total(s)
    BY <1>1, <1>2 DEF OtsState, Sign
  <2>2. Total(t) = Total(s) /\ Total(s) \in Nat
    BY <1>2, TotalType, Zenon
  <2>3. QED
    BY <2>1, <2>2, OtsAssumption, Zenon DEF OtsState
<1>4. k \notin forgotten => s.next = floor[k]
  BY <1>1, Zenon DEF OtsInv, State, AtFloor
<1>5. /\ keys' = [keys EXCEPT ![k] = t]
      /\ floor' = [floor EXCEPT ![k] = s.next + 1]
      /\ backup' = backup /\ forgotten' = forgotten
      /\ uses' = uses \/ uses' = Append(uses, <<k, s.next>>)
  BY <1>1, <1>2, Zenon DEF Sign
<1>6. OtsTypeOK'
  <2>1. <<k, s.next>> \in OtsKeys \X Nat
    BY <1>3
  <2>2. uses' \in Seq(OtsKeys \X Nat)
    <3>1. uses \in Seq(OtsKeys \X Nat)
      BY DEF OtsInv, OtsTypeOK
    <3>2. Append(uses, <<k, s.next>>) \in Seq(OtsKeys \X Nat)
      BY <2>1, <3>1, AppendFacts, Zenon
    <3>3. QED
      BY <1>5, <3>1, <3>2, Zenon
  <2>3. s.next + 1 \in Nat
    BY <1>3
  <2>4. QED
    BY <1>5, <2>2, <2>3 DEF OtsInv, OtsTypeOK
<1>7. ASSUME NEW q \in OtsKeys \ forgotten' PROVE AtFloor(q)' /\ UsedBelowFloor(q)'
  <2>1. AtFloor(q) /\ UsedBelowFloor(q) /\ q \in OtsKeys /\ q \notin forgotten
    BY <1>5 DEF OtsInv
  <2>2. AtFloor(q)'
    <3>1. CASE q # k
      <4>1. keys'[q] = keys[q] /\ floor'[q] = floor[q] /\ backup'[q] = backup[q]
        BY <3>1, <1>5 DEF OtsInv, OtsTypeOK
      <4>2. QED
        BY <4>1, <2>1, Zenon DEF AtFloor
    <3>2. CASE q = k
      <4>1. keys'[q] = t /\ floor'[q] = s.next + 1 /\ backup'[q] = backup[q]
        BY <3>2, <1>5 DEF OtsInv, OtsTypeOK
      <4>3. backup[q] # Absent => backup[q].next <= s.next + 1
        BY <1>4, <1>3, <2>1, <3>2 DEF AtFloor, OtsInv, OtsTypeOK, OtsState
      <4>4. s.next + 1 <= Total(t)
        BY <1>3
      <4>5. QED
        BY <4>1, <4>3, <4>4, <1>3, <2>1, Zenon DEF AtFloor
    <3>3. QED
      BY <3>1, <3>2
  <2>3. UsedBelowFloor(q)'
    <3>1. CASE uses' = uses
      <4>1. floor[q] \in Nat /\ floor'[q] \in Nat /\ floor[q] <= floor'[q]
        BY <2>1, <1>3, <1>4, <1>5 DEF OtsInv, OtsTypeOK
      <4>2. ASSUME NEW i \in Used(q) PROVE uses[i][2] \in Nat
        BY <4>2 DEF Used, OtsInv, OtsTypeOK
      <4>3. ASSUME NEW i \in Used(q) PROVE uses[i][2] < floor'[q]
        <5>1. uses[i][2] < floor[q] /\ uses[i][2] \in Nat
          BY <2>1, <4>2, <4>3, Zenon DEF UsedBelowFloor
        <5>2. QED
          BY <4>1, <5>1
      <4>4. Used(q)' = Used(q)
        BY <3>1, Zenon DEF Used
      <4>5. QED
        BY <2>1, <3>1, <4>3, <4>4, Zenon DEF UsedBelowFloor
    <3>2. CASE uses' = Append(uses, <<k, s.next>>)
      <4>1. \A i \in 1..Len(uses) : uses'[i] = uses[i]
        BY <3>2 DEF OtsInv, OtsTypeOK
      <4>2. Len(uses') = Len(uses) + 1 /\ uses'[Len(uses) + 1] = <<k, s.next>> /\ Len(uses) \in Nat
        BY <3>2, <1>3 DEF OtsInv, OtsTypeOK
      <4>3. CASE q # k
        <5>1. floor'[q] = floor[q]
          BY <4>3, <1>5, <2>1 DEF OtsInv, OtsTypeOK
        <5>2. \A i \in Used(q)' : i \in Used(q) /\ uses'[i] = uses[i]
          BY <4>1, <4>2, <4>3 DEF Used
        <5>3. QED
          BY <5>1, <5>2, <2>1 DEF UsedBelowFloor
      <4>4. CASE q = k
        <5>1. floor'[q] = s.next + 1 /\ floor[q] = s.next
          BY <1>4, <1>5, <2>1, <4>4, Zenon DEF OtsInv, OtsTypeOK
        <5>2. \A i \in Used(q)' :
                 \/ i \in Used(q) /\ uses'[i] = uses[i] /\ uses[i][2] < s.next
                 \/ i = Len(uses) + 1
          BY <4>1, <4>2, <5>1, <2>1 DEF UsedBelowFloor, Used
        <5>3. \A i \in Used(q) : uses[i][2] \in Nat /\ i \in 1..Len(uses)
          BY DEF Used, OtsInv, OtsTypeOK
        <5>4. \A i \in Used(q)' : uses'[i][2] < floor'[q]
          BY <5>1, <5>2, <5>3, <4>2, <1>3
        <5>5. ASSUME NEW i \in Used(q)', NEW j \in Used(q)', uses'[i] = uses'[j] PROVE i = j
          BY <5>5, <5>2, <5>3, <4>2, <1>3, <2>1 DEF UsedBelowFloor
        <5>6. QED
          BY <5>4, <5>5, Zenon DEF UsedBelowFloor
      <4>5. QED
        BY <4>3, <4>4
    <3>3. QED
      BY <3>1, <3>2, <1>5, Zenon
  <2>4. QED
    BY <2>2, <2>3
<1>8. ASSUME NEW q \in OtsKeys, Used(q)' # {} PROVE assertSingleTree(q)
  <2>1. Used(q) # {} \/ q = k
    <3>1. PICK i \in 1..Len(uses') : uses'[i][1] = q
      BY <1>8 DEF Used
    <3>2. CASE uses' = uses
      BY <3>1, <3>2, Zenon DEF Used
    <3>3. CASE uses' = Append(uses, <<k, s.next>>)
      <4>1. /\ Len(uses) \in Nat /\ Len(uses') = Len(uses) + 1
            /\ uses'[i] = IF i = Len(uses) + 1 THEN <<k, s.next>> ELSE uses[i]
        <5>1. <<k, s.next>> \in OtsKeys \X Nat /\ uses \in Seq(OtsKeys \X Nat)
          BY <1>3 DEF OtsInv, OtsTypeOK
        <5>2. QED
          BY <3>1, <3>3, <5>1, AppendFacts
      <4>2. QED
        BY <3>1, <4>1 DEF Used
    <3>4. QED
      BY <3>2, <3>3, <1>5, Zenon
  <2>2. QED
    BY <2>1 DEF OtsInv, Sign
<1>9. QED
  BY <1>6, <1>7, <1>8 DEF OtsInv, assertSingleTree

\* A copy that is put back passes the floor check only at the floor; a key without a copy
\* is forgotten.
LEMMA RestoreKeepsInv ==
    ASSUME OtsInv, Restore
    PROVE  OtsInv'
<1>1. /\ keys' = backup /\ backup' = backup /\ floor' = floor /\ uses' = uses
      /\ forgotten' = forgotten \cup {k \in OtsKeys : backup[k] = Absent /\ floor[k] > 0}
      /\ \A k \in OtsKeys : backup[k] # Absent => backup[k].next >= floor[k]
  BY DEF Restore, assertMonotonicFloor
<1>2. OtsTypeOK'
  BY <1>1 DEF OtsInv, OtsTypeOK
<1>3. ASSUME NEW k \in OtsKeys \ forgotten' PROVE AtFloor(k)' /\ UsedBelowFloor(k)'
  <2>1. k \in OtsKeys \ forgotten /\ (backup[k] = Absent => floor[k] = 0)
    BY <1>1 DEF OtsInv, OtsTypeOK
  <2>2. AtFloor(k) /\ UsedBelowFloor(k)
    BY <2>1 DEF OtsInv
  <2>3. backup[k] # Absent => backup[k].next = floor[k]
    BY <2>1, <2>2, <1>1 DEF AtFloor, OtsInv, OtsTypeOK, OtsState
  <2>4. QED
    BY <1>1, <2>1, <2>2, <2>3, Zenon DEF AtFloor, UsedBelowFloor, Used
<1>4. QED
  BY <1>1, <1>2, <1>3 DEF OtsInv, Used, assertSingleTree

\* Every step preserves the invariant of one-time keys.
LEMMA OtsStepInv == OtsInv /\ [OtsNext]_otsVars => OtsInv'
<1> SUFFICES ASSUME OtsInv, [OtsNext]_otsVars PROVE OtsInv'
  BY Zenon
<1>1. CASE Backup
  <2>1. keys' = keys /\ backup' = keys /\ floor' = floor /\ uses' = uses /\ forgotten' = forgotten
    BY <1>1 DEF Backup
  <2>2. OtsTypeOK'
    BY <2>1 DEF OtsInv, OtsTypeOK
  <2>3. ASSUME NEW k \in OtsKeys \ forgotten' PROVE AtFloor(k)' /\ UsedBelowFloor(k)'
    <3>1. AtFloor(k) /\ UsedBelowFloor(k) /\ (keys[k] # Absent => keys[k].next <= floor[k])
      BY <2>1 DEF OtsInv, AtFloor, OtsTypeOK, OtsState
    <3>2. QED
      BY <3>1, <2>1, Zenon DEF AtFloor, UsedBelowFloor, Used
  <2>4. QED
    BY <2>1, <2>2, <2>3 DEF OtsInv, Used, assertSingleTree
<1>2. CASE Restore
  BY <1>2, RestoreKeepsInv
<1>3. ASSUME NEW k \in OtsKeys, NEW h \in Heights,
             NEW outcome \in {"signed", "not-signed", "answer-lost"}, Sign(k, h, outcome)
      PROVE  OtsInv'
  BY <1>3, SignKeepsInv
<1>4. CASE UNCHANGED otsVars
  BY <1>4 DEF otsVars, OtsInv, OtsTypeOK, AtFloor, UsedBelowFloor, Used, assertSingleTree
<1>5. QED
  BY <1>1, <1>2, <1>3, <1>4 DEF OtsNext

\* As many leaves have signed at most as lie below the floor.
LEMMA UsedCardinality ==
    ASSUME OtsInv, NEW k \in OtsKeys \ forgotten
    PROVE  Cardinality(Used(k)) \in Nat /\ Cardinality(Used(k)) <= floor[k]
<1> DEFINE leaf == [i \in Used(k) |-> uses[i][2]]
           below == 0..(floor[k] - 1)
<1>1. floor[k] \in Nat /\ UsedBelowFloor(k)
  BY DEF OtsInv, OtsTypeOK
<1>2. \A i \in Used(k) : uses[i] \in OtsKeys \X Nat /\ uses[i][1] = k
  BY DEF Used, OtsInv, OtsTypeOK
<1>3. leaf \in [Used(k) -> below]
  BY <1>1, <1>2 DEF UsedBelowFloor
<1>4. \A i, j \in Used(k) : leaf[i] = leaf[j] => i = j
  <2>1. \A i, j \in Used(k) : uses[i][2] = uses[j][2] => uses[i] = uses[j]
    BY <1>2
  <2>2. QED
    BY <2>1, <1>1, Zenon DEF UsedBelowFloor
<1>5. leaf \in Injection(Used(k), below)
  BY <1>3, <1>4, Zenon DEF Injection, IsInjective
<1>6. IsFiniteSet(below) /\ Cardinality(below) = floor[k]
  <2>1. 0 \in Int /\ floor[k] - 1 \in Int
    BY <1>1
  <2>2. IsFiniteSet(below) /\ Cardinality(below) = IF 0 > floor[k] - 1 THEN 0 ELSE floor[k] - 1 - 0 + 1
    BY <2>1, FS_Interval, Zenon
  <2>3. QED
    BY <2>2, <1>1
<1> HIDE DEF leaf, below
<1>7. QED
  BY <1>5, <1>6, FS_Injection, FS_CardinalityType

\* A leaf signs once, and the capacity reported is never overstated.
THEOREM OtsLeavesSignOnce == OtsSpec => []LeavesSignOnce
<1>1. OtsInv => LeavesSignOnce
  <2> SUFFICES ASSUME OtsInv PROVE LeavesSignOnce
    OBVIOUS
  <2>1. NoLeafReused
    BY Zenon DEF OtsInv, UsedBelowFloor, NoLeafReused
  <2>2. ASSUME NEW k \in OtsKeys, k \notin forgotten, keys[k] # Absent
        PROVE  remaining(k) >= 0 /\ Cardinality(Used(k)) + remaining(k) <= Total(keys[k])
    <3>1. keys[k] \in OtsState /\ keys[k].next \in Nat /\ keys[k].next = floor[k]
          /\ keys[k].next <= Total(keys[k])
      BY <2>2, Zenon DEF OtsInv, OtsTypeOK, AtFloor, OtsState
    <3>2. Total(keys[k]) \in Nat
      BY <3>1, TotalType, Zenon
    <3>3. Cardinality(Used(k)) \in Nat /\ Cardinality(Used(k)) <= keys[k].next
      BY <2>2, <3>1, UsedCardinality
    <3>4. remaining(k) = Total(keys[k]) - keys[k].next
      BY <2>2, Zenon DEF remaining
    <3>5. QED
      BY <3>1, <3>2, <3>3, <3>4
  <2>3. CapacityHonest
    BY <2>2 DEF OtsInv, CapacityHonest, assertSingleTree
  <2>4. QED
    BY <2>1, <2>3 DEF LeavesSignOnce
<1>2. QED
  BY <1>1, OtsInitInv, OtsStepInv, PTL DEF OtsSpec
-----------------------------------------------------------------------------
(* Key custody. *)

\* w is between the compareExchange that takes the lock and the store that frees it.
Inside(w) == stage[w] \in {"read", "write", "unlock"}

\* The rounds that are in the count: those that are over, and one that only has to free
\* the lock.
Rounds ==
    {r \in Workers \X (1..per) :
        r[2] <= decided[r[1]] \/ (stage[r[1]] = "unlock" /\ r[2] = decided[r[1]] + 1)}

PoolTypeOK ==
    /\ stateful \in BOOLEAN
    /\ held \in {0, 1}
    /\ stage \in [Workers -> {"loop", "spin", "read", "write", "unlock", "posted"}]
    /\ decided \in [Workers -> 0..per]
    /\ read \in [Workers -> Int]
    /\ tally \in Int

PoolInv ==
    /\ PoolTypeOK
    /\ held = 0 <=> \A w \in Workers : ~Inside(w)
    /\ \A v, w \in Workers : Inside(v) /\ Inside(w) => v = w
    /\ \A w \in Workers :
          /\ stage[w] \in {"spin", "read", "write", "unlock"} => stateful /\ decided[w] < per
          /\ stage[w] = "posted" => decided[w] = per
          /\ stage[w] = "write" => read[w] = tally
    /\ tally = IF stateful THEN int32(Cardinality(Rounds)) ELSE 0

\* The share of a worker is a number.
LEMMA PerType == per \in Nat
<1>1. Cardinality(Workers) \in Nat /\ Cardinality(Workers) # 0
  BY PoolAssumption, FS_CardinalityType, FS_EmptySet, Zenon
<1>2. \A t, n \in Nat : n # 0 => t \div n \in Nat
  OBVIOUS
<1>3. QED
  BY <1>1, <1>2, PoolAssumption, Zenon DEF per

\* A remainder is the only number below the divisor that differs from the dividend by a
\* multiple of it.
LEMMA RemainderUnique ==
    ASSUME NEW b \in Nat, b > 0, NEW q \in Nat, NEW r \in 0..(b - 1)
    PROVE  (b * q + r) % b = r
<1> DEFINE a == b * q + r
           p == a \div b
           s == a % b
<1>1. ASSUME NEW d \in Int, NEW e \in Int, -b < e, e < b, b * d = e PROVE d = 0
  <2>1. CASE d >= 1
    <3>1. b * d >= b
      BY <2>1
    <3>2. QED
      BY <3>1, <1>1
  <2>2. CASE d <= -1
    <3>1. b * d <= -b
      BY <2>2
    <3>2. QED
      BY <3>1, <1>1
  <2>3. QED
    BY <2>1, <2>2
<1>2. a \in Nat
  OBVIOUS
<1>3. a = b * p + s /\ s \in 0..(b - 1) /\ p \in Int
  BY <1>2
<1> HIDE DEF p, s
<1>4. b * (q - p) = s - r
  BY <1>3
<1>5. q - p = 0
  BY <1>1, <1>3, <1>4
<1>6. s = r
  BY <1>3, <1>4, <1>5
<1>7. QED
  BY <1>6 DEF s

\* Adding one before or after taking the remainder makes no difference.
LEMMA RemainderNext ==
    ASSUME NEW a \in Nat, NEW b \in Nat, b > 0
    PROVE  a % b \in Int /\ ((a % b) + 1) % b = (a + 1) % b
<1>1. PICK q \in Nat, r \in 0..(b - 1) : a = b * q + r /\ a % b = r
  <2>1. a = b * (a \div b) + (a % b) /\ a \div b \in Nat /\ a % b \in 0..(b - 1)
    OBVIOUS
  <2>2. QED
    BY <2>1
<1>2. CASE r + 1 < b
  <2>1. r + 1 \in 0..(b - 1) /\ a + 1 = b * q + (r + 1) /\ r + 1 = b * 0 + (r + 1)
    BY <1>1, <1>2
  <2>2. (b * q + (r + 1)) % b = r + 1 /\ (b * 0 + (r + 1)) % b = r + 1
    BY <2>1, RemainderUnique, Zenon
  <2>3. QED
    BY <1>1, <2>1, <2>2
<1>3. CASE r + 1 = b
  <2>1. a + 1 = b * (q + 1) + 0 /\ r + 1 = b * 1 + 0 /\ 0 \in 0..(b - 1) /\ q + 1 \in Nat
    BY <1>1, <1>3
  <2>2. (b * (q + 1) + 0) % b = 0 /\ (b * 1 + 0) % b = 0
    BY <2>1, RemainderUnique
  <2>3. QED
    BY <1>1, <2>1, <2>2
<1>4. QED
  BY <1>1, <1>2, <1>3

\* Counting modulo 2^32 one by one is counting modulo 2^32.
LEMMA Int32Next ==
    ASSUME NEW n \in Nat
    PROVE  int32(n) \in Int /\ int32(int32(n) + 1) = int32(n + 1)
<1> DEFINE m == 2 * SIGN_BIT
           y == n + SIGN_BIT
<1>1. m \in Nat /\ m > 0 /\ y \in Nat /\ SIGN_BIT \in Int
  BY PoolAssumption
<1>2. y % m \in Int /\ ((y % m) + 1) % m = (y + 1) % m
  BY <1>1, RemainderNext, Zenon
<1>3. int32(n) = (y % m) - SIGN_BIT
  BY DEF int32
<1>4. int32(n + 1) = ((y + 1) % m) - SIGN_BIT
  BY <1>1 DEF int32
<1>5. int32((y % m) - SIGN_BIT + 1) = (((y % m) + 1) % m) - SIGN_BIT
  BY <1>1, <1>2 DEF int32
<1>6. QED
  BY <1>1, <1>2, <1>3, <1>4, <1>5

\* The rounds in the count can be counted.
LEMMA RoundsFinite == IsFiniteSet(Rounds) /\ Cardinality(Rounds) \in Nat
<1>1. IsFiniteSet(1..per)
  BY PerType, FS_Interval
<1>2. IsFiniteSet(Workers \X (1..per))
  BY <1>1, PoolAssumption, FS_Product, Zenon
<1>3. Rounds \subseteq Workers \X (1..per)
  BY DEF Rounds
<1>4. QED
  BY <1>2, <1>3, FS_Subset, FS_CardinalityType

\* The invariant of the pool holds before the workers start.
LEMMA PoolInitInv == PoolInit => PoolInv
<1> SUFFICES ASSUME PoolInit PROVE PoolInv
  OBVIOUS
<1>1. PoolTypeOK
  BY PerType DEF PoolInit, PoolTypeOK
<1>2. Rounds = {}
  BY PerType DEF PoolInit, Rounds
<1>3. int32(0) = 0
  BY PoolAssumption DEF int32
<1>4. tally = IF stateful THEN int32(Cardinality(Rounds)) ELSE 0
  BY <1>2, <1>3, FS_EmptySet DEF PoolInit
<1>5. QED
  BY <1>1, <1>4, PerType DEF PoolInit, PoolInv, Inside

\* Every step of a worker preserves the invariant of the pool.
LEMMA PoolStepInv == PoolInv /\ [PoolNext]_poolVars => PoolInv'
<1> SUFFICES ASSUME PoolInv, [PoolNext]_poolVars PROVE PoolInv'
  BY Zenon
<1> USE PerType DEF PoolInv, PoolTypeOK
<1>1. ASSUME NEW w \in Workers, admitOnce(w) PROVE PoolInv'
  <2>1. Rounds' = Rounds \/ ~stateful
    BY <1>1, Zenon DEF admitOnce, At, Goto, Rounds
  <2>2. QED
    BY <1>1, <2>1 DEF admitOnce, At, Goto, Inside
<1>2. ASSUME NEW w \in Workers, Acquire(w) PROVE PoolInv'
  <2>1. Rounds' = Rounds
    BY <1>2, Zenon DEF Acquire, At, Goto, Rounds
  <2>2. QED
    BY <1>2, <2>1 DEF Acquire, At, Goto, Inside
<1>3. ASSUME NEW w \in Workers, Read(w) PROVE PoolInv'
  <2>1. Rounds' = Rounds
    BY <1>3, Zenon DEF Read, At, Goto, Rounds
  <2>2. QED
    BY <1>3, <2>1 DEF Read, At, Goto, Inside
<1>4. ASSUME NEW w \in Workers, Fold(w) PROVE PoolInv'
  <2> DEFINE r == <<w, decided[w] + 1>>
  <2>1. Rounds' = Rounds \cup {r} /\ r \notin Rounds
    BY <1>4 DEF Fold, At, Goto, Rounds
  <2>2. Cardinality(Rounds') = Cardinality(Rounds) + 1
    BY <2>1, RoundsFinite, FS_AddElement, Zenon
  <2>3. stateful /\ tally' = int32(Cardinality(Rounds) + 1)
    BY <1>4, RoundsFinite, Int32Next, Zenon DEF Fold, At
  <2>4. tally' \in Int
    BY <2>3, RoundsFinite, Int32Next
  <2>5. QED
    BY <1>4, <2>2, <2>3, <2>4, Zenon DEF Fold, At, Goto, Inside
<1>5. ASSUME NEW w \in Workers, Release(w) PROVE PoolInv'
  <2>1. Rounds' = Rounds
    BY <1>5 DEF Release, At, Goto, Rounds
  <2>2. QED
    BY <1>5, <2>1 DEF Release, At, Goto, Inside
<1>6. ASSUME NEW w \in Workers, postMessage(w) PROVE PoolInv'
  <2>1. Rounds' = Rounds
    BY <1>6, Zenon DEF postMessage, At, Goto, Rounds
  <2>2. QED
    BY <1>6, <2>1 DEF postMessage, At, Goto, Inside
<1>7. CASE UNCHANGED poolVars
  <2>1. Rounds' = Rounds
    BY <1>7 DEF poolVars, Rounds
  <2>2. QED
    BY <1>7, <2>1, Zenon DEF poolVars, Inside
<1>8. QED
  BY <1>1, <1>2, <1>3, <1>4, <1>5, <1>6, <1>7, Zenon DEF PoolNext, WorkerStep

\* When the pool returns, no decision was lost or counted twice between the threads, for
\* any number of workers and admissions: the shared count is the number of admissions
\* run, modulo 2^32, and the lock is free (the spin lock around lock[1] = (lock[1] + 1) | 0).
THEOREM PoolExact == PoolSpec => [](resolved => Exact)
<1>1. PoolInv => (resolved => Exact)
  <2> SUFFICES ASSUME PoolInv, resolved PROVE Exact
    BY Zenon
  <2>1. \A w \in Workers : stage[w] = "posted" /\ decided[w] = per
    BY Zenon DEF PoolInv, resolved, At
  <2>2. held = 0
    BY <2>1, Zenon DEF PoolInv, Inside
  <2>3. Rounds = Workers \X (1..per)
    BY <2>1, PerType DEF Rounds
  <2>4. Cardinality(Rounds) = per * Cardinality(Workers)
    <3>1. IsFiniteSet(1..per) /\ Cardinality(1..per) = per
      BY PerType, FS_Interval
    <3>2. Cardinality(Workers \X (1..per)) = Cardinality(Workers) * Cardinality(1..per)
      BY <3>1, PoolAssumption, FS_Product, Zenon
    <3>3. Cardinality(Workers) \in Nat
      BY PoolAssumption, FS_CardinalityType
    <3>4. QED
      BY <2>3, <3>1, <3>2, <3>3, PerType
  <2>5. QED
    BY <2>2, <2>4 DEF PoolInv, Exact
<1>2. QED
  BY <1>1, PoolInitInv, PoolStepInv, PTL DEF PoolSpec
=============================================================================
