------------------------------ MODULE Profile -------------------------------
(***************************************************************************)
(* did:key identifiers and the projection of a permit into credential      *)
(* formats (capabilities/src/profile.ts,                                   *)
(* planes/src/vc-projection.ts).                                           *)
(*                                                                         *)
(* The radix conversions are modelled digit by digit over smaller radices: *)
(* BYTE for 256 and BASE for 58, with half a byte (BYTE \div 2) for the    *)
(* groups of a varint, and a string is the sequence of its digits.  A Date *)
(* holds MAX_TIME milliseconds either way; a second has SECOND of them.    *)
(***************************************************************************)
EXTENDS Integers, Sequences, SequencesExt, FiniteSets

CONSTANTS
    BYTE, BASE, PublicKeys, Multicodecs,
    MAX_TIME, SECOND, Times, Resources,
    Undefined,      \* an option left out
    NotFinite,      \* NaN and the infinities
    Thrown, RangeError

VARIABLE shown

-----------------------------------------------------------------------------
(* base58btc *)

LeadingZeros(s) == CHOOSE z \in 0..Len(s) :
    (\A i \in 1..z : s[i] = 0) /\ (z < Len(s) => s[z + 1] # 0)

\* The digits of a carry, least significant first.
CarryDigits(carry, radix) ==
    LET d[c \in 0..carry] == IF c = 0 THEN <<>> ELSE <<c % radix>> \o d[c \div radix] IN d[carry]

\* Mutant: one digit of what is carried out.
PushDigit_OneCarry(digits, x, factor, radix) ==
    LET carry[j \in 0..Len(digits)] ==
            IF j = 0 THEN x ELSE (carry[j - 1] + digits[j] * factor) \div radix
        out == carry[Len(digits)]
    IN  [j \in 1..Len(digits) |-> (carry[j - 1] + digits[j] * factor) % radix]
            \o IF out = 0 THEN <<>> ELSE <<out % radix>>

\* Multiply the little-endian digits by factor and add x: one pass of the inner loop,
\* then the digits of what is carried out.
PushDigit(digits, x, factor, radix) ==
    LET carry[j \in 0..Len(digits)] ==
            IF j = 0 THEN x ELSE (carry[j - 1] + digits[j] * factor) \div radix
    IN  [j \in 1..Len(digits) |-> (carry[j - 1] + digits[j] * factor) % radix]
            \o CarryDigits(carry[Len(digits)], radix)

Zeros(n) == [i \in 1..n |-> 0]

base58btcEncode(bytes) ==
    LET zeros == LeadingZeros(bytes)
        digits == FoldLeft(LAMBDA d, b : PushDigit(d, b, BYTE, BASE), <<0>>, SubSeq(bytes, zeros + 1, Len(bytes)))
    IN  Zeros(zeros) \o Reverse(digits)

base58btcDecode(s) ==
    LET zeros == LeadingZeros(s)
        bytes == FoldLeft(LAMBDA d, v : PushDigit(d, v, BASE, BYTE), <<0>>, SubSeq(s, zeros + 1, Len(s)))
    IN  Zeros(zeros) \o Reverse(bytes)

unsignedVarint(n) ==
    LET half == BYTE \div 2
        v[m \in 0..n] == IF m < half THEN <<m>> ELSE <<(m % half) + half>> \o v[m \div half]
    IN  v[n]

didKeyFromPublicKey(multicodec, publicKey) == base58btcEncode(unsignedVarint(multicodec) \o publicKey)
-----------------------------------------------------------------------------
(* Projection of a permit *)

\* new Date(ms).toISOString()
ToIso(ms) == IF ms \in -MAX_TIME..MAX_TIME THEN <<"iso", ms>> ELSE RangeError

MAX_SAFE_UNIX_SECONDS == MAX_TIME \div SECOND

isProjectableUnixSeconds(t) ==
    /\ t # NotFinite
    /\ t \in -MAX_SAFE_UNIX_SECONDS..MAX_SAFE_UNIX_SECONDS

\* The three descriptors, with the fields they are built from left out where they
\* are copied as they are; Thrown is a PermitProjectionError.
projectPermit(claims, intent, issuerDid, agentDid, issuedAt) ==
    IF ~isProjectableUnixSeconds(claims.exp) \/ (issuedAt # Undefined /\ ~isProjectableUnixSeconds(issuedAt))
    THEN Thrown
    ELSE LET expires == ToIso(claims.exp * SECOND)
             from == IF issuedAt = Undefined THEN "unknown" ELSE ToIso(issuedAt * SECOND)
             iat == IF issuedAt = Undefined THEN 0 ELSE issuedAt
             subject == [action |-> intent, actionHash |-> claims.actionHash, audience |-> claims.audience]
         IN  IF expires = RangeError \/ from = RangeError THEN RangeError
             ELSE [vc |-> [issuer |-> issuerDid, id |-> agentDid, validFrom |-> from,
                           expirationDate |-> expires, subject |-> subject],
                   eidas |-> [iss |-> issuerDid, sub |-> agentDid, exp |-> claims.exp, iat |-> iat,
                              subject |-> subject],
                   agentAuth |-> [sub |-> agentDid, exp |-> claims.exp, iat |-> iat, subject |-> subject]]

\* Thrown becomes a denial, any other exception goes on to the caller.
tryProjectPermit(claims, intent, issuerDid, agentDid, issuedAt) ==
    LET p == projectPermit(claims, intent, issuerDid, agentDid, issuedAt)
    IN  CASE p = Thrown -> [ok |-> FALSE]
          [] p = RangeError -> RangeError
          [] OTHER -> [ok |-> TRUE, projection |-> p]
-----------------------------------------------------------------------------
ProfileInit == shown = Undefined

ShowKey ==
    \E code \in Multicodecs, key \in PublicKeys :
        shown' = [kind |-> "did", code |-> code, key |-> key, did |-> didKeyFromPublicKey(code, key)]

ShowPermit ==
    \E exp \in Times, issuedAt \in Times \cup {Undefined}, r \in Resources :
        LET claims == [exp |-> exp, actionHash |-> <<r>>, audience |-> r]
            did == didKeyFromPublicKey(1, <<1>>)
        IN  shown' = [kind |-> "permit", exp |-> exp, issuedAt |-> issuedAt,
                      result |-> tryProjectPermit(claims, r, did, did, issuedAt)]

ProfileNext ==
    /\ shown = Undefined
    /\ ShowKey \/ ShowPermit
-----------------------------------------------------------------------------
Shows(kind) == shown # Undefined /\ shown.kind = kind

\* A did:key gives back the code and the key it was made from, so no two keys share
\* one (didKeyFromPublicKey, base58btcEncode, base58btcDecode).  Bytes that are all
\* zero come back two longer, from the digit both conversions start with.
DidRecoversKey ==
    Shows("did") =>
        LET bytes == unsignedVarint(shown.code) \o shown.key
        IN  base58btcDecode(shown.did)
                = IF Range(bytes) = {0} THEN bytes \o Zeros(2) ELSE bytes

\* tryProjectPermit answers for every time, with no RangeError from a Date, denies
\* exactly the times a Date cannot hold, and dates what it accepts alike in all three
\* descriptors.
ProjectionAnswers ==
    Shows("permit") =>
        LET holds(t) == t # NotFinite /\ ToIso(t * SECOND) # RangeError
        IN  /\ shown.result # RangeError
            /\ shown.result.ok <=> (holds(shown.exp) /\ (shown.issuedAt # Undefined => holds(shown.issuedAt)))
            /\ shown.result.ok =>
                  LET p == shown.result.projection
                  IN  /\ p.vc.expirationDate = ToIso(p.eidas.exp * SECOND) /\ p.eidas.exp = p.agentAuth.exp
                      /\ p.eidas.iat = p.agentAuth.iat
                      /\ p.vc.validFrom # "unknown" => p.vc.validFrom = ToIso(p.eidas.iat * SECOND)

\* What is shown to other systems can be read back: the key from its identifier, the times
\* of a permit from its descriptors, and what cannot be shown is denied
\* (didKeyFromPublicKey, tryProjectPermit).
ProfileFaithful == DidRecoversKey /\ ProjectionAnswers
=============================================================================
