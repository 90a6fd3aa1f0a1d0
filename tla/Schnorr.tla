------------------------------- MODULE Schnorr -------------------------------
(***************************************************************************)
(* How points and public keys are read from bytes (codec.rs, capsule.rs)   *)
(* and how a signature is verified (verify_signature of signature.rs):     *)
(* BIP-340.  A signer makes signatures, the bytes that reach the verifier  *)
(* are those or altered ones, and the verifier answers.                    *)
(*                                                                         *)
(* A point is its discrete logarithm.  P and -P share an x-coordinate, the *)
(* smaller of the two here, and the parity of y tells them apart; other    *)
(* values of x are off the curve.  The bytes of a point are a record of    *)
(* their length, their first byte and what the other 32 spell.             *)
(***************************************************************************)
EXTENDS Integers, FiniteSets

CONSTANTS
  N,          \* the prime group order
  EvenY(_)    \* whether the y-coordinate of a point is even

\* What the parameters satisfy.
ASSUME CodecAssumption ==
  /\ N \in Nat \ {0, 1, 2}
  /\ \A p \in 1 .. N - 1 : EvenY(p) \in BOOLEAN /\ EvenY(p) # EvenY(N - p)

Points == 0 .. N - 1
Infinity == 0
Rejected == -1
PointLen == 33

Negative(p) == (N - p) % N
Abscissa(p) == IF p <= N - p THEN p ELSE N - p
OnCurve(x) == x \in 1 .. (N - 1) \div 2
Lift(x) == CHOOSE p \in Points : p # Infinity /\ Abscissa(p) = x /\ EvenY(p)

Bytes(length, tag, x) == [length |-> length, tag |-> tag, x |-> x]

\* encode_point; encode_affine_point is the same function.
EncodePoint(p) ==
  IF p = Infinity THEN Bytes(PointLen, 0, 0)
                  ELSE Bytes(PointLen, IF EvenY(p) THEN 2 ELSE 3, Abscissa(p))

\* Slip: any all-zero buffer is the identity.
DecodeAnyZeros(b) ==
  IF b.tag = 0 /\ b.x = 0 THEN Infinity
  ELSE IF b.length # PointLen \/ b.tag \notin {2, 3} \/ ~OnCurve(b.x) THEN Rejected
  ELSE IF b.tag = 2 THEN Lift(b.x) ELSE Negative(Lift(b.x))

\* decode_point: length and tag before anything else.
DecodePoint(b) ==
  IF b.length # PointLen THEN Rejected
  ELSE IF b.tag = 0 /\ b.x = 0 THEN Infinity
  ELSE IF b.tag \notin {2, 3} \/ ~OnCurve(b.x) THEN Rejected
  ELSE IF b.tag = 2 THEN Lift(b.x) ELSE Negative(Lift(b.x))

\* PublicKey::from_canonical_bytes
DecodePublicKey(b) ==
  IF DecodePoint(b) = Infinity THEN Rejected ELSE DecodePoint(b)

----------------------------------------------------------------------------
CONSTANTS
  Messages,
  Challenge(_, _, _),   \* (r, x of the key, message) -> scalar
  Widths,               \* the lengths a signature may arrive with
  Numbers               \* the integers its halves and the key may spell

\* What the parameters satisfy: 32 bytes spell every scalar and more.
ASSUME SchnorrAssumption ==
  /\ 0 .. N - 1 \subseteq Numbers
  /\ Numbers \subseteq Nat
  /\ \A r, x \in Numbers, m \in Messages : Challenge(r, x, m) \in 0 .. N - 1

VARIABLES
  parsed,    \* a point or a public key as it was read: its bytes and itself, or Rejected
  made,      \* the last signature made: key, nonce, message and bytes
  shown,     \* what the verifier was given: key, message and bytes
  accepted   \* everything the verifier accepted

schnorrVars == <<parsed, made, shown, accepted>>

SignatureLen == 64
NoSignature == [length |-> 0, r |-> 0, s |-> 0]

----------------------------------------------------------------------------
(* The signer of BIP-340, external: both the key and the nonce are negated *)
(* if their point has odd y.                                               *)

EvenHalf(k) == IF EvenY(k) THEN k ELSE Negative(k)
SignatureOf(secret, nonce, message) ==
  LET r == Abscissa(nonce)
      e == Challenge(r, Abscissa(secret), message)
  IN  [length |-> SignatureLen, r |-> r, s |-> (EvenHalf(nonce) + e * EvenHalf(secret)) % N]

----------------------------------------------------------------------------
\* Slip: s is reduced, not checked.
CanonicalScalarAny(s) == TRUE

CanonicalScalar(s) == s < N

\* The first byte of R's encoding is 2 and the others are r.
Matches(point, r) ==
  LET enc == EncodePoint(point) IN enc.tag = 2 /\ enc.x = r

\* Slip: the key is lifted to its point of odd y.
VerifiesOddKey(key, message, sig) ==
  LET p == DecodePoint(Bytes(PointLen, 3, key))
      e == Challenge(sig.r, key, message)
  IN  /\ sig.length = SignatureLen
      /\ p # Rejected
      /\ CanonicalScalar(sig.s)
      /\ Matches((sig.s - e * p) % N, sig.r)

\* verify_schnorr_bip340.  The key is lifted to its point of even y.
Verifies(key, message, sig) ==
  LET p == DecodePoint(Bytes(PointLen, 2, key))
      e == Challenge(sig.r, key, message)
  IN  /\ sig.length = SignatureLen
      /\ p # Rejected
      /\ CanonicalScalar(sig.s)
      /\ Matches((sig.s - e * p) % N, sig.r)

----------------------------------------------------------------------------
SchnorrInit ==
  /\ parsed = [bytes |-> Bytes(0, 0, 0), point |-> Rejected]
  /\ made = [secret |-> 0, nonce |-> 0, message |-> 0, sig |-> NoSignature]
  /\ shown = [key |-> 0, message |-> 0, sig |-> NoSignature]
  /\ accepted = {}

Nothing == parsed = [bytes |-> Bytes(0, 0, 0), point |-> Rejected] /\ made.sig = NoSignature

\* decode_point and PublicKey::from_canonical_bytes, on whatever bytes.
ReadPoint(b) ==
  Nothing /\ parsed' = [bytes |-> b, point |-> DecodePoint(b)] /\ UNCHANGED <<made, shown, accepted>>
ReadPublicKey(b) ==
  Nothing /\ parsed' = [bytes |-> b, point |-> DecodePublicKey(b)] /\ UNCHANGED <<made, shown, accepted>>

AsMade == [key |-> Abscissa(made.secret), message |-> made.message, sig |-> made.sig]

MakeSignature(secret, nonce, message) ==
  /\ Nothing
  /\ made' = [secret |-> secret, nonce |-> nonce, message |-> message,
              sig |-> SignatureOf(secret, nonce, message)]
  /\ shown' = AsMade'
  /\ UNCHANGED <<parsed, accepted>>

\* A signature reaches the verifier for another key or message, or with one
\* of its parts replaced.
AlteredKey == {[shown EXCEPT !.key = x] : x \in Numbers}
AlteredMessage == {[shown EXCEPT !.message = m] : m \in Messages}
AlteredScalar == {[shown EXCEPT !.sig.s = s] : s \in Numbers}
AlteredNonce == {[shown EXCEPT !.sig.r = r] : r \in Numbers}
AlteredLength == {[shown EXCEPT !.sig.length = w] : w \in Widths}

Alter ==
  /\ made.sig # NoSignature
  /\ shown = AsMade
  /\ shown' \in AlteredKey \cup AlteredMessage \cup AlteredScalar \cup AlteredNonce \cup AlteredLength
  /\ UNCHANGED <<parsed, made, accepted>>

\* verify_signature
Verify ==
  /\ Verifies(shown.key, shown.message, shown.sig)
  /\ accepted' = accepted \cup {shown}
  /\ UNCHANGED <<parsed, made, shown>>

SchnorrNext ==
  \/ \E b \in [length : {0} \cup Widths, tag : 0 .. 5, x : Numbers] : ReadPoint(b) \/ ReadPublicKey(b)
  \/ \E secret, nonce \in 1 .. N - 1, message \in Messages : MakeSignature(secret, nonce, message)
  \/ Alter
  \/ Verify

SchnorrSpec == SchnorrInit /\ [][SchnorrNext]_schnorrVars

----------------------------------------------------------------------------
\* What a signer of the group's ciphersuite makes is accepted whatever the
\* parities of its key and its nonce (test verifies_real_frost_signature).
MadeVerifies ==
  made.sig # NoSignature => Verifies(Abscissa(made.secret), made.message, made.sig)

\* A signature cannot be changed into another one for the same key, message
\* and nonce: neither s + n nor the s of the negated nonce is accepted.
OneSignaturePerNonce ==
  \A a, b \in accepted :
    a.key = b.key /\ a.message = b.message /\ a.sig.r = b.sig.r => a.sig = b.sig

\* Both: what the signer makes, and nothing else of its nonce, is accepted.
SignedVerifies == MadeVerifies /\ OneSignaturePerNonce

\* A point has one wire form, the identity included: bytes that are read are
\* the encoding of the point they stand for (codec.rs, header: an all-zero
\* buffer of another length would be a second form of the identity).
OneEncoding == parsed.point # Rejected => parsed.bytes = EncodePoint(parsed.point)
=============================================================================
