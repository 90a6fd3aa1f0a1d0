--------------------------- MODULE PayloadRecovery ---------------------------
(***************************************************************************)
(* compact_payload.rs, recover.rs and provision.rs: the recovery payload,  *)
(* its wire form and strict decode, the recipient-only recovery from it    *)
(* and the screen of paired hints and capsules; and a recovery from sealing *)
(* to the recovered key.  Producers seal pieces, again after a failure and *)
(* for other epochs; the ingress boundary screens a package of hints       *)
(* against their capsules; the coordinator assembles the payload and stores *)
(* its bytes, which may be altered; the recipient decodes and recovers     *)
(* under its own context.                                                  *)
(*                                                                         *)
(* A wire form is a record of what the bytes spell: the header, the lists, *)
(* the signature the format requires after a non-empty roster, and the     *)
(* number of bytes left over.                                              *)
(***************************************************************************)
EXTENDS Hint, MaskScreens

CONSTANTS
  MaxPayloadPieces,   \* MAX_COMPACT_RECOVERY_PAYLOAD_PIECES, 32
  MaxPayloadGates     \* MAX_COMPACT_RECOVERY_PAYLOAD_GATES, 5

NoSignature == "none"
Rejected == [header |-> "rejected"]    \* an Err where a payload or its bytes are expected

----------------------------------------------------------------------------
(* CompactRecoveryPayload *)

PieceListAdmissible(pieces) ==
  /\ Len(pieces) \in 1 .. MaxPayloadPieces
  /\ \A i \in 1 .. Len(pieces) - 1 : pieces[i].idx < pieces[i + 1].idx

\* canonical_roster: sorted, so the set; no identity and no duplicate.
RosterAdmissible(gates) ==
  /\ Len(gates) <= MaxPayloadGates
  /\ \A i, j \in DOMAIN gates : gates[i] # Identity /\ (gates[i] = gates[j] => i = j)

\* CompactRecoveryPayload::new.  Gated: a roster and a signature, or neither.
NewPayload(vs, gates, pieces, signature) ==
  IF /\ vs # Identity /\ PieceListAdmissible(pieces) /\ RosterAdmissible(gates)
     /\ gates = <<>> <=> signature = NoSignature
    THEN [vs |-> vs, gates |-> ToSet(gates), pieces |-> pieces, signature |-> signature]
    ELSE Rejected

IsGated(payload) == payload.signature # NoSignature

\* The gates in order.
Sorted(gates) ==
  CHOOSE s \in [1 .. Cardinality(gates) -> gates] : \A i, j \in DOMAIN s : i < j => s[i] < s[j]

Encode(payload) ==
  [ header |-> "v1", vs |-> payload.vs, pieces |-> payload.pieces,
    gates |-> Sorted(payload.gates), signature |-> payload.signature, rest |-> 0 ]

\* from_canonical_bytes.  What re-encodes to other bytes is refused.
Decode(wire) ==
  LET payload == NewPayload(wire.vs, wire.gates, wire.pieces, wire.signature)
  IN  IF /\ wire.header = "v1"
         /\ \A i \in DOMAIN wire.pieces : Decodes(wire.pieces[i].hint)
         /\ payload # Rejected
         /\ Encode(payload) = wire
        THEN payload ELSE Rejected

----------------------------------------------------------------------------
(* recover.rs and provision.rs *)

\* A recovery context c is a record of vs (certified_target), ctx and epoch.
BindingIn(c, yStar) == [yStar |-> yStar, vs |-> c.vs, ctx |-> c.ctx, epoch |-> c.epoch]

RecoverFromPayload(payload, x, c) ==
  IF IsGated(payload)
    THEN Failed
    ELSE RecoverRecipientOnly(payload.pieces, [i \in DOMAIN payload.pieces |-> 1], x,
                              BindingIn(c, x))

\* validate_recovery_hints_against_capsules for a list of [hint, masks]: the
\* masks of all capsules are one piece of the screen, the hints another.
\* Slip: the hints are not screened against one another.
CrossScreenOnly(pairs) ==
  LET masks == FlattenSeq([i \in DOMAIN pairs |-> pairs[i].masks])
      hints == [i \in DOMAIN pairs |-> pairs[i].hint.eStar]
  IN  Len(pairs) <= PieceBound /\ ~CrossPieceRelation(<<masks, hints>>)

HintsPass(pairs) ==
  LET masks == FlattenSeq([i \in DOMAIN pairs |-> pairs[i].masks])
      hints == [i \in DOMAIN pairs |-> pairs[i].hint.eStar]
  IN  /\ Len(pairs) <= PieceBound
      /\ \A i \in DOMAIN pairs : Decodes(pairs[i].hint)
      /\ ~CrossPieceRelation(<<masks, hints>>)
      /\ ~DegenerateMask(hints)

\* assemble_recipient_recovery_payload, to bytes.
AssemblePayload(vs, pieces) ==
  LET payload == NewPayload(vs, <<>>, pieces, NoSignature)
  IN  IF payload = Rejected \/ \E i \in DOMAIN pieces : ~Decodes(pieces[i].hint)
        THEN Rejected ELSE Encode(payload)

----------------------------------------------------------------------------
CONSTANTS
  RecipientKey,  \* the recipient's secret key
  TriedKeys,     \* the keys recovery may be called with
  Contexts,      \* recovery contexts, records of vs, ctx and epoch
  PieceCount,    \* the pieces a secret is split into
  PieceIn(_, _), \* PieceIn(context, idx): the contribution sealed
  MasksOfPiece,  \* MasksOfPiece[idx]: the limb masks of the piece's capsule
  StoredSeals,   \* the seal_recovery_hint calls that may be made
  AddedGate,     \* a gate that an altered payload may list
  MaxPackage,    \* bound on the length of a package
  MaxAlterations \* bound on the alterations of the stored bytes

\* What the parameters satisfy.
ASSUME PayloadAssumption ==
  /\ RecipientKey \in TriedKeys /\ TriedKeys \subseteq Scalars
  /\ \A s \in StoredSeals :
       /\ s.r \in Scalars /\ s.idx \in Nat /\ s.context \in Contexts
       /\ PieceIn(s.context, s.idx) \in Scalars /\ MasksOfPiece[s.idx] \in Seq(Scalars)
       /\ MaskOf(s.r, BindingIn(s.context, RecipientKey), s.idx, Times(s.r, RecipientKey)) \in Scalars
  /\ \A c \in Contexts :
       /\ \A idx \in 1 .. PieceCount : PieceIn(c, idx) \in Scalars
       /\ SumOver(LAMBDA idx : PieceIn(c, idx), 1 .. PieceCount) = c.vs
  /\ PieceCount \in Nat \ {0} /\ {MaxPayloadPieces, MaxPayloadGates, MaxPackage, MaxAlterations} \subseteq Nat

VARIABLES
  sealed,     \* the hints sealed, as [idx, context, r]
  admitted,   \* the package that passed the ingress screen last
  blob,       \* the stored bytes, or Rejected if there are none
  altered,    \* the number of alterations made to them
  opened      \* the <<key, context, scalar>> of the recoveries that returned Ok

payloadVars == <<sealed, admitted, blob, altered, opened>>

----------------------------------------------------------------------------
SealedHint(s) == MintHint(PieceIn(s.context, s.idx), BindingIn(s.context, RecipientKey), s.idx, s.r)

Packages == UNION {[1 .. n -> StoredSeals] : n \in 1 .. MaxPackage}
PairsOf(package) ==
  [i \in DOMAIN package |-> [hint |-> SealedHint(package[i]), masks |-> MasksOfPiece[package[i].idx]]]
Passing == {package \in Packages : HintsPass(PairsOf(package))}

PiecesOf(package) ==
  [i \in DOMAIN package |-> [idx |-> package[i].idx, hint |-> SealedHint(package[i])]]

\* What storage or a coordinator may make of a piece: another ciphertext,
\* the negated ephemeral, another index.
AlteredPieces(piece) ==
  { [piece EXCEPT !.hint.ct = Plus(@, 1)], [piece EXCEPT !.hint.ct = Minus(@, 1)],
    [piece EXCEPT !.hint.eStar = Minus(0, @)], [piece EXCEPT !.idx = @ + 1] }

\* Of the whole: a piece altered or lost, another target, a roster with a
\* signature, or twice the same gate, another header, a byte more.
AlteredWires(wire) ==
  (UNION {{[wire EXCEPT !.pieces[i] = p] : p \in AlteredPieces(wire.pieces[i])} : i \in DOMAIN wire.pieces})
    \cup { [wire EXCEPT !.pieces = Tail(@)], [wire EXCEPT !.vs = Plus(@, 1)],
           [wire EXCEPT !.gates = Append(@, AddedGate), !.signature = "signature"],
           [wire EXCEPT !.header = "v2"], [wire EXCEPT !.rest = 1] }

StoredRecovery(x, c) ==
  IF blob = Rejected \/ Decode(blob) = Rejected THEN Failed
    ELSE RecoverFromPayload(Decode(blob), x, c)

----------------------------------------------------------------------------
PayloadInit == sealed = {} /\ admitted = <<>> /\ blob = Rejected /\ altered = 0 /\ opened = {}

\* seal_recovery_hint
Seal(s) ==
  /\ MayMint(BindingIn(s.context, RecipientKey), s.r)
  /\ sealed' = sealed \cup {s}
  /\ UNCHANGED <<admitted, blob, altered, opened>>

\* validate_recovery_hints_against_capsules
Admit(package) ==
  /\ ToSet(package) \subseteq sealed
  /\ admitted' = package
  /\ UNCHANGED <<sealed, blob, altered, opened>>

\* assemble_recipient_recovery_payload; the bytes replace those stored.
Assemble(c) ==
  /\ AssemblePayload(c.vs, PiecesOf(admitted)) # Rejected
  /\ blob' = AssemblePayload(c.vs, PiecesOf(admitted))
  /\ altered' = 0
  /\ UNCHANGED <<sealed, admitted, opened>>

Alter ==
  /\ blob # Rejected /\ altered < MaxAlterations
  /\ blob.pieces # <<>>
  /\ blob' \in AlteredWires(blob)
  /\ altered' = altered + 1
  /\ UNCHANGED <<sealed, admitted, opened>>

\* recover_recipient_secret_from_payload.  A failed call returns an error.
RecoverStored(x, c) ==
  /\ StoredRecovery(x, c) # Failed
  /\ opened' = opened \cup {<<x, c, StoredRecovery(x, c)>>}
  /\ UNCHANGED <<sealed, admitted, blob, altered>>

\* The steps when these packages pass the ingress screen.
PayloadSteps(passing) ==
  \/ \E s \in StoredSeals : Seal(s)
  \/ \E package \in passing : Admit(package)
  \/ \E c \in Contexts : Assemble(c)
  \/ Alter
  \/ \E x \in TriedKeys, c \in Contexts : RecoverStored(x, c)

PayloadNext == PayloadSteps(Passing)

PayloadSpec == PayloadInit /\ [][PayloadNext]_payloadVars

----------------------------------------------------------------------------
\* The stored bytes recover exactly when they are a canonical, ungated
\* payload with one piece per index, each on an ephemeral sealed for that
\* index and this very context, whose ciphertexts are off by nothing in
\* total.  Which retry of a piece was kept does not matter; the target the
\* payload itself names does not either, as long as it is one; a stale epoch,
\* a lost, moved or negated piece fail the whole recovery (recover.rs, doc of
\* recover_recipient_secret_from_payload).
SumIntact(c) ==
  /\ blob # Rejected
  /\ blob.header = "v1" /\ blob.rest = 0 /\ blob.gates = <<>> /\ blob.vs # Identity
  /\ [i \in DOMAIN blob.pieces |-> blob.pieces[i].idx] = [i \in 1 .. PieceCount |-> i]
  /\ \E f \in [1 .. PieceCount -> sealed] :
       /\ \A i \in 1 .. PieceCount : /\ f[i].idx = i /\ f[i].context = c
                                     /\ f[i].r = blob.pieces[i].hint.eStar
       /\ SumOver(LAMBDA i : Minus(blob.pieces[i].hint.ct, SealedHint(f[i]).ct),
                  1 .. PieceCount) = 0
RecoversIffSumIntact ==
  \A c \in Contexts : StoredRecovery(RecipientKey, c) # Failed <=> SumIntact(c)

\* Nobody but the recipient recovers anything, and the recipient nothing but
\* the certified secret of the context it asked for (hint.rs
\* recover_recipient_only, the recheck against VS).
OnlyTheCertifiedSecret ==
  \A r \in opened : r[1] = RecipientKey /\ r[3] = r[2].vs

\* A payload recovers exactly while its pieces sum to the certified secret,
\* and then returns that, to the recipient only.
PayloadRecovers == RecoversIffSumIntact /\ OnlyTheCertifiedSecret

\* Whatever aliases_any would flag, the ingress screen refuses: no admitted
\* hint shares an ephemeral, up to sign, with a limb of any capsule of the
\* package or with another hint (provision.rs, hint.rs aliases_any).
AdmittedAreFresh ==
  \A i, j \in DOMAIN admitted :
    /\ ~AliasesAny(SealedHint(admitted[i]), ToSet(MasksOfPiece[admitted[j].idx]))
    /\ i # j => ~AliasesAny(SealedHint(admitted[i]), {SealedHint(admitted[j]).eStar})
=============================================================================
