-------------------------------- MODULE Hint --------------------------------
(***************************************************************************)
(* hint.rs: the recovery hint of one additive piece, its recipient-only    *)
(* and its gated opening, the combination of the pieces and the quorum's   *)
(* attestation of them.                                                    *)
(*                                                                         *)
(* The mask hash is a parameter.  A signature is the key it was made under *)
(* together with the statement it signs, as a DLEQ proof is in Opening.    *)
(***************************************************************************)
EXTENDS Opening

CONSTANTS
  HintMask(_),   \* the hash of a mask preimage, before its reduction
  Separators     \* ctx and epoch values no longer than MAX_DOMAIN_SEP_LEN

----------------------------------------------------------------------------
(* Sealing and opening one piece.  A hint binding b is a record of yStar,  *)
(* vs, ctx and epoch.                                                      *)

\* HintBinding::validate
Admissible(b) ==
  b.yStar # Identity /\ b.vs # Identity /\ {b.ctx, b.epoch} \subseteq Separators

\* x(z): a point and its negation have the same one.
Abscissa(z) == IF 2 * z <= Order THEN z ELSE Order - z

\* Slip: the epoch is left out of the preimage.
MaskOfAnyEpoch(eStar, b, idx, z) ==
  HintMask([eStar |-> eStar, yStar |-> b.yStar, vs |-> b.vs, ctx |-> b.ctx,
            epoch |-> 0, idx |-> idx, x |-> Abscissa(z)]) % Order

MaskOf(eStar, b, idx, z) ==
  HintMask([eStar |-> eStar, yStar |-> b.yStar, vs |-> b.vs, ctx |-> b.ctx,
            epoch |-> b.epoch, idx |-> idx, x |-> Abscissa(z)]) % Order

MayMint(b, r) == Admissible(b) /\ r # 0
MintHint(s, b, idx, r) == [eStar |-> r, ct |-> Plus(s, MaskOf(r, b, idx, Times(r, b.yStar)))]

\* from_canonical_bytes: the identity is no ephemeral.
Decodes(hint) == hint.eStar # Identity

AliasesAny(hint, ephemerals) == \E e \in ephemerals : e \in {hint.eStar, Minus(0, hint.eStar)}

Unmask(hint, b, idx, z) ==
  IF z = Identity THEN Failed ELSE Minus(hint.ct, MaskOf(hint.eStar, b, idx, z))

OpenPiece(hint, x, b, idx) ==
  IF Admissible(b) THEN Unmask(hint, b, idx, Times(x, hint.eStar)) ELSE Failed

----------------------------------------------------------------------------
(* The pieces together.                                                    *)

Canonical(pieces, weights) ==
  /\ pieces # <<>> /\ Len(pieces) = Len(weights)
  /\ \A i \in 1 .. Len(pieces) - 1 : pieces[i].idx < pieces[i + 1].idx

\* Slip: the sum is not rechecked against VS.
CombineUnchecked(opened, weights, vs) ==
  IF \E i \in DOMAIN opened : opened[i] = Failed
    THEN Failed
    ELSE SumOver(LAMBDA i : Times(weights[i], opened[i]), DOMAIN opened)

\* Weighted sum of the opened pieces, returned only if it reconstructs VS.
Combine(opened, weights, vs) ==
  LET s == SumOver(LAMBDA i : Times(weights[i], opened[i]), DOMAIN opened)
  IN  IF s # vs \/ \E i \in DOMAIN opened : opened[i] = Failed THEN Failed ELSE s

RecoverRecipientOnly(pieces, weights, x, b) ==
  IF Canonical(pieces, weights)
    THEN Combine([i \in DOMAIN pieces |-> OpenPiece(pieces[i].hint, x, b, pieces[i].idx)],
                 weights, b.vs)
    ELSE Failed

----------------------------------------------------------------------------
(* Gated pieces.  A gated binding gb is a record of recipient, gates, vs,  *)
(* ctx and epoch; its roster and Y* are derived, never supplied.           *)

RosterOf(gb) == OpeningBinding(gb.recipient, gb.gates)
Under(gb) == [yStar |-> RosterOf(gb).yStar, vs |-> gb.vs, ctx |-> gb.ctx, epoch |-> gb.epoch]

GatedDleqBinding(eStar, gb, idx, gate) ==
  [eStar |-> eStar, b |-> Under(gb), gStar |-> gb.gates, idx |-> idx, gate |-> gate]

\* AuthorizerContribution::contribute
MayAuthorize(eStar, gb, gate) ==
  gate \in gb.gates /\ Admissible(Under(gb)) /\ BasesAdmissible(<<1, eStar>>)

Authorization(w, eStar, gb, idx, gate, entropy) ==
  LET dleq == Prove(w, <<1, eStar>>, GatedDleqBinding(eStar, gb, idx, gate), entropy)
  IN  [w_g |-> dleq.statement.images[1], w_estar |-> dleq.statement.images[2], dleq |-> dleq]

\* Slip: the proof is not looked at.
AuthorizationFormed(a, eStar, binding) == a.w_g # Identity /\ a.w_estar # Identity

\* AuthorizerContribution::verify
AuthorizationVerifies(a, eStar, binding) ==
  /\ a.w_g # Identity /\ a.w_estar # Identity
  /\ ProofVerifies(a.dleq, <<1, eStar>>, <<a.w_g, a.w_estar>>, binding)

\* One gate of gate_sum_inner: every contribution verifies, no W twice, and
\* the W sum to the gate.
QuorumQualifies(quorum, eStar, gb, idx) ==
  LET cs == quorum.contributions
  IN  /\ cs # <<>>
      /\ \A j \in DOMAIN cs :
           /\ AuthorizationVerifies(cs[j], eStar, GatedDleqBinding(eStar, gb, idx, quorum.gate))
           /\ \A k \in 1 .. j - 1 : cs[k].w_g # cs[j].w_g
      /\ SumOver(LAMBDA j : cs[j].w_g, DOMAIN cs) = quorum.gate

\* gate_sum_inner: quorums and roster gates biject.
QuorumsQualify(quorums, eStar, gb, idx) ==
  /\ Len(quorums) = Cardinality(gb.gates)
  /\ {quorums[i].gate : i \in DOMAIN quorums} = gb.gates
  /\ \A i \in DOMAIN quorums : QuorumQualifies(quorums[i], eStar, gb, idx)

GateSum(quorums, gb) ==
  SumOver(LAMBDA i :
            Times(GateWeight(gb.recipient, gb.gates, quorums[i].gate),
                  SumOver(LAMBDA j : quorums[i].contributions[j].w_estar,
                          DOMAIN quorums[i].contributions)),
          DOMAIN quorums)

\* public_gate_sum: what the coordinator computes, or that it refuses.
PublicGateSum(eStar, gb, idx, quorums) ==
  IF Admissible(Under(gb)) /\ QuorumsQualify(quorums, eStar, gb, idx)
    THEN GateSum(quorums, gb) ELSE Failed

OpenPieceGated(piece, x, gb) ==
  LET gateSum == PublicGateSum(piece.hint.eStar, gb, piece.idx, piece.quorums)
      own == Times(RosterOf(gb).recipientWeight, Times(piece.hint.eStar, x))
  IN  IF gateSum = Failed THEN Failed
        ELSE Unmask(piece.hint, Under(gb), piece.idx, Plus(own, gateSum))

RecoverGated(pieces, weights, x, gb) ==
  IF Canonical(pieces, weights)
    THEN Combine([i \in DOMAIN pieces |-> OpenPieceGated(pieces[i], x, gb)], weights, gb.vs)
    ELSE Failed

----------------------------------------------------------------------------
(* The quorum's attestation.                                               *)

\* hint_attestation_statement: non-empty, no index twice; sorted, so a set.
Attestable(pieces) ==
  pieces # <<>> /\ \A i, j \in DOMAIN pieces : pieces[i].idx = pieces[j].idx => i = j

AttestationStatement(pieces, gb) ==
  [ pieces |-> {<<pieces[i].idx, pieces[i].hint>> : i \in DOMAIN pieces},
    b      |-> Under(gb), recipient |-> gb.recipient, gStar |-> gb.gates ]

Signed(key, pieces, gb) == [key |-> key, statement |-> AttestationStatement(pieces, gb)]

\* Slip: a signature under any key will do.
PinnedVerifyAnyKey(quorumKey, gb, pieces, signature) ==
  /\ Admissible(Under(gb)) /\ Attestable(pieces)
  /\ signature.statement = AttestationStatement(pieces, gb)

\* PinnedHintVerifier::verify.  Key and binding are the verifier's own.
PinnedVerify(quorumKey, gb, pieces, signature) ==
  /\ Admissible(Under(gb)) /\ Attestable(pieces)
  /\ signature = Signed(quorumKey, pieces, gb)

VerifyAndRecoverGated(quorumKey, gb, pieces, signature, weights, x) ==
  IF PinnedVerify(quorumKey, gb, pieces, signature)
    THEN RecoverGated(pieces, weights, x, gb) ELSE Failed
=============================================================================
