--------------------------- MODULE PedersenScreen ---------------------------
(***************************************************************************)
(* The Pedersen commitments of the pieces of a case and the screen that    *)
(* looks for public relations among those of different pieces              *)
(* (pedersen.rs and cross_piece_pedersen_commitment_relation).             *)
(*                                                                         *)
(* Pieces are added one at a time; every slot commits to a value below the *)
(* slot's bound under a blinding of the piece's sealer.                    *)
(***************************************************************************)
EXTENDS MaskScreens

CONSTANTS
  H,                  \* the second generator, by its discrete logarithm
  Slots,              \* range_circuit::K, the slots of one piece
  LimbSlots,          \* 2L, those of value and complement limbs; then carries
  PedersenPieceBound, \* CROSS_PIECE_PEDERSEN_RELATION_PIECE_BOUND, 6
  Values,             \* the values that occur, in the slots they fit
  Blindings,          \* the blindings that occur
  MaxCommitted        \* bound on the pieces of a case

\* What the parameters satisfy.
ASSUME PedersenAssumption ==
  /\ H \in Scalars /\ Slots \in Nat \ {0} /\ LimbSlots \in 0 .. Slots
  /\ PedersenPieceBound \in Nat \ {0}
  /\ Values \subseteq Nat /\ Blindings \subseteq Scalars

\* No coincidence: signed sums of the blindings that occur, unless they cancel,
\* leave nothing near a multiple of G that is small.
ASSUME BlindingsUnrelated ==
  \A n \in 2 .. PedersenPieceBound :
    \A blinding \in [1 .. n -> Blindings], sign \in [1 .. n -> -1 .. 1] :
      LET sum == Combination(blinding, 1 .. n, sign)
      IN  sum # 0 => \A value \in -(n * LimbModulus) .. n * LimbModulus :
                       ~ProbedBelow(Plus(value % Order, Times(sum, H)), n * LimbModulus)

VARIABLE committed   \* for every piece, per slot, the opening <<value, blinding>>

\* pedersen_statement_value_bound
ValueBound(slot) == IF slot <= LimbSlots THEN LimbModulus ELSE 2

Commit(value, blinding) == Plus(value, Times(blinding, H))
Commitments(piece) == [slot \in 1 .. Slots |-> Commit(piece[slot][1], piece[slot][2])]

\* degenerate_pedersen_commitment, which every piece has passed.
DegeneratePedersen(piece) == \E slot \in 1 .. Slots : SignedBelow(Commitments(piece)[slot], LimbModulus)

----------------------------------------------------------------------------
(* The search.                                                             *)

\* Slip: a difference is only sought as far as the smaller bound.
PairBoundSmaller(lhs, rhs, difference) ==
  IF difference THEN Min({ValueBound(lhs), ValueBound(rhs)}) ELSE ValueBound(lhs) + ValueBound(rhs)

PairBound(lhs, rhs, difference) ==
  IF difference THEN Max({ValueBound(lhs), ValueBound(rhs)}) ELSE ValueBound(lhs) + ValueBound(rhs)

PairCandidate(com, i, k, a, b, difference) ==
  ProbedBelow(IF difference THEN Minus(com[i][a], com[k][b]) ELSE Plus(com[i][a], com[k][b]),
              PairBound(a, b, difference))

\* Slip: two slots of one piece are compared too.
PairRelationWithinPieces(com) ==
  \E i, k \in DOMAIN com, a, b \in 1 .. Slots, difference \in BOOLEAN :
    (i < k \/ (i = k /\ a < b)) /\ PairCandidate(com, i, k, a, b, difference)

\* has_cross_piece_pair_pedersen_public_g_offset_relation; the kernel takes no
\* identity, and one among the commitments is a relation of its own.
PairRelation(com) ==
  \/ \E i \in DOMAIN com, slot \in 1 .. Slots : com[i][slot] = Identity
  \/ \E i, k \in DOMAIN com, a, b \in 1 .. Slots, difference \in BOOLEAN :
       i < k /\ PairCandidate(com, i, k, a, b, difference)

\* Slip: no term is subtracted.
SlotWalksWithoutSigns(slot) ==
  LET walk[i \in 0 .. Len(slot)] ==
        IF i = 0 THEN {<<Identity, 0>>}
        ELSE walk[i - 1] \cup {<<Plus(w[1], slot[i]), w[2] + 1>> : w \in walk[i - 1]}
  IN  walk[Len(slot)]

\* The walk of collect_cross_piece_public_g_offset_candidates: every signed
\* sum whose first term is positive, with the number of its terms.
SlotWalks(slot) ==
  LET walk[i \in 0 .. Len(slot)] ==
        IF i = 0 THEN {<<Identity, 0>>}
        ELSE LET before == walk[i - 1]
             IN  before
                 \cup {<<Plus(w[1], slot[i]), w[2] + 1>> : w \in before}
                 \cup {<<Minus(w[1], slot[i]), w[2] + 1>> : w \in {v \in before : v[2] > 0}}
  IN  walk[Len(slot)]

SlotRelation(com, slot) ==
  \E w \in SlotWalks([i \in DOMAIN com |-> com[i][slot]]) :
    w[2] >= 2 /\ ProbedBelow(w[1], w[2] * ValueBound(slot))

CommitmentRelation(ps) ==
  LET com == [i \in DOMAIN ps |-> Commitments(ps[i])]
  IN  \/ Len(ps) > PedersenPieceBound
      \/ PairRelation(com)
      \/ \E slot \in 1 .. Slots : SlotRelation(com, slot)

----------------------------------------------------------------------------
PedersenInit == committed = <<>>

AddCommitted ==
  /\ Len(committed) < MaxCommitted
  /\ \E value \in [1 .. Slots -> Values], blinding \in [1 .. Slots -> Blindings] :
       LET piece == [slot \in 1 .. Slots |-> <<value[slot], blinding[slot]>>]
       IN  /\ \A slot \in 1 .. Slots : value[slot] < ValueBound(slot)
           /\ ~DegeneratePedersen(piece)
           /\ committed' = Append(committed, piece)

PedersenNext == AddCommitted
PedersenSpec == PedersenInit /\ [][PedersenNext]_committed

----------------------------------------------------------------------------
Signs == [DOMAIN committed -> -1 .. 1]

\* Blindings of one slot of several pieces that cancel, with any signs.
Cancelling ==
  \E slot \in 1 .. Slots, sign \in Signs :
    /\ Cardinality(Support(sign)) >= 2
    /\ Combination([i \in DOMAIN committed |-> committed[i][slot][2]], DOMAIN committed, sign) = 0

\* Two pieces that blind two of their slots alike.
Sharing ==
  \E i, k \in DOMAIN committed, a, b \in 1 .. Slots :
    i # k /\ committed[k][b][2] \in UpToSign(committed[i][a][2])

\* Where blindings cancel, a sum of values that anyone can look up is left; the
\* screen refuses it whatever the values are, for any number of pieces and any
\* signs (assembly.rs, cross_piece_pedersen_commitment_relation).
CancelledBlindingsRefused == Cancelling => CommitmentRelation(committed)

\* Likewise for any two slots of two pieces, limbs and carries mixed.
SharedBlindingRefused == Sharing => CommitmentRelation(committed)

\* And nothing else is refused while the blindings have no other relation.
OnlyRelationsRefused ==
  CommitmentRelation(committed) => Cancelling \/ Sharing \/ Len(committed) > PedersenPieceBound

\* Blindings that cancel or are shared are refused, and nothing else
\* (assembly.rs, cross_piece_pedersen_commitment_relation).
PedersenScreenIsExact == CancelledBlindingsRefused /\ SharedBlindingRefused /\ OnlyRelationsRefused
=============================================================================
