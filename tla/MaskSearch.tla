------------------------------ MODULE MaskSearch ------------------------------
(***************************************************************************)
(* How assembly.rs looks for the relations that MaskScreens defines: a     *)
(* baby-step giant-step ladder for scalar multiples, sums of two halves    *)
(* for small coefficients, signed half-combinations across pieces, and     *)
(* x-coordinates for cross-piece multiples and public offsets.             *)
(*                                                                         *)
(* Masks are added one at a time, to the current piece or to a new one;    *)
(* the searches must answer like the definitions at every list.            *)
(***************************************************************************)
EXTENDS MaskScreens

CONSTANTS
  Points,             \* the masks to draw from
  Occurs(_),          \* the lists of masks that are drawn; so are their prefixes
  HalfSupportBound    \* CROSS_PIECE_MASK_RELATION_HALF_SUPPORT_BOUND, 3

\* What the parameters satisfy.
ASSUME MaskAssumption ==
  /\ Points \subseteq Scalars \ {Identity}
  /\ ScalarBound < Order
  /\ HalfSupportBound \in Nat /\ SmallSupportBound <= UnitSupportBound
  /\ UnitSupportBound <= 2 * HalfSupportBound

VARIABLE pieces   \* the masks of every piece, in order

\* The flattened list of indexed masks: <<point, piece>>.
Flat(ps) == FlattenSeq([h \in DOMAIN ps |-> [j \in DOMAIN ps[h] |-> <<ps[h][j], h>>]])
PointsOf(masks) == [i \in DOMAIN masks |-> masks[i][1]]

----------------------------------------------------------------------------
(* has_public_scalar_mask_relation_small_target_bsgs                       *)

\* Slip: the last giant row is left out.
LadderRowsShort == 0 .. GiantSteps - 1

LadderRows == 0 .. GiantSteps

\* Slip: the target is walked in one direction only.
WalksForward(target, base, giant) == {Minus(target, Multiple(giant * BabySteps, base))}

\* Both walks from the target, one stride of the base per giant step.
Walks(target, base, giant) ==
  LET stride == Multiple(giant * BabySteps, base) IN {Minus(target, stride), Plus(target, stride)}

LadderFinds(target, base) ==
  \E giant \in LadderRows : \E w \in Walks(target, base, giant) :
    IF w = Identity
      THEN giant * BabySteps \in 1 .. ScalarBound
      ELSE \E baby \in 1 .. BabySteps :
             XKey(Multiple(baby, base)) = XKey(w) /\ LadderHit(giant, baby)

ScalarSearch(e) == \E j, k \in DOMAIN e : j # k /\ LadderFinds(e[k], e[j])

----------------------------------------------------------------------------
(* has_point_relation_with_coefficient_bound: the sums of either half with *)
(* the number of their terms; the left map keeps the largest per sum.      *)

HalfSums(e, S) ==
  {<<Combination(e, S, c), Cardinality(Support(c))>> : c \in [S -> -CoefficientBound .. CoefficientBound]}

\* Slip: the left half keeps the smallest support per sum.
LeftSmallest(sums, point) == Min({s[2] : s \in {t \in sums : t[1] = point}})

LeftSupport(sums, point) == Max({s[2] : s \in {t \in sums : t[1] = point}})

CoefficientSearch(e) ==
  LET half == Len(e) \div 2
      left == HalfSums(e, 1 .. half)
  IN  \E r \in HalfSums(e, half + 1 .. Len(e)) :
        /\ \E l \in left : l[1] = Negated(r[1])
        /\ LeftSupport(left, Negated(r[1])) + r[2] >= 2

----------------------------------------------------------------------------
(* has_pair_public_g_offset_relation                                       *)

\* Slip: the offset of a difference is sought as far as that of a sum only
\* for the smaller coefficient.
OffsetBoundSmaller(a, b, difference) ==
  (IF difference THEN Min({a, b}) ELSE a + b) * LimbModulus

\* mask_public_g_offset_bound
OffsetBound(a, b, difference) == (IF difference THEN Max({a, b}) ELSE a + b) * LimbModulus

PairOffsetSearch(masks, crossPieceOnly) ==
  \E i, k \in DOMAIN masks :
    /\ i < k /\ (crossPieceOnly => masks[i][2] # masks[k][2])
    /\ \E a, b \in 1 .. CoefficientBound, difference \in BOOLEAN :
         LET lhs == Multiple(a, masks[i][1])
             rhs == Multiple(IF difference THEN -b ELSE b, masks[k][1])
         IN  \/ Plus(lhs, rhs) = Identity
             \/ ProbedBelow(Plus(lhs, rhs), OffsetBound(a, b, difference))

OffsetSearch(e) ==
  \/ \E j \in DOMAIN e : SignedBelow(e[j], LimbModulus)
  \/ PairOffsetSearch([j \in DOMAIN e |-> <<e[j], 1>>], FALSE)

----------------------------------------------------------------------------
(* cross_piece_elgamal_mask_relation                                       *)

\* mask_x_owners: per x-coordinate the piece of the first mask, and whether a
\* later one is of another piece.
OwnersOf(masks, x) == {i \in DOMAIN masks : XKey(masks[i][1]) = x}
HasOtherPiece(masks, x, piece) ==
  LET owners == OwnersOf(masks, x)
      first == masks[Min(owners)][2]
  IN  owners # {} /\ (first # piece \/ \E i \in owners : masks[i][2] # first)

CrossScalarSearch(masks) ==
  \E i \in DOMAIN masks, s \in 1 .. ScalarBound :
    HasOtherPiece(masks, XKey(Multiple(s, masks[i][1])), masks[i][2])

\* collect_mask_combinations_exact over signed_mask_multiples, and the pairs
\* and triples of the unit scan: signed multiples of `support` masks.
Combinations(masks, bound, support) ==
  (UNION {[S -> -bound .. bound] : S \in kSubset(support, DOMAIN masks)}) \ {<<>>}
Signed(masks, bound, support) ==
  {c \in Combinations(masks, bound, support) : \A i \in DOMAIN c : c[i] # 0}
SumOfMasks(masks, c) == Combination(PointsOf(masks), DOMAIN c, c)

\* Slip: the halves may share a mask.
HalvesOverlapping(masks, l, r) ==
  Cardinality({masks[i][2] : i \in DOMAIN l \cup DOMAIN r}) > 1

\* disjoint_from and spans_multiple_pieces_with
HalvesRelate(masks, l, r) ==
  /\ DOMAIN l \cap DOMAIN r = {}
  /\ Cardinality({masks[i][2] : i \in DOMAIN l \cup DOMAIN r}) > 1

\* relation_exists_between_halves, for one support.
RelationOfSupport(masks, bound, support) ==
  LET left == Signed(masks, bound, (support + 1) \div 2)
      sums == {SumOfMasks(masks, l) : l \in left}
  IN  \E r \in Signed(masks, bound, support \div 2) :
        /\ Negated(SumOfMasks(masks, r)) \in sums
        /\ \E l \in left : /\ SumOfMasks(masks, l) = Negated(SumOfMasks(masks, r))
                           /\ HalvesRelate(masks, l, r)

\* Slip: the scan stops before its last support.
SupportsShort(lowest, highest) == 2 .. highest - 1

Supports(lowest, highest) == Max({lowest, 2}) .. highest

RelationInRange(masks, bound, lowest, highest) ==
  \/ highest > 2 * HalfSupportBound
  \/ \E support \in Supports(lowest, highest) : RelationOfSupport(masks, bound, support)

CrossSearch(ps) ==
  LET masks == Flat(ps)
  IN  \/ Len(ps) > PieceBound
      \/ \E i, k \in DOMAIN masks : masks[i][1] = masks[k][1] /\ masks[i][2] # masks[k][2]
      \/ CrossScalarSearch(masks)
      \/ PairOffsetSearch(masks, TRUE)
      \/ RelationInRange(masks, 1, SmallSupportBound + 1, UnitSupportBound)
      \/ RelationInRange(masks, CoefficientBound, 2, SmallSupportBound)

----------------------------------------------------------------------------
AllMasks == PointsOf(Flat(pieces))

\* The lists of masks that occur; a mask is decoded, hence not the identity.
MasksInit == pieces = <<>>

NewPiece(p) == pieces' = Append(pieces, <<p>>)
SamePiece(p) ==
  pieces # <<>> /\ pieces' = [pieces EXCEPT ![Len(pieces)] = Append(@, p)]

MasksNext == \E p \in {q \in Points : Occurs(Append(AllMasks, q))} : NewPiece(p) \/ SamePiece(p)

MasksSpec == MasksInit /\ [][MasksNext]_pieces

----------------------------------------------------------------------------
\* The ladder catches every multiple up to the bound, of either sign and with
\* either mask as the base, at the seams of its rows too; what else it catches
\* are the multiples of its last row (assembly.rs, comment above
\* RECOVERY_KEY_ENUMERABILITY_BOUND).  The screen before it has excluded masks
\* that are equal up to sign.
LadderIsExact == ~DegenerateBasic(AllMasks) => (ScalarSearch(AllMasks) <=> ScalarRelation(AllMasks))
LadderMissesNothing ==
  (\E j, k \in DOMAIN AllMasks :
     j # k /\ \E s \in 2 .. ScalarBound : Multiple(s, AllMasks[j]) \in UpToSign(AllMasks[k]))
  => ScalarSearch(AllMasks)

\* Splitting the masks in two halves finds every relation with small
\* coefficients, whichever half its terms fall in, and only those.
HalvesAreExact == CoefficientSearch(AllMasks) <=> SmallCoefficientRelation(AllMasks)

OffsetsAreExact == OffsetSearch(AllMasks) <=> OffsetRelation(AllMasks)

\* The searches among the masks of one capsule.
MaskSearchIsExact == LadderIsExact /\ LadderMissesNothing /\ HalvesAreExact /\ OffsetsAreExact

\* The scans across pieces find every relation of the supports and
\* coefficients they are documented for, over masks of different pieces and
\* never with one mask in both halves, and report nothing else.
CrossSearchIsExact == CrossSearch(pieces) <=> CrossPieceRelation(pieces)
=============================================================================
