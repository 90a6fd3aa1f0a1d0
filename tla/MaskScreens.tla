----------------------------- MODULE MaskScreens -----------------------------
(***************************************************************************)
(* What the ElGamal mask screens of assembly.rs reject: lists of masks E_j *)
(* among which a public linear relation holds.  How the code searches for  *)
(* those relations is the subject of MaskSearch.                           *)
(***************************************************************************)
EXTENDS CapsuleAlgebra

CONSTANTS
  ScalarBound,         \* RECOVERY_KEY_ENUMERABILITY_BOUND, 4096
  CoefficientBound,    \* MASK_RELATION_COEFFICIENT_BOUND, 2
  PieceBound,          \* CROSS_PIECE_MASK_RELATION_PIECE_BOUND, 6
  SmallSupportBound,   \* CROSS_PIECE_SMALL_COEFF_RELATION_SUPPORT_BOUND, 4
  UnitSupportBound,    \* CROSS_PIECE_UNIT_RELATION_SUPPORT_BOUND, 6
  PublicBabySteps      \* PUBLIC_RECOVERY_KEY_BABY_STEPS, 2^19

ASSUME ScreenAssumption ==
  { ScalarBound, CoefficientBound, PieceBound, SmallSupportBound, UnitSupportBound,
    PublicBabySteps } \subseteq Nat \ {0}

Negated(point) == Minus(0, point)
Multiple(s, point) == Times(s % Order, point)
UpToSign(point) == {point, Negated(point)}
XKey(point) == Min(UpToSign(point))    \* points that differ in sign share it
Difference(a, b) == IF a < b THEN b - a ELSE a - b

\* point = v*G for some |v| < bound.
SignedBelow(point, bound) == \E p \in UpToSign(point) : p < bound

\* What any_signed_g_multiple_below answers of a point: a row of the table is
\* 2 * PublicBabySteps wide, and v = row + j is also taken for row - j, so some
\* v at or above the bound are taken for one below it.
RowWidth == 2 * PublicBabySteps
ProbedBelow(point, bound) ==
  \E p \in UpToSign(point) :
    \/ p < bound
    \/ /\ p \div RowWidth \in 1 .. (bound + RowWidth - 1) \div RowWidth
       /\ p % RowWidth \in 1 .. PublicBabySteps
       /\ RowWidth * (p \div RowWidth) - (p % RowWidth) < bound

\* The sum of coefficient[i] * points[i] over S.
Combination(points, S, coefficient) == SumOver(LAMBDA i : Multiple(coefficient[i], points[i]), S)
Vanishes(coefficient, mask) == Combination(mask, DOMAIN mask, coefficient) = Identity

Support(coefficient) == {i \in DOMAIN coefficient : coefficient[i] # 0}

----------------------------------------------------------------------------
(* One capsule: degenerate_elgamal_mask and its parts.                     *)

DegenerateBasic(e) ==
  \/ \E j \in DOMAIN e : e[j] = Identity
  \/ \E j, k \in DOMAIN e : j # k /\ e[j] \in UpToSign(e[k])

\* The multiples that the baby-step giant-step ladder of the pairwise screen
\* catches: all of 1 .. ScalarBound, and those in its last row beyond it.
BabySteps == CHOOSE r \in 1 .. ScalarBound :
               r * r >= ScalarBound /\ \A q \in 1 .. r - 1 : q * q < ScalarBound
GiantSteps == (ScalarBound + BabySteps - 1) \div BabySteps
LadderHit(giant, baby) ==
  \E s \in {giant * BabySteps + baby, Difference(giant * BabySteps, baby)} : s \in 1 .. ScalarBound
PairwiseScalars ==
  UNION { {r[1] * BabySteps + r[2], Difference(r[1] * BabySteps, r[2])} :
          r \in {q \in (0 .. GiantSteps) \X (0 .. BabySteps) : LadderHit(q[1], q[2])} }

ScalarRelation(e) ==
  \E j, k \in DOMAIN e :
    j # k /\ \E s \in PairwiseScalars : Multiple(s, e[j]) \in UpToSign(e[k])

SmallCoefficientRelation(e) ==
  \E c \in [DOMAIN e -> -CoefficientBound .. CoefficientBound] :
    Cardinality(Support(c)) >= 2 /\ Vanishes(c, e)

\* a*p + b*q or a*p - b*q is a G-multiple below mask_public_g_offset_bound.
PairOffset(p, q) ==
  \E a, b \in 1 .. CoefficientBound :
    \/ ProbedBelow(Plus(Multiple(a, p), Multiple(b, q)), (a + b) * LimbModulus)
    \/ ProbedBelow(Minus(Multiple(a, p), Multiple(b, q)), Max({a, b}) * LimbModulus)

OffsetRelation(e) ==
  \/ \E j \in DOMAIN e : SignedBelow(e[j], LimbModulus)
  \/ \E j, k \in DOMAIN e : j < k /\ PairOffset(e[j], e[k])

DegenerateMask(e) ==
  DegenerateBasic(e) \/ ScalarRelation(e) \/ SmallCoefficientRelation(e) \/ OffsetRelation(e)

----------------------------------------------------------------------------
(* Several pieces: cross_piece_elgamal_mask_relation.  mask is a function  *)
(* over <<piece, limb>>.                                                   *)

MasksOf(pieces) ==
  [x \in UNION {{h} \X DOMAIN pieces[h] : h \in DOMAIN pieces} |-> pieces[x[1]][x[2]]]

SpansPieces(xs) == \E x, y \in xs : x[1] # y[1]

CrossRelation(mask, coefficientBound, supports) ==
  \E c \in [DOMAIN mask -> -coefficientBound .. coefficientBound] :
    /\ Cardinality(Support(c)) \in supports
    /\ SpansPieces(Support(c))
    /\ Vanishes(c, mask)

CrossPieceRelation(pieces) ==
  \/ Len(pieces) > PieceBound
  \/ LET mask == MasksOf(pieces)
     IN  \/ \E x, y \in DOMAIN mask :
              /\ x[1] # y[1]
              /\ \/ \E s \in 1 .. ScalarBound : Multiple(s, mask[x]) \in UpToSign(mask[y])
                 \/ PairOffset(mask[x], mask[y])
         \/ CrossRelation(mask, CoefficientBound, 2 .. SmallSupportBound)
         \/ CrossRelation(mask, 1, SmallSupportBound + 1 .. UnitSupportBound)
=============================================================================
