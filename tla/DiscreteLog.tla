----------------------------- MODULE DiscreteLog -----------------------------
(***************************************************************************)
(* The bounded discrete logarithms of bsgs.rs, as they are searched for.   *)
(* A point is given; recover_bounded_complete walks its giant rows chunk   *)
(* by chunk, and the three probes of the public key table answer at once.  *)
(* CapsuleAlgebra and MaskScreens say what each must return.               *)
(***************************************************************************)
EXTENDS MaskScreens

CONSTANTS
  LimbBabySteps,   \* BABY_STEPS, the stride of the limb table
  GiantWalkChunk,    \* GIANT_WALK_CHUNK, rows normalised together
  ScreenBound,       \* PUBLIC_RECOVERY_KEY_SCALAR_BOUND, 2^32
  SearchPoints,      \* the points the searches are called with
  SearchBounds       \* and the bounds

\* What the parameters satisfy.
ASSUME LogAssumption ==
  /\ {LimbBabySteps, GiantWalkChunk, ScreenBound} \subseteq Nat \ {0}
  /\ SearchPoints \subseteq Scalars
  /\ SearchBounds \subseteq 1 .. ScreenBound
  /\ 2 * (ScreenBound + 2 * RowWidth) < Order

VARIABLES
  point, limit,   \* the question
  row,            \* the next giant row
  found           \* the first accepted candidate, or Failed

logVars == <<point, limit, row, found>>

----------------------------------------------------------------------------
(* The limb table maps j*G to j.                                           *)

GiantRows(b, width) == (b + width - 1) \div width

RowPoint(i) == Minus(point, Multiple(i * LimbBabySteps, 1))

Accepts(candidate) == candidate < limit

\* What the rows i of a chunk contribute: those at the identity are asked
\* before any other.
Candidates(rows) ==
  LET identity == {i \in rows : RowPoint(i) = Identity}
      hits == {i \in rows \ identity : RowPoint(i) < LimbBabySteps}
      first(S) == IF S = {} THEN {} ELSE {Min({i * LimbBabySteps + RowPoint(i) : i \in S})}
      accepted(S) == {i \in S : Accepts(i * LimbBabySteps + RowPoint(i))}
  IN  IF accepted(identity) # {} THEN first(accepted(identity)) ELSE first(accepted(hits))

LogInit == point \in SearchPoints /\ limit \in SearchBounds /\ row = 0 /\ found = Failed

\* Slip: one giant row fewer.
RowsOneFewer(b) == b \div LimbBabySteps

Rows(b) == GiantRows(b, LimbBabySteps)

\* batched_giant_search_complete: every row is scanned, the first accepted
\* hit is kept.
Chunk ==
  LET next == Min({row + GiantWalkChunk, Rows(limit)})
      new == Candidates(row .. next - 1)
  IN  /\ row < Rows(limit)
      /\ row' = next
      /\ found' = IF found = Failed /\ new # {} THEN CHOOSE v \in new : TRUE ELSE found
      /\ UNCHANGED <<point, limit>>

LogNext == Chunk
LogSpec == LogInit /\ [][LogNext]_logVars

----------------------------------------------------------------------------
(* The public key table maps the x-coordinate of j*G, shared by -j*G, to   *)
(* j in 1 .. PublicBabySteps; row i is the walk point minus i row widths.  *)

BabyOf(p) == XKey(p)               \* the index of a walk point in the table
InTable(p) == BabyOf(p) \in 1 .. PublicBabySteps
WalkPoint(direction, i) == Minus(direction, Multiple(i * RowWidth, 1))

\* Slip: the sign of the offset is not told apart.
RowHitEitherSign(direction, i, b) ==
  LET j == BabyOf(WalkPoint(direction, i)) IN
  InTable(WalkPoint(direction, i)) /\ (i * RowWidth + j < b \/ i * RowWidth - j \in 0 .. b - 1)

\* row_hit_below: the parity of y tells +j from -j.
RowHit(direction, i, b) ==
  LET p == WalkPoint(direction, i)
      v == IF p = BabyOf(p) THEN i * RowWidth + BabyOf(p) ELSE i * RowWidth - BabyOf(p)
  IN  InTable(p) /\ v \in 0 .. b - 1

\* contains_signed_scalar_below
SignedScalarBelow(p, b) ==
  \/ p = Identity
  \/ \E direction \in UpToSign(p) :
       \/ RowHit(direction, 0, b)
       \/ \E i \in 1 .. GiantRows(b, RowWidth) :
            IF WalkPoint(direction, i) = Identity THEN i * RowWidth < b
                                                 ELSE RowHit(direction, i, b)

\* signed_x_hit_below
SignedHit(p, i, b) ==
  InTable(p) /\ (i * RowWidth + BabyOf(p) < b \/ (i > 0 /\ i * RowWidth - BabyOf(p) < b))

\* Slip: the rows on the other side of the point are not probed.
ProbeOneSide(p, b) ==
  \/ p = Identity
  \/ SignedHit(p, 0, b)
  \/ \E i \in 1 .. GiantRows(b, RowWidth) :
       LET w == Minus(p, Multiple(i * RowWidth, 1))
       IN  IF w = Identity THEN i * RowWidth < b ELSE SignedHit(w, i, b)

\* contains_any_signed_scalar_below and its affine form, of one point: both
\* sides of every row.
SignedProbe(p, b) ==
  \/ p = Identity
  \/ SignedHit(p, 0, b)
  \/ \E i \in 1 .. GiantRows(b, RowWidth) :
       \E w \in {Minus(p, Multiple(i * RowWidth, 1)), Plus(p, Multiple(i * RowWidth, 1))} :
         IF w = Identity THEN i * RowWidth < b ELSE SignedHit(w, i, b)

----------------------------------------------------------------------------
\* The scan finds every value below its bound, at whatever row and position
\* of the row, and nothing at or above it, whatever the bound (bsgs.rs,
\* recover_bounded: "BSGS uniqueness ... gives at most one in-range hit, so the
\* last giant row's over-cover is rejected").
RecoversBelowBound == row = Rows(limit) => found = RecoverBounded(point, limit)

\* The exact probe answers exactly: no value at the seams of two rows or past
\* the last one is missed or wrongly taken (test
\* public_recovery_key_scalar_window_boundary).
KeyScreenExact == SignedScalarBelow(point, limit) = SignedBelow(point, limit)

\* The folded probe of the relation scans misses nothing below the bound.  It
\* answers yes for some values at or above the bound too: exactly those of
\* ProbedBelow, so the screens refuse a little more than they say.
ProbeMissesNothing ==
  /\ SignedBelow(point, limit) => SignedProbe(point, limit)
  /\ SignedProbe(point, limit) = ProbedBelow(point, limit)

\* The three searches.
SearchesAreComplete == RecoversBelowBound /\ KeyScreenExact /\ ProbeMissesNothing
=============================================================================
