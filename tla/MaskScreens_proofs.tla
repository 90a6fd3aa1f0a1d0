------------------------- MODULE MaskScreens_proofs -------------------------
(***************************************************************************)
(* The mask screens, for any pieces and any bounds.  First what they are   *)
(* for in the life of a case: what binds would have verified, and what was *)
(* sealed here and verified binds.  Then how they are computed: the table  *)
(* searches of bsgs.rs and the relation searches of assembly.rs answer     *)
(* like the relations that MaskScreens defines.                            *)
(***************************************************************************)
EXTENDS CaseLifecycle, DiscreteLog, MaskSearch, PedersenScreen, RosterScreens, CapsuleAlgebra_proofs

IInv ==
  /\ \E S : cores \in Seq(S)
  /\ ~foreign => \A h \in DOMAIN cores : ~DegenerateMask(cores[h].e)
  /\ verified # None => /\ CaseVerifies(verified.cores, verified.commitment)
                        /\ verified.cores = cores
  /\ bound # None => BindAccepts(bound.cores, bound.commitment) /\ bound.cores # <<>>

----------------------------------------------------------------------------
\* The whole screen of a capsule includes the basic one of a case piece.
LEMMA BindIsStricter ==
  ASSUME NEW cs, NEW commitment, cs # <<>>, BindAccepts(cs, commitment)
  PROVE  CaseVerifies(cs, commitment)
BY DEF BindAccepts, CaseVerifies, DegenerateMask

\* Sealing draws the masks that it screens.
LEMMA SealedMasks ==
  ASSUME NEW p \in PieceInputs
  PROVE  CoreOf(p).e = p[2]
<1>1. p[2] = [j \in Limbs |-> p[2][j]]
  BY LifecycleAssumption
<1> QED BY <1>1 DEF CoreOf, SealCore

\* The initial states satisfy the inductive invariant.
LEMMA InitIInv == Init => IInv
BY DEF Init, IInv

\* Every step keeps the inductive invariant, action by action.
LEMMA NextIInv == IInv /\ [Next]_vars => IInv'
<1> SUFFICES ASSUME IInv, [Next]_vars PROVE IInv'
  OBVIOUS
<1> USE DEF IInv
<1>1. ASSUME NEW p \in PieceInputs, Bundle(p),
             foreign' \/ (foreign' = foreign /\ SealAccepts(p[2]))
      PROVE  IInv'
  <2>1. PICK S : cores \in Seq(S)
    OBVIOUS
  <2> DEFINE n == Len(cores)  T == S \cup {CoreOf(p)}
  <2>2. cores \in Seq(T) /\ CoreOf(p) \in T
    BY <2>1
  <2> HIDE DEF T
  <2>3. /\ cores' \in Seq(T) /\ n \in Nat
        /\ DOMAIN cores' = 1 .. n + 1 /\ DOMAIN cores = 1 .. n
        /\ cores'[n + 1] = CoreOf(p)
        /\ \A h \in 1 .. n : cores'[h] = cores[h]
    BY <1>1, <2>2 DEF Bundle
  <2>4. ASSUME ~foreign', NEW h \in DOMAIN cores' PROVE ~DegenerateMask(cores'[h].e)
    <3>1. CASE h = n + 1
      BY <1>1, <2>3, <2>4, <3>1, SealedMasks DEF SealAccepts
    <3>2. CASE h \in 1 .. n
      BY <1>1, <2>3, <2>4, <3>2
    <3> QED BY <2>3, <3>1, <3>2
  <2>5. verified' = None /\ bound' = bound
    BY <1>1 DEF Bundle
  <2> QED BY <2>3, <2>4, <2>5
<1>2. ASSUME NEW p \in PieceInputs, BundleSealed(p) \/ BundleForeign(p) PROVE IInv'
  BY <1>1, <1>2 DEF BundleSealed, BundleForeign
<1>3. ASSUME NEW commitment, Verify(commitment) PROVE IInv'
  BY <1>3 DEF Verify, Token
<1>4. ASSUME Strip \/ Decode PROVE IInv'
  BY <1>4 DEF Strip, Decode
<1>5. ASSUME NEW commitment, Bind(commitment) PROVE IInv'
  BY <1>5 DEF Bind, Token
<1>6. CASE UNCHANGED vars
  BY <1>6 DEF vars
<1> QED BY <1>2, <1>3, <1>4, <1>5, <1>6 DEF Next

\* The inductive invariant holds in every reachable state; the properties
\* below follow from it.
THEOREM Invariance == Spec => []IInv
BY InitIInv, NextIInv, PTL DEF Spec

----------------------------------------------------------------------------
\* StrippedCase::bind accepts no case that Case::verify would refuse.
THEOREM NoWiderBind == Spec => []BoundWouldVerify
<1>1. IInv => BoundWouldVerify
  BY BindIsStricter DEF IInv, BoundWouldVerify
<1> QED BY <1>1, Invariance, PTL

\* Cases made of pieces from Capsule::seal survive stripping.
THEOREM SealedCasesBind == Spec => []SealedCaseBinds
<1>1. IInv => SealedCaseBinds
  BY DEF IInv, SealedCaseBinds, CaseVerifies, BindAccepts
<1> QED BY <1>1, Invariance, PTL

----------------------------------------------------------------------------
\* A case that passes the screens has a piece, and no more than they search.
LEMMA ScreenedLength ==
  ASSUME NEW cs \in Seq(Cores), NEW commitment, cs # <<>>,
         CaseVerifies(cs, commitment) \/ BindAccepts(cs, commitment)
  PROVE  Len(cs) \in 1 .. PieceBound
<1>1. ~(Len(Masks(cs)) > PieceBound)
  BY DEF CaseVerifies, BindAccepts, CrossPieceRelation
<1>2. DOMAIN Masks(cs) = 1 .. Len(cs) /\ Len(cs) \in Nat
  BY DEF Masks
<1>3. Len(Masks(cs)) = Len(cs)
  BY <1>2 DEF Masks
<1>4. Len(cs) # 0 /\ PieceBound \in Nat
  BY ScreenAssumption
<1>5. PICK n \in Nat : n = Len(cs)
  BY <1>2
<1>6. ~(n > PieceBound) /\ n # 0
  BY <1>1, <1>3, <1>4, <1>5
<1> QED BY <1>4, <1>5, <1>6

\* The types, with the fact that a verified token covers what is bundled.
TInv == TypeOK /\ IInv

\* The initial states have these types.
LEMMA InitTInv == Init => TInv
<1> SUFFICES ASSUME Init PROVE TypeOK
  BY InitIInv DEF TInv
<1>1. <<>> \in Seq(Cores) /\ Len(<<>>) = 0
  OBVIOUS
<1>2. MaxPieces \in Nat /\ CasePieceCap \in Nat
  BY LifecycleAssumption, CaseCapAssumption
<1>3. Len(cores) <= MaxPieces /\ Len(stripped) <= CasePieceCap
  BY <1>1, <1>2 DEF Init
<1>4. {verified, bound} \ {None} = {}
  BY DEF Init
<1> QED BY <1>1, <1>3, <1>4 DEF Init, TypeOK

\* Every step keeps them: tokens are only made of screened cases.
LEMMA NextTInv == TInv /\ [Next]_vars => TInv'
<1> SUFFICES ASSUME TInv, [Next]_vars PROVE TypeOK'
  BY NextIInv DEF TInv
<1> USE DEF TypeOK
<1> TypeOK
  BY DEF TInv
<1>1. ASSUME NEW p \in PieceInputs, BundleSealed(p) \/ BundleForeign(p) PROVE TypeOK'
  <2>1. CoreOf(p) \in Cores /\ Bundle(p)
    BY <1>1 DEF Cores, BundleSealed, BundleForeign
  <2>2. cores' \in Seq(Cores) /\ Len(cores') <= MaxPieces
    BY <2>1, LifecycleAssumption DEF Bundle
  <2>3. foreign' \in BOOLEAN
    BY <1>1 DEF BundleSealed, BundleForeign
  <2> QED BY <2>1, <2>2, <2>3 DEF Bundle
<1>2. ASSUME NEW commitment, Verify(commitment) PROVE TypeOK'
  <2>1. cores # <<>> /\ CaseVerifies(cores, commitment)
    BY <1>2 DEF Verify, CaseVerifies
  <2>2. Len(cores) \in 1 .. PieceBound
    BY <2>1, ScreenedLength
  <2>3. verified'.cores = cores
    BY <1>2 DEF Verify, Token
  <2> QED BY <1>2, <2>2, <2>3 DEF Verify
<1>3. ASSUME Strip PROVE TypeOK'
  <2>1. verified.cores = cores
    BY <1>3 DEF Strip, TInv, IInv
  <2> QED BY <1>3, <2>1, CaseCapAssumption DEF Strip, MayStrip
<1>4. ASSUME Decode PROVE TypeOK'
  BY <1>4, CaseCapAssumption DEF Decode, MayStrip
<1>5. ASSUME NEW commitment, Bind(commitment) PROVE TypeOK'
  <2>1. Len(stripped) \in 1 .. PieceBound
    BY <1>5, ScreenedLength DEF Bind
  <2>2. bound'.cores = stripped
    BY <1>5 DEF Bind, Token
  <2> QED BY <1>5, <2>1, <2>2 DEF Bind
<1>6. CASE UNCHANGED vars
  BY <1>6 DEF vars
<1> QED BY <1>1, <1>2, <1>3, <1>4, <1>5, <1>6 DEF Next

\* No token covers an empty case or one larger than the cross-piece screen
\* searches, whatever was decoded or bound before.
THEOREM TypeCorrect == Spec => []TypeOK
<1>1. TInv => TypeOK
  BY DEF TInv
<1> QED BY <1>1, InitTInv, NextTInv, PTL DEF Spec

----------------------------------------------------------------------------
(* Points as logarithms: what the group operations are below the order.    *)

LEMMA ByParts ==
  ASSUME NEW p \in Scalars, NEW t \in Scalars
  PROVE  /\ Minus(p, t) = IF t <= p THEN p - t ELSE p - t + Order
         /\ Plus(p, t) = IF p + t < Order THEN p + t ELSE p + t - Order
<1>1. Order \in Nat \ {0, 1} /\ p \in 0 .. Order - 1 /\ t \in 0 .. Order - 1
  BY AlgebraAssumption DEF Scalars
<1>2. ASSUME NEW x \in 0 .. Order - 1 PROVE (Order * 0 + x) % Order = x /\ Order * 0 + x = x
  BY <1>1, DivisionUnique
<1>3. ASSUME NEW x \in 0 .. Order - 1 PROVE (Order * 1 + x) % Order = x /\ Order * 1 + x = x + Order
  BY <1>1, DivisionUnique
<1>4. ASSUME NEW x \in 0 .. Order - 1 PROVE (Order * (-1) + x) % Order = x /\ Order * (-1) + x = x - Order
  BY <1>1, DivisionUnique
<1>5. ASSUME t <= p PROVE Minus(p, t) = p - t
  <2>1. p - t \in 0 .. Order - 1
    BY <1>1, <1>5
  <2> QED BY <1>2, <1>5, <2>1 DEF Minus
<1>6. ASSUME ~(t <= p) PROVE Minus(p, t) = p - t + Order
  <2>1. p - t + Order \in 0 .. Order - 1 /\ (p - t + Order) - Order = p - t
    BY <1>1, <1>6
  <2> QED BY <1>4, <1>6, <2>1 DEF Minus
<1>7. ASSUME p + t < Order PROVE Plus(p, t) = p + t
  <2>1. p + t \in 0 .. Order - 1
    BY <1>1, <1>7
  <2> QED BY <1>2, <1>7, <2>1 DEF Plus
<1>8. ASSUME ~(p + t < Order) PROVE Plus(p, t) = p + t - Order
  <2>1. p + t - Order \in 0 .. Order - 1 /\ (p + t - Order) + Order = p + t
    BY <1>1, <1>8
  <2> QED BY <1>3, <1>8, <2>1 DEF Plus
<1> QED BY <1>5, <1>6, <1>7, <1>8

LEMMA SignFacts ==
  ASSUME NEW p \in Scalars
  PROVE  /\ Negated(p) = IF p = 0 THEN 0 ELSE Order - p
         /\ Negated(p) \in Scalars /\ Negated(Negated(p)) = p
         /\ UpToSign(p) \subseteq Scalars /\ UpToSign(Negated(p)) = UpToSign(p)
         /\ XKey(p) = IF p <= Negated(p) THEN p ELSE Negated(p)
         /\ XKey(Negated(p)) = XKey(p) /\ XKey(p) \in UpToSign(p)
<1>1. Order \in Nat \ {0, 1} /\ p \in 0 .. Order - 1 /\ 0 \in Scalars
  BY AlgebraAssumption DEF Scalars
<1>2. ASSUME NEW q \in Scalars
      PROVE  Negated(q) = (IF q = 0 THEN 0 ELSE Order - q) /\ Negated(q) \in Scalars
  <2>1. q \in 0 .. Order - 1
    BY DEF Scalars
  <2>2. Minus(0, q) = IF q <= 0 THEN 0 - q ELSE 0 - q + Order
    BY <1>1, ByParts
  <2> QED BY <1>1, <2>1, <2>2 DEF Negated, Scalars
<1>3. Negated(Negated(p)) = p
  BY <1>1, <1>2
<1>4. UpToSign(p) \subseteq Scalars /\ UpToSign(Negated(p)) = UpToSign(p)
  BY <1>2, <1>3 DEF UpToSign
<1>5. ASSUME NEW q \in Scalars PROVE XKey(q) = IF q <= Negated(q) THEN q ELSE Negated(q)
  <2>1. PICK r \in Int : r = Negated(q)
    BY <1>1, <1>2 DEF Scalars
  <2>2. q \in Int
    BY <1>1 DEF Scalars
  <2>3. Min({q, r}) = IF q <= r THEN q ELSE r
    BY <2>1, <2>2 DEF Min
  <2> QED BY <2>1, <2>3 DEF XKey, UpToSign
<1>6. XKey(Negated(p)) = XKey(p)
  <2>1. PICK r \in Int : r = Negated(p)
    BY <1>1, <1>2 DEF Scalars
  <2> QED BY <1>1, <1>2, <1>3, <1>5, <2>1
<1> QED BY <1>2, <1>3, <1>4, <1>5, <1>6 DEF UpToSign

LEMMA SmallMultiple ==
  ASSUME NEW t \in Scalars
  PROVE  Multiple(t, 1) = t
<1>1. t \in Int /\ t * 1 = t
  BY AlgebraAssumption DEF Scalars
<1>2. t % Order = t
  BY <1>1, SameReduces
<1> QED BY <1>1, <1>2 DEF Multiple, Times

\* So many rows of a width reach a bound, and the last one starts below it.
LEMMA RowsReach ==
  ASSUME NEW b \in Nat \ {0}, NEW w \in Nat \ {0}
  PROVE  /\ GiantRows(b, w) \in Nat
         /\ \A i \in Nat : i * w \in Nat /\ (i < GiantRows(b, w) <=> i * w < b)
         /\ \A i \in Nat : i <= GiantRows(b, w) => i * w <= b + w - 1
<1> DEFINE g == GiantRows(b, w)
<1>1. g \in Nat /\ \E r \in 0 .. w - 1 : b + w - 1 = w * g + r
  <2>1. b + w - 1 \in Nat
    OBVIOUS
  <2>2. \A x \in Nat : x \div w \in Nat /\ x % w \in 0 .. w - 1 /\ x = w * (x \div w) + (x % w)
    OBVIOUS
  <2> QED BY <2>1, <2>2 DEF GiantRows
<1>2. PICK r \in 0 .. w - 1 : b + w - 1 = w * g + r
  BY <1>1
<1> HIDE DEF g
<1>3. ASSUME NEW i \in Nat PROVE i * w \in Nat /\ (i < g <=> i * w < b)
  <2>1. PICK x \in Nat, y \in Nat : x = i * w /\ y = w * g
    BY <1>1
  <2>2. i <= g - 1 => x <= y - w
    <3>1. i <= g - 1 => i * w <= (g - 1) * w
      BY <1>1
    <3>2. (g - 1) * w = w * g - w
      BY <1>1
    <3> QED BY <1>1, <2>1, <3>1, <3>2
  <2>3. i >= g => x >= y
    <3>1. i >= g => i * w >= g * w
      BY <1>1
    <3>2. g * w = w * g
      BY <1>1
    <3> QED BY <1>1, <2>1, <3>1, <3>2
  <2>4. b + w - 1 = y + r
    BY <1>2, <2>1
  <2>5. i < g <=> x < b
    BY <1>1, <2>1, <2>2, <2>3, <2>4
  <2> QED BY <2>1, <2>5
<1>4. ASSUME NEW i \in Nat, i <= g PROVE i * w <= b + w - 1
  <2>1. i * w <= g * w /\ g * w = w * g /\ i * w \in Int /\ g * w \in Int
    BY <1>1, <1>4
  <2> QED BY <1>1, <1>2, <2>1
<1> QED BY <1>1, <1>3, <1>4 DEF g

----------------------------------------------------------------------------
(* The limb search.  A candidate of row i is point itself or exceeds every *)
(* bound, and point is a candidate of its own row alone.                   *)

LEMMA LogConstants ==
  /\ Order \in Nat \ {0, 1} /\ LimbBabySteps \in Nat \ {0} /\ GiantWalkChunk \in Nat \ {0}
  /\ PublicBabySteps \in Nat \ {0} /\ RowWidth \in Nat \ {0} /\ RowWidth = PublicBabySteps + PublicBabySteps
  /\ \A b \in SearchBounds : b \in Nat \ {0} /\ b + b + 4 * RowWidth < Order
  /\ \A x \in Scalars : x \in Nat /\ x < Order
<1>1. Order \in Nat \ {0, 1} /\ PublicBabySteps \in Nat \ {0}
  BY AlgebraAssumption, ScreenAssumption
<1>2. RowWidth = PublicBabySteps + PublicBabySteps /\ RowWidth \in Nat \ {0}
  BY <1>1 DEF RowWidth
<1>3. LimbBabySteps \in Nat \ {0} /\ GiantWalkChunk \in Nat \ {0} /\ ScreenBound \in Nat \ {0}
  BY LogAssumption
<1>4. SearchBounds \subseteq 1 .. ScreenBound /\ 2 * (ScreenBound + 2 * RowWidth) < Order
  BY LogAssumption
<1>5. ASSUME NEW b \in SearchBounds PROVE b \in Nat \ {0} /\ b + b + 4 * RowWidth < Order
  BY <1>1, <1>2, <1>3, <1>4
<1> QED BY <1>1, <1>2, <1>3, <1>5 DEF Scalars

LEMMA CandidatesAre ==
  ASSUME point \in Scalars, limit \in SearchBounds, NEW rows, rows \subseteq 0 .. Rows(limit) - 1
  PROVE  Candidates(rows)
           = IF point < limit /\ point \div LimbBabySteps \in rows THEN {point} ELSE {}
<1> DEFINE W == LimbBabySteps
           own == point \div W
           identity == {i \in rows : RowPoint(i) = Identity}
           hits == {i \in rows \ identity : RowPoint(i) < W}
           value(i) == i * W + RowPoint(i)
           accepted(S) == {i \in S : Accepts(value(i))}
           first(S) == IF S = {} THEN {} ELSE {Min({value(i) : i \in S})}
<1>1. /\ Order \in Nat \ {0, 1} /\ W \in Nat \ {0} /\ limit \in Nat \ {0} /\ limit < Order
      /\ point \in Nat /\ point < Order
  BY LogConstants
<1>2. ASSUME NEW i \in rows
      PROVE  /\ i \in Nat /\ i * W \in Nat /\ i * W < limit
             /\ RowPoint(i) = IF i * W <= point THEN point - i * W ELSE point - i * W + Order
  <2>1. Rows(limit) \in Nat /\ i \in Nat /\ i < Rows(limit)
    BY <1>1, RowsReach DEF Rows
  <2>2. i * W \in Nat /\ i * W < limit
    BY <1>1, <2>1, RowsReach DEF Rows
  <2>3. i * W \in Scalars
    BY <1>1, <2>2 DEF Scalars
  <2>4. RowPoint(i) = Minus(point, i * W)
    BY <2>3, SmallMultiple DEF RowPoint
  <2> QED BY <2>1, <2>2, <2>3, <2>4, ByParts
<1>3. own \in Nat /\ own * W <= point /\ point < own * W + W /\ own * W \in Nat
  <2>1. own \in Nat /\ (point % W) \in 0 .. W - 1 /\ point = W * own + (point % W)
    BY <1>1
  <2>2. W * own = own * W /\ own * W \in Nat
    BY <1>1, <2>1
  <2> QED BY <1>1, <2>1, <2>2
<1> HIDE DEF own
<1>4. ASSUME NEW i \in rows, RowPoint(i) = Identity \/ RowPoint(i) < W, value(i) < limit
      PROVE  value(i) = point /\ i = own
  <2>1. PICK t \in Nat : t = i * W
    BY <1>2
  <2>2. t <= point
    BY <1>1, <1>2, <1>4, <2>1 DEF Identity
  <2>3. RowPoint(i) = point - t /\ value(i) = point /\ point < t + W
    BY <1>1, <1>2, <1>4, <2>1, <2>2 DEF Identity
  <2>4. i = own
    <3>1. ASSUME NEW x \in Nat, NEW y \in Nat, x < y PROVE x * W + W <= y * W
      <4>1. (x + 1) * W <= y * W /\ (x + 1) * W = x * W + W
        BY <1>1, <3>1
      <4> QED BY <4>1
    <3>2. PICK u \in Nat : u = own * W
      BY <1>3
    <3>3. ~(i < own)
      <4>1. i < own => t + W <= u
        BY <1>2, <1>3, <2>1, <3>1, <3>2
      <4> QED BY <1>1, <1>3, <2>3, <3>2, <4>1
    <3>4. ~(own < i)
      <4>1. own < i => u + W <= t
        BY <1>2, <1>3, <2>1, <3>1, <3>2
      <4> QED BY <1>1, <1>3, <2>2, <3>2, <4>1
    <3> QED BY <1>2, <1>3, <3>3, <3>4
  <2> QED BY <2>3, <2>4
<1>5. ASSUME point < limit, own \in rows
      PROVE  own \in accepted(identity) \cup accepted(hits) /\ value(own) = point
  <2>1. RowPoint(own) = point - own * W /\ value(own) = point /\ RowPoint(own) < W
    BY <1>1, <1>2, <1>3, <1>5
  <2> QED BY <1>5, <2>1 DEF Accepts
<1>6. ASSUME NEW S, S = identity \/ S = hits
      PROVE  accepted(S) \subseteq {own} /\ first(accepted(S)) = IF accepted(S) = {} THEN {} ELSE {point}
  <2>1. ASSUME NEW i \in accepted(S) PROVE i = own /\ value(i) = point
    <3>1. i \in rows /\ value(i) < limit /\ (RowPoint(i) = Identity \/ RowPoint(i) < W)
      BY <1>6 DEF Accepts
    <3> QED BY <1>4, <3>1
  <2> HIDE DEF accepted, value
  <2>2. accepted(S) # {} => {value(i) : i \in accepted(S)} = {point}
    BY <2>1
  <2>3. Min({point}) = point
    BY <1>1 DEF Min
  <2> QED BY <2>1, <2>2, <2>3
<1>7. Candidates(rows)
        = IF accepted(identity) # {} THEN first(accepted(identity)) ELSE first(accepted(hits))
  BY DEF Candidates
<1>8. accepted(identity) # {} \/ accepted(hits) # {} <=> point < limit /\ own \in rows
  <2>1. ASSUME NEW S, S = identity \/ S = hits, accepted(S) # {}
        PROVE  point < limit /\ own \in rows
    <3>1. PICK i \in accepted(S) : TRUE
      BY <2>1
    <3>2. i \in rows /\ value(i) < limit /\ (RowPoint(i) = Identity \/ RowPoint(i) < W)
      BY <2>1, <3>1 DEF Accepts
    <3> QED BY <1>4, <3>2
  <2> QED BY <1>5, <2>1
<1>9. first(accepted(identity)) = (IF accepted(identity) = {} THEN {} ELSE {point})
      /\ first(accepted(hits)) = (IF accepted(hits) = {} THEN {} ELSE {point})
  BY <1>6
<1> HIDE DEF identity, hits, accepted, first
<1> QED BY <1>7, <1>8, <1>9 DEF own

WalkInv ==
  /\ point \in Scalars /\ limit \in SearchBounds
  /\ row \in Nat /\ row <= Rows(limit)
  /\ found = IF point < limit /\ point \div LimbBabySteps < row THEN point ELSE Failed

LEMMA WalkStep == WalkInv /\ [LogNext]_logVars => WalkInv'
<1> SUFFICES ASSUME WalkInv, [LogNext]_logVars PROVE WalkInv'
  OBVIOUS
<1>1. CASE UNCHANGED logVars
  BY <1>1 DEF WalkInv, logVars
<1>2. CASE Chunk
  <2> DEFINE total == Rows(limit)
             next == Min({row + GiantWalkChunk, total})
             new == Candidates(row .. next - 1)
             own == point \div LimbBabySteps
  <2>1. total \in Nat /\ GiantWalkChunk \in Nat \ {0} /\ LimbBabySteps \in Nat \ {0} /\ point \in Nat
    BY LogConstants, RowsReach DEF WalkInv, Rows
  <2>2. row \in Nat /\ row < total /\ row' = next /\ UNCHANGED <<point, limit>>
    BY <1>2 DEF Chunk, WalkInv
  <2>3. next \in Nat /\ row < next /\ next <= total
    <3>1. PICK s \in Nat : s = row + GiantWalkChunk
      BY <2>1, <2>2
    <3>2. Min({s, total}) = IF s <= total THEN s ELSE total
      BY <2>1, <3>1 DEF Min
    <3> QED BY <2>1, <2>2, <3>1, <3>2
  <2> HIDE DEF next, total
  <2>4. new = IF point < limit /\ own \in row .. next - 1 THEN {point} ELSE {}
    <3>1. row .. next - 1 \subseteq 0 .. Rows(limit) - 1
      BY <2>1, <2>2, <2>3 DEF total
    <3> QED BY <3>1, CandidatesAre DEF WalkInv
  <2>5. found' = IF found = Failed /\ new # {} THEN CHOOSE v \in new : TRUE ELSE found
    BY <1>2 DEF Chunk, next, total
  <2>6. own \in Nat /\ point # Failed
    BY <2>1 DEF Failed
  <2> HIDE DEF new
  <2>7. found' = IF point < limit /\ own < next THEN point ELSE Failed
    <3>1. found = IF point < limit /\ own < row THEN point ELSE Failed
      BY DEF WalkInv
    <3> HIDE DEF own
    <3>2. own \in row .. next - 1 <=> ~(own < row) /\ own < next
      BY <2>2, <2>3, <2>6
    <3>3. own < row => own < next
      BY <2>2, <2>3, <2>6
    <3>4. new = {point} => (CHOOSE v \in new : TRUE) = point
      OBVIOUS
    <3> QED BY <2>4, <2>5, <2>6, <3>1, <3>2, <3>3, <3>4
  <2> QED BY <2>2, <2>3, <2>7 DEF WalkInv, total
<1> QED BY <1>1, <1>2 DEF LogNext

LEMMA WalkFinds == WalkInv => RecoversBelowBound
<1> SUFFICES ASSUME WalkInv, row = Rows(limit) PROVE found = RecoverBounded(point, limit)
  BY DEF RecoversBelowBound
<1>1. LimbBabySteps \in Nat \ {0} /\ point \in Nat /\ limit \in Nat \ {0}
  BY LogConstants DEF WalkInv
<1> DEFINE own == point \div LimbBabySteps
<1>2. own \in Nat /\ own * LimbBabySteps <= point /\ own * LimbBabySteps \in Nat
  <2>1. own \in Nat /\ (point % LimbBabySteps) \in Nat /\ point = LimbBabySteps * own + (point % LimbBabySteps)
    BY <1>1
  <2>2. LimbBabySteps * own = own * LimbBabySteps /\ own * LimbBabySteps \in Nat
    BY <1>1, <2>1
  <2> QED BY <1>1, <2>1, <2>2
<1> HIDE DEF own
<1>3. point < limit => own < row
  <2>1. point < limit => own * LimbBabySteps < limit
    BY <1>1, <1>2
  <2>2. own < GiantRows(limit, LimbBabySteps) <=> own * LimbBabySteps < limit
    BY <1>1, <1>2, RowsReach
  <2> QED BY <2>1, <2>2 DEF Rows
<1> QED BY <1>3 DEF WalkInv, RecoverBounded, own
----------------------------------------------------------------------------
(* The probes of the public key table.  Row i is i row widths from the     *)
(* identity; half a width to either side is in the table.                  *)

Half == PublicBabySteps

\* The offset of a point from a row, as a walk point.
Offset(d, t) == Minus(d, Multiple(t, 1))

\* Where a point is once t is taken from it, t a row's distance.
LEMMA OffsetFacts ==
  ASSUME NEW d \in Scalars, NEW b \in SearchBounds, NEW t \in Nat, t <= b + RowWidth
  PROVE  /\ Offset(d, t) = IF t <= d THEN d - t ELSE d - t + Order
         /\ Offset(d, t) \in Scalars
         /\ Plus(Negated(d), Multiple(t, 1)) = Negated(Offset(d, t))
         /\ d < t + Half + 1 /\ t < d + Half + 1 =>
              XKey(Offset(d, t)) = (IF t <= d THEN d - t ELSE t - d)
         /\ RowWidth <= t /\ XKey(Offset(d, t)) <= Half =>
              \/ t <= d /\ d = t + XKey(Offset(d, t))
              \/ d < t /\ d = t - XKey(Offset(d, t))
         /\ (Offset(d, t) = XKey(Offset(d, t)) /\ XKey(Offset(d, t)) <= Half) => t <= d
         /\ d < t /\ t < d + Half + 1 => Offset(d, t) # XKey(Offset(d, t))
<1>1. /\ Order \in Nat \ {0, 1} /\ Half \in Nat \ {0} /\ RowWidth = Half + Half
      /\ b \in Nat \ {0} /\ b + b + 4 * RowWidth < Order /\ d \in Nat /\ d < Order
  BY LogConstants DEF Half
<1>2. t \in Scalars /\ t + Half + Half < Order
  BY <1>1 DEF Scalars
<1>3. Offset(d, t) = (IF t <= d THEN d - t ELSE d - t + Order)
  BY <1>2, SmallMultiple, ByParts DEF Offset
<1>4. Offset(d, t) \in Scalars
  BY <1>1, <1>2, <1>3 DEF Scalars
<1>5. Plus(Negated(d), Multiple(t, 1)) = Negated(Offset(d, t))
  <2>1. Negated(d) = (IF d = 0 THEN 0 ELSE Order - d) /\ Negated(d) \in Scalars
    BY SignFacts
  <2>2. Negated(Offset(d, t)) = IF Offset(d, t) = 0 THEN 0 ELSE Order - Offset(d, t)
    BY <1>4, SignFacts
  <2>3. Plus(Negated(d), t) = IF Negated(d) + t < Order THEN Negated(d) + t ELSE Negated(d) + t - Order
    BY <1>2, <2>1, ByParts
  <2>4. Multiple(t, 1) = t
    BY <1>2, SmallMultiple
  <2> QED BY <1>1, <1>2, <1>3, <2>1, <2>2, <2>3, <2>4
<1>6. PICK x \in Nat : x = Offset(d, t) /\ x < Order
  BY <1>1, <1>4 DEF Scalars
<1>7. PICK y \in Nat : y = XKey(Offset(d, t)) /\ y = IF x = 0 THEN 0 ELSE IF x <= Order - x THEN x ELSE Order - x
  <2>1. /\ Negated(Offset(d, t)) = IF Offset(d, t) = 0 THEN 0 ELSE Order - Offset(d, t)
        /\ XKey(Offset(d, t)) = IF Offset(d, t) <= Negated(Offset(d, t)) THEN Offset(d, t) ELSE Negated(Offset(d, t))
    BY <1>4, SignFacts
  <2> QED BY <1>1, <1>6, <2>1
<1>8. x = IF t <= d THEN d - t ELSE d - t + Order
  BY <1>3, <1>6
<1>9. d < t + Half + 1 /\ t < d + Half + 1 => y = (IF t <= d THEN d - t ELSE t - d)
  BY <1>1, <1>2, <1>6, <1>7, <1>8
<1>10. RowWidth <= t /\ y <= Half => (t <= d /\ d = t + y) \/ (d < t /\ d = t - y)
  BY <1>1, <1>2, <1>6, <1>7, <1>8
<1>11. x = y /\ y <= Half => t <= d
  BY <1>1, <1>2, <1>6, <1>7, <1>8
<1>12. d < t /\ t < d + Half + 1 => x # y
  BY <1>1, <1>2, <1>6, <1>7, <1>8
<1> QED BY <1>3, <1>4, <1>5, <1>6, <1>7, <1>9, <1>10, <1>11, <1>12
\* A point below a bound is half a width or less from some row's.
LEMMA NearestRow ==
  ASSUME NEW b \in SearchBounds, NEW d \in Nat, d < b
  PROVE  \/ d <= Half
         \/ \E i \in 1 .. GiantRows(b, RowWidth) :
              d < i * RowWidth + Half + 1 /\ i * RowWidth < d + Half + 1
<1>1. /\ Half \in Nat \ {0} /\ RowWidth = Half + Half /\ RowWidth \in Nat \ {0} /\ b \in Nat \ {0}
  BY LogConstants DEF Half
<1> SUFFICES ASSUME Half < d
             PROVE  \E i \in 1 .. GiantRows(b, RowWidth) :
                      d < i * RowWidth + Half + 1 /\ i * RowWidth < d + Half + 1
  BY <1>1
<1> DEFINE x == d + Half
           i == x \div RowWidth
<1>2. x \in Nat /\ RowWidth <= x
  BY <1>1
<1>3. i \in Nat /\ (x % RowWidth) \in 0 .. RowWidth - 1 /\ x = RowWidth * i + (x % RowWidth)
  BY <1>1, <1>2
<1>4. PICK t \in Nat : t = i * RowWidth /\ t = RowWidth * i
  BY <1>1, <1>3
<1> HIDE DEF i
<1>5. t <= x /\ x < t + RowWidth
  BY <1>1, <1>2, <1>3, <1>4
<1>6. i # 0
  BY <1>1, <1>2, <1>4, <1>5
<1>7. i <= GiantRows(b, RowWidth)
  <2> DEFINE g == GiantRows(b, RowWidth)
  <2>1. g \in Nat /\ ~(g < g) /\ \A k \in Nat : k * RowWidth \in Nat /\ (k < g <=> k * RowWidth < b)
    BY <1>1, RowsReach
  <2>2. i - 1 \in Nat /\ (i - 1) * RowWidth = t - RowWidth
    <3>1. (i - 1) * RowWidth = i * RowWidth - RowWidth
      BY <1>1, <1>3
    <3> QED BY <1>3, <1>4, <1>6, <3>1
  <2>3. t - RowWidth < b
    BY <1>1, <1>2, <1>4, <1>5
  <2>4. i - 1 < g
    BY <2>1, <2>2, <2>3
  <2> HIDE DEF g
  <2>5. i <= g
    BY <1>3, <2>1, <2>4
  <2> QED BY <2>5 DEF g
<1>8. i \in 1 .. GiantRows(b, RowWidth)
  <2>1. GiantRows(b, RowWidth) \in Nat
    BY <1>1, RowsReach
  <2> QED BY <1>3, <1>6, <1>7, <2>1
<1>9. d < t + Half + 1 /\ t < d + Half + 1
  BY <1>1, <1>5
<1> QED BY <1>4, <1>8, <1>9

\* The distance of row i, 1 <= i <= GiantRows.
LEMMA RowDistance ==
  ASSUME NEW b \in SearchBounds, NEW i \in 1 .. GiantRows(b, RowWidth)
  PROVE  i * RowWidth \in Nat /\ RowWidth <= i * RowWidth /\ i * RowWidth <= b + RowWidth
<1>1. RowWidth \in Nat \ {0} /\ b \in Nat \ {0}
  BY LogConstants
<1>2. i \in Nat /\ 1 <= i /\ i <= GiantRows(b, RowWidth)
  BY <1>1, RowsReach
<1>3. i * RowWidth \in Nat /\ i * RowWidth <= b + RowWidth - 1
  BY <1>1, <1>2, RowsReach
<1>4. i * RowWidth >= 1 * RowWidth
  BY <1>1, <1>2
<1> QED BY <1>1, <1>3, <1>4

LEMMA KeyScreenAnswers ==
  ASSUME NEW p \in Scalars, NEW b \in SearchBounds
  PROVE  SignedScalarBelow(p, b) = SignedBelow(p, b)
<1>1. /\ Half \in Nat \ {0} /\ RowWidth = Half + Half /\ RowWidth \in Nat \ {0} /\ b \in Nat \ {0}
      /\ b + b + 4 * RowWidth < Order /\ Order \in Nat
      /\ \A x \in Scalars : x \in Nat /\ x < Order
  BY LogConstants DEF Half
<1>0. 0 * RowWidth = 0 /\ 0 \in Nat /\ 0 <= b + RowWidth
  BY <1>1
<1>2. UpToSign(p) \subseteq Scalars /\ p \in UpToSign(p)
  BY SignFacts DEF UpToSign
<1>3. ASSUME NEW d \in Scalars, NEW i \in Nat, NEW t \in Nat, t = i * RowWidth,
             t <= b + RowWidth, RowHit(d, i, b)
      PROVE  d < b
  <2> DEFINE j == XKey(Offset(d, t))
             x == Offset(d, t)
  <2>1. WalkPoint(d, i) = x /\ BabyOf(x) = j
    BY <1>3 DEF WalkPoint, Offset, BabyOf
  <2>2. j \in 1 .. Half /\ (IF x = j THEN t + j ELSE t - j) \in 0 .. b - 1
    BY <1>3, <2>1 DEF RowHit, InTable, Half
  <2>3. /\ x = IF t <= d THEN d - t ELSE d - t + Order
        /\ RowWidth <= t /\ j <= Half => (t <= d /\ d = t + j) \/ (d < t /\ d = t - j)
        /\ x = j /\ j <= Half => t <= d
    BY <1>3, OffsetFacts
  <2> HIDE DEF j, x
  <2>4. d \in Nat
    BY <1>1
  <2>5. CASE x = j
    <3>1. PICK y \in Nat : y = j
      BY <2>2
    <3>2. t + y \in 0 .. b - 1 /\ x = y /\ y <= Half
      BY <1>1, <2>2, <2>5, <3>1
    <3>3. t <= d
      BY <2>3, <3>1, <3>2
    <3>4. y = d - t
      BY <2>3, <3>2, <3>3
    <3> QED BY <1>1, <2>4, <3>2, <3>4
  <2>6. CASE x # j
    <3>1. i # 0
      <4>1. i = 0 => t = 0
        BY <1>0, <1>3
      <4> QED BY <1>1, <2>2, <2>6, <4>1
    <3>2. RowWidth <= t
      <4>1. i >= 1 => i * RowWidth >= 1 * RowWidth
        BY <1>1
      <4> QED BY <1>1, <1>3, <3>1, <4>1
    <3>3. d < t => d = t - j
      BY <2>2, <2>3, <3>2, <2>4
    <3>4. t <= d => x = j
      BY <1>1, <2>2, <2>3, <3>2, <2>4
    <3>5. d < t
      BY <2>4, <2>6, <3>4
    <3>6. t - j \in 0 .. b - 1
      BY <2>2, <2>6
    <3> QED BY <1>1, <3>3, <3>5, <3>6
  <2> QED BY <2>5, <2>6
<1>4. ASSUME SignedScalarBelow(p, b) PROVE SignedBelow(p, b)
  <2>1. CASE p = Identity
    <3>1. 0 < b
      BY <1>1
    <3> QED BY <1>2, <2>1, <3>1 DEF SignedBelow, Identity
  <2>2. ASSUME NEW d \in UpToSign(p), RowHit(d, 0, b) PROVE SignedBelow(p, b)
    <3>1. d < b
      BY <1>0, <1>2, <1>3, <2>2
    <3> QED BY <3>1 DEF SignedBelow
  <2>3. ASSUME NEW d \in UpToSign(p), NEW i \in 1 .. GiantRows(b, RowWidth),
               IF WalkPoint(d, i) = Identity THEN i * RowWidth < b ELSE RowHit(d, i, b)
        PROVE  SignedBelow(p, b)
    <3>1. i \in Nat /\ i * RowWidth \in Nat /\ RowWidth <= i * RowWidth /\ i * RowWidth <= b + RowWidth
      BY <1>1, RowDistance, RowsReach
    <3>2. PICK t \in Nat : t = i * RowWidth
      BY <3>1
    <3>3. CASE RowHit(d, i, b)
      <4>1. d < b
        BY <1>2, <1>3, <3>1, <3>2, <3>3
      <4> QED BY <4>1 DEF SignedBelow
    <3>4. CASE WalkPoint(d, i) = Identity
      <4>1. Offset(d, t) = 0
        BY <3>2, <3>4 DEF WalkPoint, Offset, Identity
      <4>2. Offset(d, t) = IF t <= d THEN d - t ELSE d - t + Order
        BY <1>2, <3>1, <3>2, OffsetFacts
      <4>3. t < b
        BY <2>3, <3>2, <3>4
      <4>4. d < b
        BY <1>1, <1>2, <4>1, <4>2, <4>3
      <4> QED BY <4>4 DEF SignedBelow
    <3> QED BY <2>3, <3>3, <3>4
  <2> QED BY <1>4, <2>1, <2>2, <2>3 DEF SignedScalarBelow
<1>5. ASSUME NEW d \in Scalars, d < b, NEW i \in Nat, NEW t \in Nat, t = i * RowWidth, t <= b + RowWidth,
             d < t + Half + 1, t < d + Half + 1, d # t
      PROVE  RowHit(d, i, b)
  <2> DEFINE j == XKey(Offset(d, t))
             x == Offset(d, t)
  <2>1. WalkPoint(d, i) = x /\ BabyOf(x) = j
    BY <1>5 DEF WalkPoint, Offset, BabyOf
  <2>2. /\ x = IF t <= d THEN d - t ELSE d - t + Order
        /\ j = IF t <= d THEN d - t ELSE t - d
        /\ d < t => x # j
    BY <1>5, OffsetFacts
  <2> HIDE DEF j, x
  <2>3. d \in Nat
    BY <1>1
  <2>4. j \in 1 .. Half
    BY <1>1, <1>5, <2>2, <2>3
  <2>5. (IF x = j THEN t + j ELSE t - j) = d
    BY <1>1, <1>5, <2>2, <2>3
  <2> QED BY <1>1, <1>5, <2>1, <2>3, <2>4, <2>5 DEF RowHit, InTable, Half
<1>6. ASSUME SignedBelow(p, b) PROVE SignedScalarBelow(p, b)
  <2>1. PICK d \in UpToSign(p) : d < b
    BY <1>6 DEF SignedBelow
  <2>2. d \in Scalars /\ d \in Nat
    BY <1>1, <1>2
  <2>3. CASE d = 0
    <3>1. p = 0
      <4>1. p \in {d, Negated(d)} /\ Negated(0) = 0
        BY <2>2, <2>3, SignFacts DEF UpToSign
      <4> QED BY <2>3, <4>1
    <3> QED BY <3>1 DEF SignedScalarBelow, Identity
  <2>4. CASE d # 0 /\ d <= Half
    <3>1. RowHit(d, 0, b)
      BY <1>0, <1>1, <1>5, <2>1, <2>2, <2>4
    <3> QED BY <2>1, <3>1 DEF SignedScalarBelow
  <2>5. CASE ~(d <= Half)
    <3>1. PICK i \in 1 .. GiantRows(b, RowWidth) :
            d < i * RowWidth + Half + 1 /\ i * RowWidth < d + Half + 1
      BY <2>1, <2>2, <2>5, NearestRow
    <3>2. i \in Nat /\ i * RowWidth \in Nat /\ RowWidth <= i * RowWidth /\ i * RowWidth <= b + RowWidth
      BY <1>1, RowDistance, RowsReach
    <3>3. PICK t \in Nat : t = i * RowWidth
      BY <3>2
    <3>4. CASE d = t
      <4>1. Offset(d, t) = IF t <= d THEN d - t ELSE d - t + Order
        BY <2>2, <3>2, <3>3, OffsetFacts
      <4>2. WalkPoint(d, i) = Identity /\ i * RowWidth < b
        BY <2>1, <2>2, <3>3, <3>4, <4>1 DEF WalkPoint, Offset, Identity
      <4> QED BY <2>1, <4>2 DEF SignedScalarBelow
    <3>5. CASE d # t
      <4>1. RowHit(d, i, b)
        BY <1>5, <2>1, <2>2, <3>1, <3>2, <3>3, <3>5
      <4>2. WalkPoint(d, i) # Identity
        <5>1. Offset(d, t) = IF t <= d THEN d - t ELSE d - t + Order
          BY <2>2, <3>2, <3>3, OffsetFacts
        <5>2. Offset(d, t) # 0
          BY <1>1, <2>2, <3>2, <3>3, <3>5, <5>1
        <5> QED BY <3>3, <5>2 DEF WalkPoint, Offset, Identity
      <4> QED BY <2>1, <4>1, <4>2 DEF SignedScalarBelow
    <3> QED BY <3>4, <3>5
  <2> QED BY <1>1, <2>2, <2>3, <2>4, <2>5
<1>7. SignedScalarBelow(p, b) \in BOOLEAN /\ SignedBelow(p, b) \in BOOLEAN
  BY DEF SignedScalarBelow, SignedBelow
<1> QED BY <1>4, <1>6, <1>7

\* Row t takes d for a point below b.
RowTakes(d, t, b) ==
  IF Offset(d, t) = Identity THEN t < b
  ELSE XKey(Offset(d, t)) \in 1 .. Half /\ t - XKey(Offset(d, t)) < b

\* A row takes the points of the row before it that lie below the bound, and
\* those after it whose mirror image does.
LEMMA RowTakesWhat ==
  ASSUME NEW b \in SearchBounds, NEW d \in Scalars, NEW t \in Nat, RowWidth <= t, t <= b + RowWidth
  PROVE  /\ RowTakes(d, t, b) => d < b \/ \E y \in 1 .. Half : d = t + y /\ t - y < b
         /\ d < b /\ d < t + Half + 1 /\ t < d + Half + 1 => RowTakes(d, t, b)
         /\ (\E y \in 1 .. Half : d = t + y /\ t - y < b) => RowTakes(d, t, b)
<1>1. /\ Order \in Nat /\ Half \in Nat \ {0} /\ b \in Nat \ {0} /\ d \in Nat /\ d < Order
      /\ \A x \in Scalars : x \in Nat
  BY LogConstants DEF Half
<1>2. /\ Offset(d, t) = IF t <= d THEN d - t ELSE d - t + Order
      /\ Offset(d, t) \in Scalars
      /\ d < t + Half + 1 /\ t < d + Half + 1 =>
           XKey(Offset(d, t)) = (IF t <= d THEN d - t ELSE t - d)
      /\ XKey(Offset(d, t)) <= Half =>
           (t <= d /\ d = t + XKey(Offset(d, t))) \/ (d < t /\ d = t - XKey(Offset(d, t)))
  BY OffsetFacts
<1>3. PICK x \in Nat : x = Offset(d, t)
  BY <1>1, <1>2
<1>4. x = 0 <=> d = t
  <2>1. t < Order
    <3>1. b + b + 4 * RowWidth < Order /\ RowWidth \in Nat
      BY LogConstants
    <3> QED BY <1>1, <3>1
  <2> QED BY <1>1, <1>2, <1>3, <2>1
<1>5. RowTakes(d, t, b) = IF d = t THEN t < b ELSE XKey(Offset(d, t)) \in 1 .. Half /\ t - XKey(Offset(d, t)) < b
  BY <1>3, <1>4 DEF RowTakes, Identity
<1>6. ASSUME RowTakes(d, t, b), ~(d < b)
      PROVE  \E y \in 1 .. Half : d = t + y /\ t - y < b
  <2>1. d # t
    BY <1>1, <1>5, <1>6
  <2>2. PICK y \in 1 .. Half : y = XKey(Offset(d, t)) /\ t - y < b
    BY <1>5, <1>6, <2>1
  <2>3. (t <= d /\ d = t + y) \/ (d < t /\ d = t - y)
    BY <1>1, <1>2, <2>2
  <2> QED BY <1>6, <2>2, <2>3
<1>7. ASSUME d < b, d < t + Half + 1, t < d + Half + 1
      PROVE  RowTakes(d, t, b)
  <2>1. XKey(Offset(d, t)) = IF t <= d THEN d - t ELSE t - d
    BY <1>2, <1>7
  <2>2. d # t => XKey(Offset(d, t)) \in 1 .. Half /\ t - XKey(Offset(d, t)) < b
    BY <1>1, <1>7, <2>1
  <2> QED BY <1>5, <1>7, <2>2
<1>8. ASSUME NEW y \in 1 .. Half, d = t + y, t - y < b
      PROVE  RowTakes(d, t, b)
  <2>1. d # t /\ d < t + Half + 1 /\ t < d + Half + 1 /\ t <= d
    BY <1>1, <1>8
  <2>2. XKey(Offset(d, t)) = d - t
    BY <1>2, <2>1
  <2>3. d - t = y
    BY <1>1, <1>8
  <2> QED BY <1>5, <1>8, <2>1, <2>2, <2>3
<1> QED BY <1>6, <1>7, <1>8

\* What the folded probe answers, direction by direction.
LEMMA ProbeByRows ==
  ASSUME NEW p \in Scalars, NEW b \in SearchBounds
  PROVE  SignedProbe(p, b) <=>
           \/ p = Identity
           \/ XKey(p) \in 1 .. Half /\ XKey(p) < b
           \/ \E i \in 1 .. GiantRows(b, RowWidth) : \E d \in UpToSign(p) : RowTakes(d, i * RowWidth, b)
<1>1. /\ Half \in Nat \ {0} /\ RowWidth \in Nat \ {0} /\ b \in Nat \ {0}
      /\ \A x \in Scalars : x \in Nat
  BY LogConstants DEF Half
<1>2. /\ Negated(p) \in Scalars /\ Negated(Negated(p)) = p
      /\ XKey(p) \in Nat
  BY <1>1, SignFacts
<1>3. SignedHit(p, 0, b) <=> XKey(p) \in 1 .. Half /\ XKey(p) < b
  <2>1. PICK y \in Nat : y = XKey(p)
    BY <1>2
  <2>2. 0 * RowWidth = 0 /\ 0 + y = y
    BY <1>1
  <2>3. SignedHit(p, 0, b) <=> y \in 1 .. Half /\ (0 * RowWidth + y < b \/ (0 > 0 /\ 0 * RowWidth - y < b))
    BY <2>1 DEF SignedHit, InTable, BabyOf, Half
  <2> QED BY <2>1, <2>2, <2>3
<1> DEFINE Takes(w, i) == IF w = Identity THEN i * RowWidth < b ELSE SignedHit(w, i, b)
<1>4. ASSUME NEW i \in 1 .. GiantRows(b, RowWidth), NEW d \in Scalars
      PROVE  /\ Takes(Offset(d, i * RowWidth), i) <=> RowTakes(d, i * RowWidth, b)
             /\ Takes(Negated(Offset(d, i * RowWidth)), i) <=> RowTakes(d, i * RowWidth, b)
  <2>1. i \in Nat /\ i > 0 /\ i * RowWidth \in Nat /\ i * RowWidth <= b + RowWidth
    BY <1>1, RowDistance, RowsReach
  <2>2. PICK t \in Nat : t = i * RowWidth /\ t <= b + RowWidth
    BY <2>1
  <2>3. Offset(d, t) \in Scalars
    BY <2>2, OffsetFacts
  <2>4. PICK w \in Scalars : w = Offset(d, t)
    BY <2>3
  <2>5. /\ Negated(w) = IF w = 0 THEN 0 ELSE Order - w
        /\ XKey(Negated(w)) = XKey(w) /\ XKey(w) \in UpToSign(w) /\ UpToSign(w) \subseteq Scalars
    BY SignFacts
  <2>6. Negated(w) = 0 <=> w = 0
    <3>1. w \in Nat /\ Order \in Nat /\ w < Order
      BY LogConstants
    <3> QED BY <2>5, <3>1
  <2>7. PICK y \in Nat : y = XKey(w)
    BY <1>1, <2>5
  <2>8. SignedHit(w, i, b) <=> y \in 1 .. Half /\ t - y < b
    <3>1. SignedHit(w, i, b) <=> y \in 1 .. Half /\ (t + y < b \/ (i > 0 /\ t - y < b))
      BY <2>2, <2>7 DEF SignedHit, InTable, BabyOf, Half
    <3> QED BY <1>1, <2>1, <3>1
  <2>9. SignedHit(Negated(w), i, b) <=> SignedHit(w, i, b)
    BY <2>5 DEF SignedHit, InTable, BabyOf
  <2> QED BY <2>2, <2>4, <2>6, <2>7, <2>8, <2>9 DEF RowTakes, Identity
<1>5. ASSUME NEW i \in 1 .. GiantRows(b, RowWidth)
      PROVE  (\E w \in {Minus(p, Multiple(i * RowWidth, 1)), Plus(p, Multiple(i * RowWidth, 1))} : Takes(w, i))
               <=> \E d \in UpToSign(p) : RowTakes(d, i * RowWidth, b)
  <2>1. i * RowWidth \in Nat /\ i * RowWidth <= b + RowWidth
    BY RowDistance
  <2>2. PICK t \in Nat : t = i * RowWidth /\ t <= b + RowWidth
    BY <2>1
  <2>3. Minus(p, Multiple(t, 1)) = Offset(p, t)
    BY DEF Offset
  <2>4. Plus(p, Multiple(t, 1)) = Negated(Offset(Negated(p), t))
    <3>1. Plus(Negated(Negated(p)), Multiple(t, 1)) = Negated(Offset(Negated(p), t))
      BY <1>2, <2>2, OffsetFacts
    <3> QED BY <1>2, <3>1
  <2>5. Takes(Offset(p, t), i) <=> RowTakes(p, t, b)
    BY <1>4, <2>2
  <2>6. Takes(Negated(Offset(Negated(p), t)), i) <=> RowTakes(Negated(p), t, b)
    BY <1>2, <1>4, <2>2
  <2> HIDE DEF Takes
  <2> QED BY <2>2, <2>3, <2>4, <2>5, <2>6 DEF UpToSign
<1>6. SignedProbe(p, b) <=>
        \/ p = Identity
        \/ SignedHit(p, 0, b)
        \/ \E i \in 1 .. GiantRows(b, RowWidth) :
             \E w \in {Minus(p, Multiple(i * RowWidth, 1)), Plus(p, Multiple(i * RowWidth, 1))} : Takes(w, i)
  BY DEF SignedProbe
<1> HIDE DEF Takes
<1> QED BY <1>3, <1>5, <1>6

\* What stands in the way of an exact probe is the fold of a row.
Folded(d, b) ==
  /\ d \div RowWidth \in 1 .. GiantRows(b, RowWidth)
  /\ d % RowWidth \in 1 .. Half
  /\ RowWidth * (d \div RowWidth) - (d % RowWidth) < b

LEMMA ProbeAnswers ==
  ASSUME NEW p \in Scalars, NEW b \in SearchBounds
  PROVE  SignedProbe(p, b) = ProbedBelow(p, b) /\ (SignedBelow(p, b) => SignedProbe(p, b))
<1>1. /\ Half \in Nat \ {0} /\ RowWidth \in Nat \ {0} /\ RowWidth = Half + Half /\ b \in Nat \ {0}
      /\ b + b + 4 * RowWidth < Order /\ Order \in Nat
      /\ \A x \in Scalars : x \in Nat /\ x < Order
  BY LogConstants DEF Half
<1>2. /\ UpToSign(p) \subseteq Scalars /\ p \in UpToSign(p) /\ XKey(p) \in UpToSign(p)
  BY SignFacts DEF UpToSign
<1>3. ProbedBelow(p, b) <=> \E d \in UpToSign(p) : d < b \/ Folded(d, b)
  BY DEF ProbedBelow, Folded, GiantRows, Half
<1>4. ASSUME NEW i \in 1 .. GiantRows(b, RowWidth)
      PROVE  i \in Nat /\ i * RowWidth \in Nat /\ RowWidth <= i * RowWidth /\ i * RowWidth <= b + RowWidth
             /\ RowWidth * i = i * RowWidth
  <2>1. i \in Nat
    BY <1>1, RowsReach
  <2> QED BY <1>1, <2>1, RowDistance
<1>5. ASSUME NEW i \in 1 .. GiantRows(b, RowWidth), NEW d \in UpToSign(p), RowTakes(d, i * RowWidth, b)
      PROVE  d < b \/ Folded(d, b)
  <2>1. PICK t \in Nat : t = i * RowWidth /\ RowWidth <= t /\ t <= b + RowWidth /\ RowWidth * i = t
    BY <1>4
  <2>2. d < b \/ \E y \in 1 .. Half : d = t + y /\ t - y < b
    BY <1>2, <1>5, <2>1, RowTakesWhat
  <2>3. ASSUME NEW y \in 1 .. Half, d = t + y, t - y < b PROVE Folded(d, b)
    <3>1. y \in 0 .. RowWidth - 1
      BY <1>1
    <3>2. (RowWidth * i + y) \div RowWidth = i /\ (RowWidth * i + y) % RowWidth = y
      <4>1. RowWidth \in Nat \ {0} /\ i \in Int
        BY <1>1, <1>4
      <4> QED BY <3>1, <4>1, DivisionUnique
    <3>3. d \div RowWidth = i /\ d % RowWidth = y
      BY <2>1, <2>3, <3>2
    <3> QED BY <2>1, <2>3, <3>3 DEF Folded
  <2> QED BY <2>2, <2>3
<1>6. ASSUME SignedProbe(p, b) PROVE ProbedBelow(p, b)
  <2>1. CASE p = Identity
    <3>1. p < b
      BY <1>1, <2>1 DEF Identity
    <3> QED BY <1>2, <1>3, <3>1
  <2>2. CASE XKey(p) < b
    BY <1>2, <1>3, <2>2
  <2>3. ASSUME NEW i \in 1 .. GiantRows(b, RowWidth), NEW d \in UpToSign(p), RowTakes(d, i * RowWidth, b)
        PROVE  ProbedBelow(p, b)
    BY <1>3, <1>5, <2>3
  <2> QED BY <1>6, <2>1, <2>2, <2>3, ProbeByRows
<1>7. ASSUME NEW d \in UpToSign(p), d < b PROVE SignedProbe(p, b)
  <2>1. d \in Nat /\ d \in Scalars
    BY <1>1, <1>2
  <2>2. p \in {d, Negated(d)}
    BY SignFacts DEF UpToSign
  <2>3. CASE d = 0
    <3>1. p = 0
      BY <2>1, <2>2, <2>3, SignFacts
    <3> QED BY <3>1 DEF SignedProbe, Identity
  <2>4. CASE d # 0 /\ d <= Half
    <3>1. XKey(p) = XKey(d)
      BY <2>1, <2>2, SignFacts
    <3>2. XKey(d) = IF d <= Negated(d) THEN d ELSE Negated(d)
      BY <2>1, SignFacts
    <3>3. Negated(d) = Order - d
      BY <2>1, <2>4, SignFacts
    <3>4. XKey(p) = d
      BY <1>1, <2>1, <2>4, <3>1, <3>2, <3>3
    <3> QED BY <1>1, <1>7, <2>1, <2>4, <3>4, ProbeByRows
  <2>5. CASE ~(d <= Half)
    <3>1. PICK i \in 1 .. GiantRows(b, RowWidth) :
            d < i * RowWidth + Half + 1 /\ i * RowWidth < d + Half + 1
      BY <1>7, <2>1, <2>5, NearestRow
    <3>2. PICK t \in Nat : t = i * RowWidth /\ RowWidth <= t /\ t <= b + RowWidth
      BY <1>4
    <3>3. RowTakes(d, t, b)
      BY <1>7, <2>1, <3>1, <3>2, RowTakesWhat
    <3> QED BY <3>2, <3>3, ProbeByRows
  <2> QED BY <2>3, <2>4, <2>5
<1>8. ASSUME NEW d \in UpToSign(p), Folded(d, b) PROVE SignedProbe(p, b)
  <2>1. d \in Nat /\ d \in Scalars
    BY <1>1, <1>2
  <2>2. PICK i \in 1 .. GiantRows(b, RowWidth) : i = d \div RowWidth
    BY <1>8 DEF Folded
  <2>3. PICK y \in 1 .. Half : y = d % RowWidth
    BY <1>8 DEF Folded
  <2>4. PICK t \in Nat : t = i * RowWidth /\ RowWidth <= t /\ t <= b + RowWidth /\ RowWidth * i = t
    BY <1>4
  <2>5. d = RowWidth * (d \div RowWidth) + (d % RowWidth)
    BY <1>1, <2>1
  <2>6. d = t + y
    BY <2>2, <2>3, <2>4, <2>5
  <2>7. t - y < b
    BY <1>8, <2>2, <2>3, <2>4 DEF Folded
  <2>8. RowTakes(d, t, b)
    BY <2>1, <2>4, <2>6, <2>7, RowTakesWhat
  <2> QED BY <2>4, <2>8, ProbeByRows
<1>9. SignedProbe(p, b) \in BOOLEAN /\ ProbedBelow(p, b) \in BOOLEAN
  BY DEF SignedProbe, ProbedBelow
<1>10. SignedBelow(p, b) => SignedProbe(p, b)
  BY <1>7 DEF SignedBelow
<1>11. ProbedBelow(p, b) => SignedProbe(p, b)
  BY <1>3, <1>7, <1>8
<1> QED BY <1>6, <1>9, <1>10, <1>11

\* The searches find every value below their bound, whatever the point, the
\* bound and the chunks of the walk, and the screens' probe folds just the
\* values that ProbedBelow names (bsgs.rs).
THEOREM SearchesFindTheirBounds == LogSpec => []SearchesAreComplete
<1>1. LogInit => WalkInv
  <2>1. LogInit => point \in Scalars /\ limit \in SearchBounds /\ row = 0 /\ found = Failed
    BY LogAssumption DEF LogInit
  <2>2. ASSUME point \in Scalars, limit \in SearchBounds
        PROVE  Rows(limit) \in Nat /\ point \div LimbBabySteps \in Nat
    <3>1. LimbBabySteps \in Nat \ {0} /\ limit \in Nat \ {0} /\ point \in Nat
      BY <2>2, LogConstants
    <3> QED BY <3>1, RowsReach DEF Rows
  <2> QED BY <2>1, <2>2 DEF WalkInv
<1>2. WalkInv => SearchesAreComplete
  <2>1. WalkInv => point \in Scalars /\ limit \in SearchBounds
    BY DEF WalkInv
  <2>2. WalkInv => KeyScreenExact
    BY <2>1, KeyScreenAnswers DEF KeyScreenExact
  <2>3. WalkInv => ProbeMissesNothing
    BY <2>1, ProbeAnswers DEF ProbeMissesNothing
  <2> QED BY <2>2, <2>3, WalkFinds DEF SearchesAreComplete
<1> QED BY <1>1, <1>2, WalkStep, PTL DEF LogSpec

----------------------------------------------------------------------------
(* The ladder: a stride of the base to either side of the target.          *)

\* A multiple is its factor times its point.
LEMMA MultipleSame ==
  ASSUME NEW s \in Int, NEW p \in Scalars
  PROVE  Multiple(s, p) \in Scalars /\ Same(Multiple(s, p), s * p)
<1>1. p \in Int /\ s % Order \in Int /\ Same(s % Order, s) /\ Scalars \subseteq Int
  <2>1. Scalars \subseteq Int
    BY AlgebraAssumption DEF Scalars
  <2>2. s % Order \in Scalars /\ Same(s % Order, s)
    BY SameReduces
  <2> QED BY <2>1, <2>2
<1>2. Times(s % Order, p) \in Scalars /\ Same(Times(s % Order, p), (s % Order) * p)
  BY <1>1, SameOperations
<1>3. Same(p, p)
  BY <1>1, SameIsEquivalence
<1>4. Same((s % Order) * p, s * p)
  BY <1>1, <1>3, SameArithmetic
<1>5. (s % Order) * p \in Int /\ s * p \in Int
  BY <1>1
<1>6. Times(s % Order, p) \in Int
  BY <1>1, <1>2
<1>7. Same(Times(s % Order, p), s * p)
  BY <1>2, <1>4, <1>5, <1>6, SameIsEquivalence
<1> QED BY <1>2, <1>7 DEF Multiple

\* Points that are equal up to sign.
LEMMA UpToSignSame ==
  ASSUME NEW p \in Scalars, NEW q \in Scalars, NEW x \in Int, Same(q, x)
  PROVE  /\ p \in UpToSign(q) <=> Same(p, x) \/ Same(p, -x)
         /\ p \in UpToSign(q) <=> q \in UpToSign(p)
         /\ p \in UpToSign(q) <=> XKey(p) = XKey(q)
<1>1. p \in Int /\ q \in Int /\ -x \in Int /\ 0 \in Int /\ -q \in Int /\ Scalars \subseteq Int
  BY AlgebraAssumption DEF Scalars
<1>2. /\ Negated(q) \in Scalars /\ Negated(Negated(q)) = q /\ UpToSign(Negated(q)) = UpToSign(q)
      /\ Negated(p) \in Scalars /\ Negated(Negated(p)) = p /\ UpToSign(Negated(p)) = UpToSign(p)
      /\ XKey(Negated(q)) = XKey(q) /\ XKey(Negated(p)) = XKey(p)
      /\ XKey(p) \in UpToSign(p) /\ XKey(q) \in UpToSign(q)
  BY SignFacts
<1>3. Same(Negated(q), -x)
  <2>1. Same(0, 0) /\ Same(Minus(0, q), 0 - x)
    BY <1>1, SameIsEquivalence, SameThrough
  <2>2. 0 - x = -x
    OBVIOUS
  <2> QED BY <2>1, <2>2 DEF Negated
<1>4. p = q <=> Same(p, x)
  <2>1. Same(p, x) => Same(p, q)
    BY <1>1, SameIsEquivalence
  <2> QED BY <2>1, SameScalars
<1>5. p = Negated(q) <=> Same(p, -x)
  <2>1. Negated(q) \in Int
    BY <1>1, <1>2
  <2>2. Same(-x, Negated(q))
    BY <1>1, <1>3, <2>1, SameIsEquivalence
  <2>3. Same(p, -x) => Same(p, Negated(q))
    BY <1>1, <2>1, <2>2, SameIsEquivalence
  <2> QED BY <1>2, <1>3, <2>3, SameScalars
<1>6. p \in UpToSign(q) <=> q \in UpToSign(p)
  BY <1>2 DEF UpToSign
<1>7. p \in UpToSign(q) => XKey(p) = XKey(q)
  BY <1>2 DEF UpToSign
<1>8. XKey(p) = XKey(q) => p \in UpToSign(q)
  BY <1>2 DEF UpToSign
<1> QED BY <1>4, <1>5, <1>6, <1>7, <1>8 DEF UpToSign

\* One step of the ladder: c from the target to either side is b up to sign.
LEMMA LadderStep ==
  ASSUME NEW base \in Scalars, NEW target \in Scalars, NEW b \in Nat, NEW c \in Nat
  PROVE  (\E w \in {Minus(target, Multiple(c, base)), Plus(target, Multiple(c, base))} :
            w \in UpToSign(Multiple(b, base)))
           <=> \E s \in {c + b, Difference(c, b)} : Multiple(s, base) \in UpToSign(target)
<1>1. base \in Int /\ target \in Int /\ Scalars \subseteq Int
  BY AlgebraAssumption DEF Scalars
<1>2. PICK X \in Int : X = c * base
  BY <1>1
<1>3. PICK Y \in Int : Y = b * base
  BY <1>1
<1>4. PICK d \in Nat : d = Difference(c, b)
  <2>1. Difference(c, b) \in Nat
    BY DEF Difference
  <2> QED BY <2>1
<1> DEFINE stride == Multiple(c, base)
           B == Multiple(b, base)
<1>5. /\ stride \in Scalars /\ Same(stride, X) /\ B \in Scalars /\ Same(B, Y)
      /\ Multiple(c + b, base) \in Scalars /\ Same(Multiple(c + b, base), (c + b) * base)
      /\ Multiple(d, base) \in Scalars /\ Same(Multiple(d, base), d * base)
  BY <1>2, <1>3, MultipleSame
<1>6. (c + b) * base = X + Y
  BY <1>1, <1>2, <1>3
<1>7. d * base = X - Y \/ d * base = -(X - Y)
  <2>1. d = c - b \/ d = b - c
    BY <1>4 DEF Difference
  <2>2. (c - b) * base = X - Y /\ (b - c) * base = -(X - Y)
    BY <1>1, <1>2, <1>3
  <2> QED BY <2>1, <2>2
<1> HIDE DEF stride, B
<1>8. /\ Minus(target, stride) \in Scalars /\ Same(Minus(target, stride), target - X)
      /\ Plus(target, stride) \in Scalars /\ Same(Plus(target, stride), target + X)
  <2>1. stride \in Int /\ Same(target, target)
    BY <1>1, <1>5, SameIsEquivalence
  <2> QED BY <1>1, <1>5, <2>1, SameOperations, SameThrough
<1>9. ASSUME NEW x \in Int, NEW y \in Int, NEW z \in Int, NEW w \in Int, x - y = z - w \/ x - y = w - z
      PROVE  Same(x, y) <=> Same(z, w)
  <2>1. ASSUME NEW a1 \in Int, NEW a2 \in Int, NEW a3 \in Int, NEW a4 \in Int, Same(a1, a2),
               a1 - a2 = a3 - a4 \/ a1 - a2 = a4 - a3
        PROVE  Same(a3, a4)
    <3>1. Order \in Int
      BY AlgebraAssumption
    <3>2. PICK q \in Int : a1 = a2 + Order * q
      BY <2>1 DEF Same
    <3>3. PICK r \in Int : r = Order * q
      BY <3>1
    <3>4. a3 = a4 + r \/ a3 = a4 - r
      BY <2>1, <3>2, <3>3
    <3>5. -r = Order * (-q) /\ -q \in Int
      BY <3>1, <3>3
    <3>6. a3 = a4 + Order * q \/ a3 = a4 + Order * (-q)
      BY <3>3, <3>4, <3>5
    <3> QED BY <3>5, <3>6 DEF Same
  <2> QED BY <1>9, <2>1
<1>10. Minus(target, stride) \in UpToSign(B) <=> Same(target - X, Y) \/ Same(target - X, -Y)
  <2>1. Minus(target, stride) \in UpToSign(B) <=> Same(Minus(target, stride), Y) \/ Same(Minus(target, stride), -Y)
    BY <1>5, <1>8, UpToSignSame
  <2>2. Minus(target, stride) \in Int
    BY <1>1, <1>8
  <2>3. target - X \in Int /\ -Y \in Int
    BY <1>1
  <2> QED BY <1>8, <2>1, <2>2, <2>3, SameIsEquivalence
<1>11. Plus(target, stride) \in UpToSign(B) <=> Same(target + X, Y) \/ Same(target + X, -Y)
  <2>1. Plus(target, stride) \in UpToSign(B) <=> Same(Plus(target, stride), Y) \/ Same(Plus(target, stride), -Y)
    BY <1>5, <1>8, UpToSignSame
  <2>2. Plus(target, stride) \in Int
    BY <1>1, <1>8
  <2>3. target + X \in Int /\ -Y \in Int
    BY <1>1
  <2> QED BY <1>8, <2>1, <2>2, <2>3, SameIsEquivalence
<1>12. Multiple(c + b, base) \in UpToSign(target) <=> Same(target, X + Y) \/ Same(target, -(X + Y))
  BY <1>5, <1>6, UpToSignSame
<1>13. Multiple(d, base) \in UpToSign(target) <=> Same(target, X - Y) \/ Same(target, -(X - Y))
  <2>1. PICK D \in Int : D = d * base
    BY <1>1
  <2>2. Multiple(d, base) \in UpToSign(target) <=> Same(target, D) \/ Same(target, -D)
    BY <1>5, <2>1, UpToSignSame
  <2>3. D = X - Y \/ D = -(X - Y)
    BY <1>7, <2>1
  <2>4. -(-(X - Y)) = X - Y
    OBVIOUS
  <2> QED BY <2>2, <2>3, <2>4
<1>14. /\ Same(target - X, Y) <=> Same(target, X + Y)
       /\ Same(target - X, -Y) <=> Same(target, X - Y)
       /\ Same(target + X, Y) <=> Same(target, -(X - Y))
       /\ Same(target + X, -Y) <=> Same(target, -(X + Y))
  <2>1. /\ target - X \in Int /\ target + X \in Int /\ -Y \in Int /\ X + Y \in Int /\ X - Y \in Int
        /\ -(X - Y) \in Int /\ -(X + Y) \in Int
    BY <1>1
  <2>2. Same(target - X, Y) <=> Same(target, X + Y)
    <3>1. (target - X) - Y = target - (X + Y)
      BY <1>1
    <3> QED BY <1>1, <1>9, <2>1, <3>1
  <2>3. Same(target - X, -Y) <=> Same(target, X - Y)
    <3>1. (target - X) - (-Y) = target - (X - Y)
      BY <1>1
    <3> QED BY <1>1, <1>9, <2>1, <3>1
  <2>4. Same(target + X, Y) <=> Same(target, -(X - Y))
    <3>1. (target + X) - Y = target - (-(X - Y))
      BY <1>1
    <3> QED BY <1>1, <1>9, <2>1, <3>1
  <2>5. Same(target + X, -Y) <=> Same(target, -(X + Y))
    <3>1. (target + X) - (-Y) = target - (-(X + Y))
      BY <1>1
    <3> QED BY <1>1, <1>9, <2>1, <3>1
  <2> QED BY <2>2, <2>3, <2>4, <2>5
<1> QED BY <1>4, <1>10, <1>11, <1>12, <1>13, <1>14 DEF stride, B

\* So many baby steps, and so many giant ones, cover the bound.
LEMMA LadderSizes ==
  /\ BabySteps \in 1 .. ScalarBound /\ GiantSteps \in Nat /\ GiantSteps >= 1
  /\ \A s \in 0 .. ScalarBound :
       /\ s \div BabySteps \in 0 .. GiantSteps /\ s % BabySteps \in 0 .. BabySteps - 1
       /\ s = (s \div BabySteps) * BabySteps + (s % BabySteps)
<1>1. ScalarBound \in Nat \ {0}
  BY ScreenAssumption
<1>2. BabySteps \in 1 .. ScalarBound
  <2> DEFINE T == {r \in 1 .. ScalarBound : r * r >= ScalarBound}
  <2>1. ScalarBound \in T
    <3>1. ScalarBound * ScalarBound >= ScalarBound * 1
      BY <1>1
    <3> QED BY <1>1, <3>1
  <2>2. PICK r \in T : \A q \in T : r <= q
    <3>1. T \subseteq Nat /\ T # {}
      BY <2>1
    <3> HIDE DEF T
    <3> QED BY <3>1, NatLeast
  <2>3. ASSUME NEW q \in 1 .. r - 1 PROVE q * q < ScalarBound
    <3>1. q \notin T /\ q \in 1 .. ScalarBound /\ q * q \in Nat
      BY <1>1, <2>2
    <3> QED BY <1>1, <3>1
  <2> QED BY <2>2, <2>3 DEF BabySteps
<1>3. GiantSteps = GiantRows(ScalarBound, BabySteps) /\ BabySteps \in Nat \ {0}
  BY <1>2 DEF GiantSteps, GiantRows
<1>4. /\ GiantSteps \in Nat
      /\ \A i \in Nat : i * BabySteps \in Nat /\ (i < GiantSteps <=> i * BabySteps < ScalarBound)
  BY <1>1, <1>3, RowsReach
<1>5. GiantSteps >= 1
  <2>1. 0 * BabySteps = 0 /\ 0 \in Nat
    BY <1>3
  <2>2. 0 < GiantSteps <=> 0 * BabySteps < ScalarBound
    BY <1>4, <2>1
  <2> QED BY <1>1, <1>4, <2>1, <2>2
<1>6. ASSUME NEW s \in 0 .. ScalarBound
      PROVE  /\ s \div BabySteps \in 0 .. GiantSteps /\ s % BabySteps \in 0 .. BabySteps - 1
             /\ s = (s \div BabySteps) * BabySteps + (s % BabySteps)
  <2> DEFINE i == s \div BabySteps
             r == s % BabySteps
  <2>1. i \in Nat /\ r \in 0 .. BabySteps - 1 /\ s = BabySteps * i + r /\ BabySteps * i = i * BabySteps
    <3>1. s \in Nat
      BY <1>1
    <3>2. i \in Nat /\ r \in 0 .. BabySteps - 1 /\ s = BabySteps * i + r
      BY <1>3, <3>1
    <3> QED BY <1>3, <3>2
  <2> HIDE DEF i, r
  <2>2. i <= GiantSteps
    <3> SUFFICES ASSUME GiantSteps < i PROVE FALSE
      BY <1>4, <2>1
    <3>1. i - 1 \in Nat /\ ~(i - 1 < GiantSteps)
      BY <1>4, <2>1
    <3>2. ~((i - 1) * BabySteps < ScalarBound)
      BY <1>4, <3>1
    <3>3. (i - 1) * BabySteps = i * BabySteps - BabySteps /\ i * BabySteps \in Nat
      BY <1>3, <1>4, <2>1
    <3>4. i * BabySteps <= s
      BY <1>3, <2>1, <3>3
    <3> QED BY <1>1, <1>3, <3>2, <3>3, <3>4
  <2> QED BY <1>4, <2>1, <2>2 DEF i, r
<1> QED BY <1>2, <1>4, <1>5, <1>6

\* The multiples that the ladder takes, one by one.
LEMMA PairwiseAre ==
  ASSUME NEW s
  PROVE  s \in PairwiseScalars <=>
           \E g \in 0 .. GiantSteps, b \in 0 .. BabySteps :
             LadderHit(g, b) /\ s \in {g * BabySteps + b, Difference(g * BabySteps, b)}
<1> DEFINE hits == {q \in (0 .. GiantSteps) \X (0 .. BabySteps) : LadderHit(q[1], q[2])}
           both(r) == {r[1] * BabySteps + r[2], Difference(r[1] * BabySteps, r[2])}
<1>1. PairwiseScalars = UNION {both(r) : r \in hits}
  BY DEF PairwiseScalars
<1>2. ASSUME NEW r \in hits, s \in both(r)
      PROVE  \E g \in 0 .. GiantSteps, b \in 0 .. BabySteps :
               LadderHit(g, b) /\ s \in {g * BabySteps + b, Difference(g * BabySteps, b)}
  <2>1. r[1] \in 0 .. GiantSteps /\ r[2] \in 0 .. BabySteps /\ LadderHit(r[1], r[2])
    OBVIOUS
  <2> QED BY <1>2, <2>1
<1>3. ASSUME NEW g \in 0 .. GiantSteps, NEW b \in 0 .. BabySteps, LadderHit(g, b),
             s \in {g * BabySteps + b, Difference(g * BabySteps, b)}
      PROVE  \E r \in hits : s \in both(r)
  <2>1. <<g, b>> \in hits
    BY <1>3
  <2>2. s \in both(<<g, b>>)
    BY <1>3
  <2> QED BY <2>1, <2>2
<1> HIDE DEF hits, both
<1> QED BY <1>1, <1>2, <1>3

\* What the ladder finds of one base and one target.
LEMMA LadderFindsWhat ==
  ASSUME NEW base \in Scalars, NEW target \in Scalars
  PROVE  /\ LadderFinds(target, base) => \E s \in PairwiseScalars : Multiple(s, base) \in UpToSign(target)
         /\ base # Identity /\ (\E s \in PairwiseScalars : Multiple(s, base) \in UpToSign(target)) =>
              LadderFinds(target, base)
         /\ (\E s \in 1 .. ScalarBound : Multiple(s, base) \in UpToSign(target)) => LadderFinds(target, base)
<1>1. /\ BabySteps \in 1 .. ScalarBound /\ GiantSteps \in Nat /\ GiantSteps >= 1
      /\ ScalarBound \in Nat /\ ScalarBound < Order /\ Order \in Nat \ {0, 1}
      /\ Scalars \subseteq Int
  BY LadderSizes, ScreenAssumption, MaskAssumption, AlgebraAssumption DEF Scalars
<1>2. ASSUME NEW b \in Nat
      PROVE  /\ Multiple(b, base) \in Scalars
             /\ b = 0 \/ base = 0 => Multiple(b, base) = 0
             /\ Multiple(b, base) = 0 /\ b < Order => b = 0 \/ base = 0
  <2>1. Multiple(b, base) \in Scalars /\ Same(Multiple(b, base), b * base)
    BY MultipleSame
  <2>2. 0 \in Scalars /\ base \in Int
    BY <1>1 DEF Scalars
  <2>3. ASSUME b = 0 \/ base = 0 PROVE Multiple(b, base) = 0
    <3>1. b * base = 0
      BY <2>2, <2>3
    <3> QED BY <2>1, <2>2, <3>1, SameScalars
  <2>4. ASSUME Multiple(b, base) = 0, b < Order PROVE b = 0 \/ base = 0
    <3>1. b \in Scalars /\ b % Order = b
      <4>1. b \in Scalars
        BY <1>1, <2>4 DEF Scalars
      <4> QED BY <4>1, SameReduces
    <3> QED BY <2>4, <3>1, NoZeroDivisors DEF Multiple
  <2> QED BY <2>1, <2>3, <2>4
<1>3. ASSUME NEW p \in Scalars PROVE p \in UpToSign(0) <=> p = 0
  <2>1. 0 \in Scalars
    BY <1>1 DEF Scalars
  <2>2. Negated(0) = 0
    BY <2>1, SignFacts
  <2> QED BY <2>2 DEF UpToSign
<1>4. ASSUME NEW g \in 0 .. GiantSteps
      PROVE  /\ g \in Nat /\ g * BabySteps \in Nat
             /\ Walks(target, base, g) = {Minus(target, Multiple(g * BabySteps, base)),
                                          Plus(target, Multiple(g * BabySteps, base))}
             /\ Walks(target, base, g) \subseteq Scalars
  <2>1. g \in Nat /\ g * BabySteps \in Nat
    BY <1>1
  <2>2. Multiple(g * BabySteps, base) \in Int /\ target \in Int
    BY <1>1, <1>2, <2>1
  <2>3. /\ Minus(target, Multiple(g * BabySteps, base)) \in Scalars
        /\ Plus(target, Multiple(g * BabySteps, base)) \in Scalars
    BY <2>2, SameOperations
  <2> QED BY <2>1, <2>3 DEF Walks
<1>5. ASSUME NEW g \in 0 .. GiantSteps, NEW b \in Nat
      PROVE  (\E w \in Walks(target, base, g) : w \in UpToSign(Multiple(b, base)))
               <=> \E s \in {g * BabySteps + b, Difference(g * BabySteps, b)} :
                     Multiple(s, base) \in UpToSign(target)
  <2>1. PICK c \in Nat : c = g * BabySteps
    BY <1>4
  <2> QED BY <1>4, <2>1, LadderStep
<1>6. ASSUME NEW p \in Scalars, NEW q \in Scalars
      PROVE  p \in UpToSign(q) <=> XKey(q) = XKey(p)
  <2>1. q \in Int /\ Same(q, q)
    BY <1>1, SameIsEquivalence
  <2> QED BY <2>1, UpToSignSame
<1>7. ASSUME NEW g \in 0 .. GiantSteps
      PROVE  /\ LadderHit(g, 0) <=> g * BabySteps \in 1 .. ScalarBound
             /\ {g * BabySteps + 0, Difference(g * BabySteps, 0)} = {g * BabySteps}
  <2>1. PICK c \in Nat : c = g * BabySteps
    BY <1>4
  <2>2. c + 0 = c /\ Difference(c, 0) = c
    BY DEF Difference
  <2> QED BY <2>1, <2>2 DEF LadderHit
<1>8. ASSUME LadderFinds(target, base)
      PROVE  \E s \in PairwiseScalars : Multiple(s, base) \in UpToSign(target)
  <2> DEFINE Finds(g, w) ==
        IF w = Identity
          THEN g * BabySteps \in 1 .. ScalarBound
          ELSE \E baby \in 1 .. BabySteps :
                 XKey(Multiple(baby, base)) = XKey(w) /\ LadderHit(g, baby)
  <2>0. PICK g \in 0 .. GiantSteps : \E w \in Walks(target, base, g) : Finds(g, w)
    BY <1>8 DEF LadderFinds, LadderRows
  <2>1. PICK w \in Walks(target, base, g) : Finds(g, w)
    BY <2>0
  <2>2. w \in Scalars
    BY <1>4
  <2>3. \E b \in 0 .. BabySteps : LadderHit(g, b) /\ w \in UpToSign(Multiple(b, base))
    <3>1. CASE w = 0
      <4>1. LadderHit(g, 0)
        BY <1>7, <2>1, <3>1 DEF Identity
      <4>2. w \in UpToSign(Multiple(0, base))
        BY <1>2, <1>3, <2>2, <3>1
      <4> QED BY <1>1, <4>1, <4>2
    <3>2. CASE w # 0
      <4>1. PICK b \in 1 .. BabySteps : XKey(Multiple(b, base)) = XKey(w) /\ LadderHit(g, b)
        BY <2>1, <3>2 DEF Identity
      <4>2. b \in Nat /\ b \in 0 .. BabySteps
        BY <1>1
      <4>3. w \in UpToSign(Multiple(b, base))
        BY <1>2, <1>6, <2>2, <4>1, <4>2
      <4> QED BY <4>1, <4>2, <4>3
    <3> QED BY <3>1, <3>2
  <2>4. PICK b \in 0 .. BabySteps : LadderHit(g, b) /\ w \in UpToSign(Multiple(b, base))
    BY <2>3
  <2>5. b \in Nat
    BY <1>1
  <2>6. PICK s \in {g * BabySteps + b, Difference(g * BabySteps, b)} : Multiple(s, base) \in UpToSign(target)
    BY <1>5, <2>4, <2>5
  <2>7. s \in PairwiseScalars
    BY <2>4, <2>6, PairwiseAre
  <2> QED BY <2>6, <2>7
<1>9. ASSUME base # 0, NEW s \in PairwiseScalars, Multiple(s, base) \in UpToSign(target)
      PROVE  LadderFinds(target, base)
  <2>1. PICK g \in 0 .. GiantSteps, b \in 0 .. BabySteps :
          LadderHit(g, b) /\ s \in {g * BabySteps + b, Difference(g * BabySteps, b)}
    BY <1>9, PairwiseAre
  <2>2. b \in Nat /\ b < Order
    BY <1>1
  <2>3. PICK w \in Walks(target, base, g) : w \in UpToSign(Multiple(b, base))
    BY <1>5, <1>9, <2>1, <2>2
  <2>4. w \in Scalars /\ Multiple(b, base) \in Scalars
    BY <1>2, <1>4, <2>2
  <2>5. w = 0 <=> b = 0
    <3>1. w = 0 => Multiple(b, base) = 0
      <4>1. w \in UpToSign(Multiple(b, base)) <=> Multiple(b, base) \in UpToSign(w)
        BY <1>6, <2>4
      <4> QED BY <1>3, <2>3, <2>4, <4>1
    <3>2. b = 0 => w = 0
      BY <1>2, <1>3, <2>2, <2>3, <2>4
    <3> QED BY <1>2, <1>9, <2>2, <3>1, <3>2
  <2>6. CASE b = 0
    <3>1. g * BabySteps \in 1 .. ScalarBound
      BY <1>7, <2>1, <2>6
    <3> QED BY <2>5, <2>6, <3>1 DEF LadderFinds, LadderRows, Identity
  <2>7. CASE b # 0
    <3>1. b \in 1 .. BabySteps /\ XKey(Multiple(b, base)) = XKey(w)
      <4>1. b \in 1 .. BabySteps
        BY <1>1, <2>7
      <4>2. XKey(Multiple(b, base)) = XKey(w)
        BY <1>6, <2>3, <2>4
      <4> QED BY <4>1, <4>2
    <3> QED BY <2>1, <2>5, <2>7, <3>1 DEF LadderFinds, LadderRows, Identity
  <2> QED BY <2>6, <2>7
<1>10. ASSUME NEW s \in 1 .. ScalarBound, Multiple(s, base) \in UpToSign(target)
       PROVE  LadderFinds(target, base)
  <2>1. CASE base # 0
    <3>1. s \in 0 .. ScalarBound
      BY <1>1
    <3>2. PICK g \in 0 .. GiantSteps, b \in 0 .. BabySteps : s = g * BabySteps + b
      <4>1. /\ s \div BabySteps \in 0 .. GiantSteps /\ s % BabySteps \in 0 .. BabySteps - 1
            /\ s = (s \div BabySteps) * BabySteps + (s % BabySteps)
        BY <3>1, LadderSizes
      <4>2. s % BabySteps \in 0 .. BabySteps
        BY <1>1, <4>1
      <4> QED BY <4>1, <4>2
    <3>3. LadderHit(g, b)
      BY <3>2 DEF LadderHit
    <3>4. s \in PairwiseScalars
      BY <3>2, <3>3, PairwiseAre
    <3> QED BY <1>9, <1>10, <2>1, <3>4
  <2>2. CASE base = 0
    <3>1. s \in Nat /\ 1 \in 0 .. GiantSteps /\ 1 * BabySteps = BabySteps
      BY <1>1
    <3>2. Multiple(s, base) = 0
      BY <1>2, <2>2, <3>1
    <3>3. target = 0
      <4>1. 0 \in Scalars
        BY <1>1 DEF Scalars
      <4> QED BY <1>3, <1>6, <1>10, <3>2, <4>1
    <3>4. Minus(target, Multiple(1 * BabySteps, base)) = 0
      <4>1. BabySteps \in Nat /\ Multiple(BabySteps, base) = 0
        BY <1>1, <1>2, <2>2
      <4>2. 0 % Order = 0 /\ 0 - 0 = 0
        BY <1>1
      <4> QED BY <3>1, <3>3, <4>1, <4>2 DEF Minus
    <3>5. 0 \in Walks(target, base, 1)
      BY <3>4 DEF Walks
    <3>6. 1 * BabySteps \in 1 .. ScalarBound
      BY <1>1, <3>1
    <3> QED BY <3>1, <3>5, <3>6 DEF LadderFinds, LadderRows, Identity
  <2> QED BY <2>1, <2>2
<1> QED BY <1>8, <1>9, <1>10 DEF Identity

\* Of a list of points.
LEMMA LadderAnswers ==
  ASSUME NEW e, NEW n \in Nat, e \in [1 .. n -> Scalars]
  PROVE  /\ ~DegenerateBasic(e) => (ScalarSearch(e) <=> ScalarRelation(e))
         /\ (\E j, k \in DOMAIN e : j # k /\ \E s \in 2 .. ScalarBound : Multiple(s, e[j]) \in UpToSign(e[k]))
              => ScalarSearch(e)
<1>1. ScalarBound \in Nat
  BY ScreenAssumption
<1>2. \A j \in DOMAIN e : e[j] \in Scalars
  OBVIOUS
<1>3. ASSUME NEW j \in DOMAIN e, NEW k \in DOMAIN e
      PROVE  /\ LadderFinds(e[k], e[j]) =>
                  \E s \in PairwiseScalars : Multiple(s, e[j]) \in UpToSign(e[k])
             /\ e[j] # Identity /\ (\E s \in PairwiseScalars : Multiple(s, e[j]) \in UpToSign(e[k])) =>
                  LadderFinds(e[k], e[j])
             /\ (\E s \in 1 .. ScalarBound : Multiple(s, e[j]) \in UpToSign(e[k])) => LadderFinds(e[k], e[j])
  BY <1>2, LadderFindsWhat
<1>4. ~DegenerateBasic(e) => \A j \in DOMAIN e : e[j] # Identity
  BY DEF DegenerateBasic
<1>5. 2 .. ScalarBound \subseteq 1 .. ScalarBound
  BY <1>1
<1> QED BY <1>3, <1>4, <1>5 DEF ScalarSearch, ScalarRelation

----------------------------------------------------------------------------
(* Sums of two halves.                                                     *)

\* A and B are disjoint parts of the domain of f.
Parts(f, D, A, B) ==
  IsFiniteSet(D) /\ f \in [D -> Int] /\ A \in SUBSET D /\ B \in SUBSET D /\ A \cap B = {}

\* A sum over two disjoint parts.
LEMMA SumOfParts ==
  ASSUME NEW f, NEW D, NEW A, NEW B, Parts(f, D, A, B)
  PROVE  /\ SumFunction(Over(f, A)) \in Int /\ SumFunction(Over(f, B)) \in Int
         /\ SumFunction(Over(f, A \cup B)) = SumFunction(Over(f, A)) + SumFunction(Over(f, B))
<1> USE DEF Parts
<1> DEFINE F(u) == SumFunction(Over(f, u))
           Q == {u \in SUBSET B : F(A \cup u) = F(A) + F(u)}
<1>1. ASSUME NEW u \in SUBSET D
      PROVE  F(u) \in Int /\ (u = {} => F(u) = 0) /\ \A x \in u : F(u) = f[x] + F(u \ {x})
  BY SumOverPart
<1>2. IsFiniteSet(B)
  BY FS_Subset
<1> HIDE DEF F
<1>3. {} \in Q
  <2>1. F({}) = 0 /\ F(A) \in Int /\ A \cup {} = A
    BY <1>1
  <2> QED BY <2>1
<1>4. ASSUME NEW u \in SUBSET B, NEW x \in u, u \ {x} \in Q PROVE u \in Q
  <2>1. F(A \cup (u \ {x})) = F(A) + F(u \ {x})
    BY <1>4
  <2>2. (A \cup u) \ {x} = A \cup (u \ {x}) /\ x \in A \cup u /\ A \cup u \in SUBSET D /\ u \in SUBSET D
    BY <1>4
  <2>3. F(A \cup u) = f[x] + F(A \cup (u \ {x})) /\ F(u) = f[x] + F(u \ {x})
    <3>1. PICK v \in SUBSET D : v = A \cup u
      BY <2>2
    <3>2. F(v) = f[x] + F(v \ {x}) /\ v \ {x} = A \cup (u \ {x})
      BY <1>1, <2>2, <3>1
    <3>3. F(u) = f[x] + F(u \ {x})
      BY <1>1, <2>2
    <3> QED BY <3>1, <3>2, <3>3
  <2>4. f[x] \in Int /\ F(A) \in Int /\ F(u \ {x}) \in Int
    BY <1>1, <1>4, <2>2
  <2> QED BY <2>1, <2>3, <2>4
<1>5. B \in Q
  <2> HIDE DEF Q
  <2>1. SUBSET B \subseteq Q
    BY <1>2, <1>3, <1>4, AllSubsets
  <2> QED BY <2>1
<1> QED BY <1>1, <1>5 DEF F

Coefficients == -CoefficientBound .. CoefficientBound

\* A list of points, and how it is cut in two.
Halved(e, n, A, B) ==
  n \in Nat /\ e \in [1 .. n -> Scalars] /\ A \cup B = 1 .. n /\ A \cap B = {}

\* A sum of multiples is a scalar, and vanishes if the sums over the two parts
\* are opposite.
LEMMA HalvesCombine ==
  ASSUME NEW e, NEW n, NEW A, NEW B, Halved(e, n, A, B), NEW c \in [1 .. n -> Int]
  PROVE  /\ Combination(e, A, Over(c, A)) \in Scalars /\ Combination(e, B, Over(c, B)) \in Scalars
         /\ Vanishes(c, e) <=> Combination(e, A, Over(c, A)) = Negated(Combination(e, B, Over(c, B)))
<1> DEFINE D == 1 .. n
           term == [i \in D |-> Multiple(c[i], e[i])]
           a == SumFunction(Over(term, A))
           b == SumFunction(Over(term, B))
<1>0. n \in Nat /\ e \in [D -> Scalars] /\ DOMAIN e = D /\ A \cup B = D /\ A \cap B = {} /\ A \in SUBSET D /\ B \in SUBSET D
  BY DEF Halved
<1>1. IsFiniteSet(D)
  BY <1>0, FS_Interval
<1>2. term \in [D -> Int]
  <2>1. ASSUME NEW i \in D PROVE Multiple(c[i], e[i]) \in Int
    <3>1. c[i] \in Int /\ e[i] \in Scalars
      BY <1>0
    <3>2. Multiple(c[i], e[i]) \in Scalars
      BY <3>1, MultipleSame
    <3>3. Scalars \subseteq Int
      BY AlgebraAssumption DEF Scalars
    <3> QED BY <3>2, <3>3
  <2> QED BY <2>1
<1>3. /\ Over(term, A) = [i \in A |-> Multiple(Over(c, A)[i], e[i])]
      /\ Over(term, B) = [i \in B |-> Multiple(Over(c, B)[i], e[i])]
      /\ Over(term, A \cup B) = [i \in D |-> Multiple(c[i], e[i])]
  BY <1>0 DEF Over
<1>4. /\ Combination(e, A, Over(c, A)) = a % Order /\ Combination(e, B, Over(c, B)) = b % Order
      /\ Vanishes(c, e) <=> SumFunction(Over(term, A \cup B)) % Order = 0
  BY <1>0, <1>3 DEF Combination, SumOver, Vanishes, Identity
<1> HIDE DEF term
<1>5. a \in Int /\ b \in Int /\ SumFunction(Over(term, A \cup B)) = a + b
  <2>1. Parts(term, D, A, B)
    BY <1>0, <1>1, <1>2 DEF Parts
  <2> HIDE DEF D
  <2> QED BY <2>1, SumOfParts
<1> HIDE DEF a, b
<1>6. /\ a % Order \in Scalars /\ b % Order \in Scalars /\ Same(a % Order, a) /\ Same(b % Order, b)
      /\ Same(a, -b) <=> a % Order = (-b) % Order
      /\ (-b) % Order \in Scalars /\ Same((-b) % Order, -b)
  BY <1>5, SameReduces
<1>7. (a + b) % Order = 0 <=> Same(a, -b)
  <2>1. 0 \in Scalars /\ 0 \in Int /\ -b \in Int /\ a + b \in Int
    BY <1>5, AlgebraAssumption DEF Scalars
  <2>2. 0 % Order = 0
    BY <2>1, SameReduces
  <2>3. Same(a + b, 0) <=> (a + b) % Order = 0 % Order
    BY <2>1, SameReduces
  <2>4. Same(b, b) /\ Same(-b, -b)
    BY <1>5, <2>1, SameIsEquivalence
  <2>5. Same(a + b, 0) => Same((a + b) + (-b), 0 + (-b))
    BY <1>5, <2>1, <2>4, SameArithmetic
  <2>6. Same(a, -b) => Same(a + b, (-b) + b)
    BY <1>5, <2>1, <2>4, SameArithmetic
  <2>7. (a + b) + (-b) = a /\ 0 + (-b) = -b /\ (-b) + b = 0
    BY <1>5
  <2> QED BY <2>2, <2>3, <2>5, <2>6, <2>7
<1>8. Negated(b % Order) = (-b) % Order
  <2>0. 0 \in Int /\ Same(0, 0)
    BY SameIsEquivalence
  <2>1. b % Order \in Int /\ 0 - b = -b /\ -b \in Int /\ Scalars \subseteq Int
    <3>1. Scalars \subseteq Int
      BY AlgebraAssumption DEF Scalars
    <3>2. b % Order \in Int
      BY <1>6, <3>1
    <3>3. 0 - b = -b /\ -b \in Int
      BY <1>5
    <3> QED BY <3>1, <3>2, <3>3
  <2>2. Minus(0, b % Order) \in Scalars /\ Same(Minus(0, b % Order), -b)
    <3>1. Same(Minus(0, b % Order), 0 - b)
      BY <1>5, <1>6, <2>0, <2>1, SameThrough
    <3>2. Minus(0, b % Order) \in Scalars
      BY <2>0, <2>1, SameOperations
    <3> QED BY <2>1, <3>1, <3>2
  <2>3. Same(Minus(0, b % Order), (-b) % Order)
    <3>1. Minus(0, b % Order) \in Int /\ (-b) % Order \in Int
      BY <1>6, <2>1, <2>2
    <3>2. Same(-b, (-b) % Order)
      BY <1>6, <2>1, <3>1, SameIsEquivalence
    <3> QED BY <2>1, <2>2, <3>1, <3>2, SameIsEquivalence
  <2> QED BY <1>6, <2>2, <2>3, SameScalars DEF Negated
<1> QED BY <1>4, <1>5, <1>6, <1>7, <1>8

\* The coefficients of either part, counted.
CountsOf(c, n, A, B) ==
  /\ Over(c, A) \in [A -> Coefficients] /\ Over(c, B) \in [B -> Coefficients]
  /\ Cardinality(Support(Over(c, A))) \in 0 .. n /\ Cardinality(Support(Over(c, B))) \in 0 .. n
  /\ Cardinality(Support(c)) = Cardinality(Support(Over(c, A))) + Cardinality(Support(Over(c, B)))

Joined(l, r, n, A, B) ==
  \E c \in [1 .. n -> Coefficients] : Over(c, A) = l /\ Over(c, B) = r

\* Two parts of a list of coefficients, counted and put together.
LEMMA HalvesOfCoefficients ==
  ASSUME NEW n \in Nat, NEW A, NEW B, A \cup B = 1 .. n, A \cap B = {}
  PROVE  /\ \A c \in [1 .. n -> Coefficients] : CountsOf(c, n, A, B)
         /\ \A l \in [A -> Coefficients], r \in [B -> Coefficients] : Joined(l, r, n, A, B)
<1>1. ASSUME NEW c \in [1 .. n -> Coefficients]
      PROVE  /\ Over(c, A) \in [A -> Coefficients] /\ Over(c, B) \in [B -> Coefficients]
             /\ Cardinality(Support(Over(c, A))) \in 0 .. n /\ Cardinality(Support(Over(c, B))) \in 0 .. n
             /\ Cardinality(Support(c)) = Cardinality(Support(Over(c, A))) + Cardinality(Support(Over(c, B)))
  <2> DEFINE S == Support(Over(c, A))
             T == Support(Over(c, B))
  <2>1. Over(c, A) \in [A -> Coefficients] /\ Over(c, B) \in [B -> Coefficients]
    BY DEF Over
  <2>2. S \subseteq 1 .. n /\ T \subseteq 1 .. n /\ Support(c) = S \cup T /\ S \cap T = {}
    BY DEF Over, Support
  <2>3. IsFiniteSet(1 .. n) /\ Cardinality(1 .. n) = n
    BY FS_Interval
  <2> HIDE DEF S, T
  <2>4. IsFiniteSet(S) /\ IsFiniteSet(T) /\ Cardinality(S) <= n /\ Cardinality(T) <= n
    <3>1. IsFiniteSet(S) /\ Cardinality(S) <= Cardinality(1 .. n)
      BY <2>2, <2>3, FS_Subset
    <3>2. IsFiniteSet(T) /\ Cardinality(T) <= Cardinality(1 .. n)
      BY <2>2, <2>3, FS_Subset
    <3> QED BY <2>3, <3>1, <3>2
  <2>5. Cardinality(S) \in Nat /\ Cardinality(T) \in Nat
    BY <2>4, FS_CardinalityType
  <2>6. Cardinality(S \cup T) = Cardinality(S) + Cardinality(T)
    <3>1. Cardinality(S \cup T) = Cardinality(S) + Cardinality(T) - Cardinality(S \cap T)
      BY <2>4, FS_Union
    <3>2. Cardinality(S \cap T) = 0
      BY <2>2, FS_EmptySet
    <3> QED BY <2>5, <3>1, <3>2
  <2> QED BY <2>1, <2>2, <2>4, <2>5, <2>6 DEF S, T
<1>2. ASSUME NEW l \in [A -> Coefficients], NEW r \in [B -> Coefficients]
      PROVE  \E c \in [1 .. n -> Coefficients] : Over(c, A) = l /\ Over(c, B) = r
  <2> DEFINE c == [i \in 1 .. n |-> IF i \in A THEN l[i] ELSE r[i]]
  <2>1. c \in [1 .. n -> Coefficients]
    OBVIOUS
  <2>2. Over(c, A) = l
    BY DEF Over
  <2>3. Over(c, B) = r
    BY DEF Over
  <2> HIDE DEF c
  <2> QED BY <2>1, <2>2, <2>3
<1> QED BY <1>1, <1>2 DEF CountsOf, Joined

\* The two halves find the relations of a list, and only those.
LEMMA HalvesAnswer ==
  ASSUME NEW e \in Seq(Scalars)
  PROVE  CoefficientSearch(e) <=> SmallCoefficientRelation(e)
<1> DEFINE n == Len(e)
           half == Len(e) \div 2
           A == 1 .. half
           B == half + 1 .. Len(e)
           left == HalfSums(e, A)
<1>1. n \in Nat /\ e \in [1 .. n -> Scalars] /\ DOMAIN e = 1 .. n
  OBVIOUS
<1>2. half \in Nat /\ half <= n
  BY <1>1
<1>3. A \cup B = 1 .. n /\ A \cap B = {}
  BY <1>1, <1>2
<1>4. Halved(e, n, A, B)
  BY <1>1, <1>3 DEF Halved
<1>5. Coefficients \subseteq Int
  BY ScreenAssumption DEF Coefficients
<1>6. CoefficientSearch(e) <=>
        \E r \in HalfSums(e, B) :
          /\ \E l \in left : l[1] = Negated(r[1])
          /\ LeftSupport(left, Negated(r[1])) + r[2] >= 2
  BY DEF CoefficientSearch
<1>7. ASSUME NEW S
      PROVE  HalfSums(e, S) = {<<Combination(e, S, c), Cardinality(Support(c))>> : c \in [S -> Coefficients]}
  BY DEF HalfSums, Coefficients
<1>8. SmallCoefficientRelation(e) <=>
        \E c \in [1 .. n -> Coefficients] : Cardinality(Support(c)) >= 2 /\ Vanishes(c, e)
  BY <1>1 DEF SmallCoefficientRelation, Coefficients
<1> HIDE DEF n, half, A, B
<1>9. ASSUME NEW c \in [1 .. n -> Coefficients]
      PROVE  /\ Over(c, A) \in [A -> Coefficients] /\ Over(c, B) \in [B -> Coefficients]
             /\ Cardinality(Support(Over(c, A))) \in 0 .. n /\ Cardinality(Support(Over(c, B))) \in 0 .. n
             /\ Cardinality(Support(c)) = Cardinality(Support(Over(c, A))) + Cardinality(Support(Over(c, B)))
  <2>1. CountsOf(c, n, A, B)
    BY <1>1, <1>3, HalvesOfCoefficients
  <2> QED BY <2>1 DEF CountsOf
<1>10. ASSUME NEW l \in [A -> Coefficients], NEW r \in [B -> Coefficients]
       PROVE  \E c \in [1 .. n -> Coefficients] : Over(c, A) = l /\ Over(c, B) = r
  <2>1. Joined(l, r, n, A, B)
    BY <1>1, <1>3, HalvesOfCoefficients
  <2> QED BY <2>1 DEF Joined
<1>11. ASSUME NEW c \in [1 .. n -> Coefficients]
       PROVE  Vanishes(c, e) <=> Combination(e, A, Over(c, A)) = Negated(Combination(e, B, Over(c, B)))
  <2>1. c \in [1 .. n -> Int]
    BY <1>5
  <2> QED BY <1>4, <2>1, HalvesCombine
<1>12. ASSUME NEW p, NEW l \in left, l[1] = p
       PROVE  /\ LeftSupport(left, p) >= l[2] /\ LeftSupport(left, p) \in 0 .. n
              /\ \E k \in left : k[1] = p /\ k[2] = LeftSupport(left, p)
  <2> DEFINE T == {s[2] : s \in {t \in left : t[1] = p}}
  <2>1. ASSUME NEW s \in left PROVE s[2] \in 0 .. n
    <3>1. PICK c \in [A -> Coefficients] : s = <<Combination(e, A, c), Cardinality(Support(c))>>
      BY <1>7
    <3>2. \E r : r \in [B -> Coefficients]
      <4>1. 0 \in Coefficients
        BY ScreenAssumption DEF Coefficients
      <4>2. [i \in B |-> 0] \in [B -> Coefficients]
        BY <4>1
      <4> QED BY <4>2
    <3>3. PICK d \in [1 .. n -> Coefficients] : Over(d, A) = c
      BY <1>10, <3>2
    <3> QED BY <1>9, <3>1, <3>3
  <2>2. T \subseteq 0 .. n /\ l[2] \in T
    BY <1>12, <2>1
  <2>3. LeftSupport(left, p) = Max(T)
    BY DEF LeftSupport
  <2>4. ASSUME NEW x \in T PROVE \E k \in left : k[1] = p /\ k[2] = x
    OBVIOUS
  <2> HIDE DEF T, left
  <2>5. Max(T) \in T /\ \A x \in T : Max(T) >= x
    BY <1>1, <2>2, MaxIsGreatest
  <2> QED BY <2>2, <2>3, <2>4, <2>5
<1>13. ASSUME CoefficientSearch(e) PROVE SmallCoefficientRelation(e)
  <2>1. PICK r \in HalfSums(e, B), l0 \in left :
          l0[1] = Negated(r[1]) /\ LeftSupport(left, Negated(r[1])) + r[2] >= 2
    BY <1>6, <1>13
  <2>2. PICK l \in left : l[1] = Negated(r[1]) /\ l[2] = LeftSupport(left, Negated(r[1]))
    BY <1>12, <2>1
  <2>3. PICK cr \in [B -> Coefficients] : r = <<Combination(e, B, cr), Cardinality(Support(cr))>>
    BY <1>7
  <2>4. PICK cl \in [A -> Coefficients] : l = <<Combination(e, A, cl), Cardinality(Support(cl))>>
    BY <1>7
  <2>5. PICK c \in [1 .. n -> Coefficients] : Over(c, A) = cl /\ Over(c, B) = cr
    BY <1>10
  <2>6. Cardinality(Support(c)) >= 2
    <3>1. Cardinality(Support(c)) = l[2] + r[2]
      BY <1>9, <2>3, <2>4, <2>5
    <3> QED BY <2>1, <2>2, <3>1
  <2>7. Vanishes(c, e)
    BY <1>11, <2>2, <2>3, <2>4, <2>5
  <2> QED BY <1>8, <2>6, <2>7
<1>14. ASSUME SmallCoefficientRelation(e) PROVE CoefficientSearch(e)
  <2>1. PICK c \in [1 .. n -> Coefficients] : Cardinality(Support(c)) >= 2 /\ Vanishes(c, e)
    BY <1>8, <1>14
  <2> DEFINE l == <<Combination(e, A, Over(c, A)), Cardinality(Support(Over(c, A)))>>
             r == <<Combination(e, B, Over(c, B)), Cardinality(Support(Over(c, B)))>>
  <2>2. l \in left /\ r \in HalfSums(e, B)
    BY <1>7, <1>9
  <2>3. l[1] = Negated(r[1])
    BY <1>11, <2>1
  <2>4. l[2] + r[2] >= 2 /\ l[2] \in Nat /\ r[2] \in Nat
    BY <1>1, <1>9, <2>1
  <2> HIDE DEF l, r
  <2>5. LeftSupport(left, Negated(r[1])) >= l[2] /\ LeftSupport(left, Negated(r[1])) \in 0 .. n
    BY <1>12, <2>2, <2>3
  <2>6. LeftSupport(left, Negated(r[1])) + r[2] >= 2
    BY <1>1, <2>4, <2>5
  <2> QED BY <1>6, <2>2, <2>3, <2>6
<1> QED BY <1>13, <1>14

----------------------------------------------------------------------------
(* Public offsets.                                                         *)

\* What the search asks of two points.
PairFinds(p, q) ==
  \E a, b \in 1 .. CoefficientBound, difference \in BOOLEAN :
    LET lhs == Multiple(a, p)
        rhs == Multiple(IF difference THEN -b ELSE b, q)
    IN  \/ Plus(lhs, rhs) = Identity
        \/ ProbedBelow(Plus(lhs, rhs), OffsetBound(a, b, difference))

\* A sum that is the identity is an offset below any bound, and the multiple
\* by -b is the one by b taken away.
LEMMA PairFindsOffsets ==
  ASSUME NEW p \in Scalars, NEW q \in Scalars
  PROVE  PairFinds(p, q) <=> PairOffset(p, q)
<1>1. /\ CoefficientBound \in Nat \ {0} /\ LimbModulus \in Nat \ {0} /\ Scalars \subseteq Int
      /\ 0 \in Scalars /\ Order \in Nat \ {0, 1}
  BY ScreenAssumption, AlgebraAssumption DEF Scalars
<1>2. ASSUME NEW a \in 1 .. CoefficientBound, NEW b \in 1 .. CoefficientBound
      PROVE  /\ Plus(Multiple(a, p), Multiple(-b, q)) = Minus(Multiple(a, p), Multiple(b, q))
             /\ OffsetBound(a, b, FALSE) = (a + b) * LimbModulus /\ (a + b) * LimbModulus > 0
             /\ OffsetBound(a, b, TRUE) = Max({a, b}) * LimbModulus /\ Max({a, b}) * LimbModulus > 0
  <2>1. a \in Nat \ {0} /\ b \in Nat \ {0} /\ -b \in Int /\ a \in Int /\ b \in Int
    BY <1>1
  <2>2. PICK A \in Int : A = a * p
    BY <1>1, <2>1
  <2>3. PICK B \in Int : B = b * q
    BY <1>1, <2>1
  <2>4. (-b) * q = -B
    BY <1>1, <2>1, <2>3
  <2>5. Multiple(a, p) \in Scalars /\ Same(Multiple(a, p), A)
    BY <2>1, <2>2, MultipleSame
  <2>6. Multiple(b, q) \in Scalars /\ Same(Multiple(b, q), B)
    BY <2>1, <2>3, MultipleSame
  <2>7. Multiple(-b, q) \in Scalars /\ Same(Multiple(-b, q), -B)
    BY <2>1, <2>4, MultipleSame
  <2>8. PICK x \in Scalars, y \in Scalars, z \in Scalars :
          x = Multiple(a, p) /\ y = Multiple(b, q) /\ z = Multiple(-b, q)
    BY <2>5, <2>6, <2>7
  <2>9. x \in Int /\ y \in Int /\ z \in Int /\ -B \in Int /\ A + (-B) = A - B /\ A - B \in Int
    BY <1>1
  <2>10. Plus(x, z) \in Scalars /\ Minus(x, y) \in Scalars
    BY <2>9, SameOperations
  <2>11. Same(Plus(x, z), A + (-B))
    BY <2>5, <2>7, <2>8, <2>9, SameThrough
  <2>12. Same(Minus(x, y), A - B)
    BY <2>5, <2>6, <2>8, <2>9, SameThrough
  <2>13. Plus(x, z) = Minus(x, y)
    <3>1. Plus(x, z) \in Int /\ Minus(x, y) \in Int
      BY <1>1, <2>10
    <3>2. Same(A - B, Minus(x, y))
      BY <2>9, <2>12, <3>1, SameIsEquivalence
    <3>3. Same(Plus(x, z), Minus(x, y))
      BY <2>9, <2>11, <3>1, <3>2, SameIsEquivalence
    <3> QED BY <2>10, <3>3, SameScalars
  <2>14. Max({a, b}) \in Nat \ {0}
    <3>1. Max({a, b}) = IF a >= b THEN a ELSE b
      BY <2>1 DEF Max
    <3> QED BY <2>1, <3>1
  <2>15. (a + b) * LimbModulus > 0 /\ Max({a, b}) * LimbModulus > 0
    <3>1. \A u \in Nat \ {0} : u * LimbModulus > 0
      BY <1>1
    <3>2. a + b \in Nat \ {0}
      BY <2>1
    <3> QED BY <2>14, <3>1, <3>2
  <2> QED BY <2>8, <2>13, <2>15 DEF OffsetBound
<1>3. ASSUME NEW x, x = Identity, NEW below, below > 0 PROVE ProbedBelow(x, below)
  <2>1. x < below
    BY <1>3 DEF Identity
  <2> QED BY <2>1 DEF ProbedBelow, UpToSign
<1>4. PairFinds(p, q) <=>
        \E a, b \in 1 .. CoefficientBound :
          \/ Plus(Multiple(a, p), Multiple(b, q)) = Identity
          \/ ProbedBelow(Plus(Multiple(a, p), Multiple(b, q)), OffsetBound(a, b, FALSE))
          \/ Plus(Multiple(a, p), Multiple(-b, q)) = Identity
          \/ ProbedBelow(Plus(Multiple(a, p), Multiple(-b, q)), OffsetBound(a, b, TRUE))
  BY DEF PairFinds
<1>5. ASSUME NEW a \in 1 .. CoefficientBound, NEW b \in 1 .. CoefficientBound
      PROVE  /\ Plus(Multiple(a, p), Multiple(b, q)) = Identity =>
                  ProbedBelow(Plus(Multiple(a, p), Multiple(b, q)), OffsetBound(a, b, FALSE))
             /\ Plus(Multiple(a, p), Multiple(-b, q)) = Identity =>
                  ProbedBelow(Plus(Multiple(a, p), Multiple(-b, q)), OffsetBound(a, b, TRUE))
  BY <1>2, <1>3
<1>6. PairFinds(p, q) <=>
        \E a, b \in 1 .. CoefficientBound :
          \/ ProbedBelow(Plus(Multiple(a, p), Multiple(b, q)), OffsetBound(a, b, FALSE))
          \/ ProbedBelow(Plus(Multiple(a, p), Multiple(-b, q)), OffsetBound(a, b, TRUE))
  BY <1>4, <1>5
<1> QED BY <1>2, <1>6 DEF PairOffset

\* The offsets of a list of points.
LEMMA OffsetsAnswer ==
  ASSUME NEW e \in Seq(Scalars)
  PROVE  OffsetSearch(e) <=> OffsetRelation(e)
<1> DEFINE masks == [j \in DOMAIN e |-> <<e[j], 1>>]
<1>1. DOMAIN masks = DOMAIN e /\ \A j \in DOMAIN e : masks[j][1] = e[j] /\ e[j] \in Scalars
  OBVIOUS
<1> HIDE DEF masks
<1>2. PairOffsetSearch(masks, FALSE) <=> \E i, k \in DOMAIN masks : i < k /\ PairFinds(masks[i][1], masks[k][1])
  BY DEF PairOffsetSearch, PairFinds
<1>3. PairOffsetSearch(masks, FALSE) <=> \E i, k \in DOMAIN e : i < k /\ PairFinds(e[i], e[k])
  BY <1>1, <1>2
<1>4. \A i, k \in DOMAIN e : PairFinds(e[i], e[k]) <=> PairOffset(e[i], e[k])
  BY <1>1, PairFindsOffsets
<1>5. OffsetSearch(e) <=>
        (\E j \in DOMAIN e : SignedBelow(e[j], LimbModulus)) \/ PairOffsetSearch(masks, FALSE)
  BY DEF OffsetSearch, masks
<1> QED BY <1>3, <1>4, <1>5 DEF OffsetRelation

----------------------------------------------------------------------------
(* The lists of masks that occur.                                          *)

\* The masks of a list of pieces.
LEMMA MasksTyped ==
  ASSUME NEW ps \in Seq(Seq(Scalars))
  PROVE  Flat(ps) \in Seq(Scalars \X Nat) /\ PointsOf(Flat(ps)) \in Seq(Scalars)
<1> DEFINE indexed == [h \in DOMAIN ps |-> [j \in DOMAIN ps[h] |-> <<ps[h][j], h>>]]
<1>1. DOMAIN ps = 1 .. Len(ps) /\ Len(ps) \in Nat /\ \A h \in DOMAIN ps : ps[h] \in Seq(Scalars)
  OBVIOUS
<1>2. ASSUME NEW h \in DOMAIN ps PROVE [j \in DOMAIN ps[h] |-> <<ps[h][j], h>>] \in Seq(Scalars \X Nat)
  <2>1. ps[h] \in Seq(Scalars) /\ h \in Nat
    BY <1>1
  <2>2. DOMAIN ps[h] = 1 .. Len(ps[h]) /\ Len(ps[h]) \in Nat
    BY <2>1
  <2>3. \A j \in 1 .. Len(ps[h]) : <<ps[h][j], h>> \in Scalars \X Nat
    BY <2>1
  <2> QED BY <2>2, <2>3
<1>3. indexed \in Seq(Seq(Scalars \X Nat))
  BY <1>1, <1>2
<1>4. Flat(ps) \in Seq(Scalars \X Nat)
  BY <1>3, FlattenTyped DEF Flat
<1>5. PICK masks \in Seq(Scalars \X Nat) : masks = Flat(ps)
  BY <1>4
<1>6. PointsOf(masks) \in Seq(Scalars)
  <2>1. DOMAIN masks = 1 .. Len(masks) /\ Len(masks) \in Nat
    BY <1>5
  <2>2. \A i \in 1 .. Len(masks) : masks[i][1] \in Scalars
    BY <1>5
  <2> QED BY <2>1, <2>2 DEF PointsOf
<1> QED BY <1>4, <1>5, <1>6

PiecesInv == pieces \in Seq(Seq(Scalars))

LEMMA PiecesStep == PiecesInv /\ [MasksNext]_pieces => PiecesInv'
<1> SUFFICES ASSUME PiecesInv, MasksNext PROVE PiecesInv'
  BY DEF PiecesInv
<1>1. PICK p \in Points : NewPiece(p) \/ SamePiece(p)
  BY DEF MasksNext
<1>2. p \in Scalars /\ pieces \in Seq(Seq(Scalars))
  BY <1>1, MaskAssumption DEF PiecesInv
<1>3. CASE NewPiece(p)
  <2>1. <<p>> \in Seq(Scalars)
    BY <1>2
  <2> QED BY <1>2, <1>3, <2>1 DEF NewPiece, PiecesInv
<1>4. CASE SamePiece(p)
  <2>1. pieces # <<>> /\ pieces' = [pieces EXCEPT ![Len(pieces)] = Append(pieces[Len(pieces)], p)]
    BY <1>4 DEF SamePiece
  <2>2. Len(pieces) \in DOMAIN pieces /\ pieces[Len(pieces)] \in Seq(Scalars)
    BY <1>2, <2>1
  <2>3. Append(pieces[Len(pieces)], p) \in Seq(Scalars)
    BY <1>2, <2>2
  <2>4. [pieces EXCEPT ![Len(pieces)] = Append(pieces[Len(pieces)], p)] \in Seq(Seq(Scalars))
    BY <1>2, <2>2, <2>3
  <2> QED BY <2>1, <2>4 DEF PiecesInv
<1> QED BY <1>1, <1>3, <1>4

\* The baby steps and giant steps of the ladder, the sums of two halves and
\* the probes of the public key table answer like the relations they stand
\* for, whatever masks are drawn and for any bounds of the screens
\* (assembly.rs, degenerate_elgamal_mask).
THEOREM MaskSearchesAnswer == MasksSpec => []MaskSearchIsExact
<1>1. MasksInit => PiecesInv
  BY DEF MasksInit, PiecesInv
<1>2. PiecesInv => MaskSearchIsExact
  <2> SUFFICES ASSUME PiecesInv PROVE MaskSearchIsExact
    OBVIOUS
  <2>1. AllMasks \in Seq(Scalars)
    BY MasksTyped DEF PiecesInv, AllMasks
  <2>2. Len(AllMasks) \in Nat /\ AllMasks \in [1 .. Len(AllMasks) -> Scalars]
    BY <2>1
  <2>3. LadderIsExact /\ LadderMissesNothing
    BY <2>2, LadderAnswers DEF LadderIsExact, LadderMissesNothing
  <2>4. HalvesAreExact
    BY <2>1, HalvesAnswer DEF HalvesAreExact
  <2>5. OffsetsAreExact
    BY <2>1, OffsetsAnswer DEF OffsetsAreExact
  <2> QED BY <2>3, <2>4, <2>5 DEF MaskSearchIsExact
<1> QED BY <1>1, <1>2, PiecesStep, PTL DEF MasksSpec

----------------------------------------------------------------------------
(* The searches across pieces.                                             *)

\* at says where every mask of a flattened list stands.
Indexes(at, masks, mask) ==
  LET n == Len(masks)
  IN  /\ n \in Nat /\ masks \in Seq(Scalars \X Nat) /\ DOMAIN masks = 1 .. n
      /\ mask \in [DOMAIN mask -> Scalars] /\ at \in [1 .. n -> DOMAIN mask]
      /\ \A k, l \in 1 .. n : at[k] = at[l] => k = l
      /\ \A x \in DOMAIN mask : \E k \in 1 .. n : at[k] = x
      /\ \A k \in 1 .. n : masks[k][1] = mask[at[k]] /\ masks[k][2] = at[k][1]
                           /\ masks[k][1] \in Scalars

LEMMA FlatIndexes ==
  ASSUME NEW ps \in Seq(Seq(Scalars))
  PROVE  \E at : Indexes(at, Flat(ps), MasksOf(ps))
<1> DEFINE indexed == [h \in DOMAIN ps |-> [j \in DOMAIN ps[h] |-> <<ps[h][j], h>>]]
           masks == Flat(ps)
           n == Len(masks)
           mask == MasksOf(ps)
<1>1. DOMAIN ps = 1 .. Len(ps) /\ Len(ps) \in Nat /\ \A h \in DOMAIN ps : ps[h] \in Seq(Scalars)
  OBVIOUS
<1>2. ASSUME NEW h \in DOMAIN ps PROVE [j \in DOMAIN ps[h] |-> <<ps[h][j], h>>] \in Seq(Scalars \X Nat)
  <2>1. ps[h] \in Seq(Scalars) /\ h \in Nat
    BY <1>1
  <2>2. DOMAIN ps[h] = 1 .. Len(ps[h]) /\ Len(ps[h]) \in Nat
    BY <2>1
  <2>3. \A j \in 1 .. Len(ps[h]) : <<ps[h][j], h>> \in Scalars \X Nat
    BY <2>1
  <2> QED BY <2>2, <2>3
<1>3. indexed \in Seq(Seq(Scalars \X Nat)) /\ Len(indexed) = Len(ps)
  BY <1>1, <1>2
<1>4. /\ DOMAIN indexed = DOMAIN ps
      /\ \A h \in DOMAIN ps : DOMAIN indexed[h] = DOMAIN ps[h]
      /\ \A h \in DOMAIN ps : \A j \in DOMAIN ps[h] : indexed[h][j] = <<ps[h][j], h>>
  OBVIOUS
<1>5. masks = FlattenSeq(indexed)
  BY DEF Flat
<1> HIDE DEF indexed
<1>6. PICK at : LaidOut(at, FlattenSeq(indexed), indexed, Len(indexed))
  BY <1>3, FlattenLays
<1>7. masks \in Seq(Scalars \X Nat) /\ n \in Nat /\ DOMAIN masks = 1 .. n
  <2>1. masks \in Seq(Scalars \X Nat)
    BY <1>3, <1>5, FlattenTyped
  <2> HIDE DEF masks
  <2> QED BY <2>1
<1>8. PlacesOf(indexed, Len(indexed)) = DOMAIN mask
  <2>1. DOMAIN mask = UNION {{h} \X DOMAIN ps[h] : h \in DOMAIN ps}
    BY DEF MasksOf
  <2>2. \A h \in 1 .. Len(ps) : {h} \X DOMAIN indexed[h] = {h} \X DOMAIN ps[h]
    BY <1>1, <1>4
  <2> QED BY <1>1, <1>3, <2>1, <2>2 DEF PlacesOf
<1>9. ASSUME NEW x \in DOMAIN mask
      PROVE  /\ x[1] \in DOMAIN ps /\ x[2] \in DOMAIN ps[x[1]]
             /\ mask[x] = ps[x[1]][x[2]] /\ mask[x] \in Scalars
  <2>1. PICK h \in DOMAIN ps : x \in {h} \X DOMAIN ps[h]
    BY <1>9 DEF MasksOf
  <2>2. x[1] = h /\ x[2] \in DOMAIN ps[h]
    BY <2>1
  <2>3. mask[x] = ps[x[1]][x[2]]
    BY <1>9 DEF MasksOf
  <2> QED BY <1>1, <2>2, <2>3
<1>10. mask \in [DOMAIN mask -> Scalars]
  <2>1. mask = [x \in DOMAIN mask |-> mask[x]]
    BY DEF MasksOf
  <2> HIDE DEF mask
  <2> QED BY <1>9, <2>1
<1> HIDE DEF masks, mask, n
<1>11. /\ at \in [1 .. n -> DOMAIN mask]
       /\ \A k, l \in 1 .. n : at[k] = at[l] => k = l
       /\ \A x \in DOMAIN mask : \E k \in 1 .. n : at[k] = x
       /\ \A k \in 1 .. n : masks[k] = indexed[at[k][1]][at[k][2]]
  BY <1>5, <1>6, <1>7, <1>8 DEF LaidOut
<1>12. ASSUME NEW k \in 1 .. n
       PROVE  masks[k][1] = mask[at[k]] /\ masks[k][2] = at[k][1] /\ masks[k][1] \in Scalars
  <2>1. PICK x \in DOMAIN mask : x = at[k]
    BY <1>11
  <2>2. x[1] \in DOMAIN ps /\ x[2] \in DOMAIN ps[x[1]] /\ mask[x] = ps[x[1]][x[2]] /\ mask[x] \in Scalars
    BY <1>9
  <2>3. masks[k] = <<ps[x[1]][x[2]], x[1]>>
    BY <1>4, <1>11, <2>1, <2>2
  <2> QED BY <2>1, <2>2, <2>3
<1> QED BY <1>7, <1>10, <1>11, <1>12 DEF Indexes, masks, mask, n

\* The table of owners knows whether a mask of another piece has an
\* x-coordinate, although it keeps the first piece only.
LEMMA OwnersDecide ==
  ASSUME NEW masks \in Seq(Scalars \X Nat), NEW x, NEW piece
  PROVE  HasOtherPiece(masks, x, piece) <=> \E i \in OwnersOf(masks, x) : masks[i][2] # piece
<1> DEFINE owners == OwnersOf(masks, x)
           first == masks[Min(owners)][2]
<1>1. CASE owners = {}
  BY <1>1 DEF HasOtherPiece
<1>2. CASE owners # {}
  <2>1. owners \subseteq Nat
    <3>1. DOMAIN masks = 1 .. Len(masks) /\ Len(masks) \in Nat
      OBVIOUS
    <3> QED BY <3>1 DEF OwnersOf
  <2>2. PICK m \in owners : \A i \in owners : m <= i
    <3> HIDE DEF owners
    <3> QED BY <1>2, <2>1, NatLeast
  <2>3. Min(owners) \in owners
    <3> HIDE DEF owners
    <3> QED BY <2>2 DEF Min
  <2>4. HasOtherPiece(masks, x, piece) <=> first # piece \/ \E i \in owners : masks[i][2] # first
    BY <1>2 DEF HasOtherPiece
  <2> HIDE DEF owners
  <2> QED BY <2>3, <2>4 DEF owners
<1> QED BY <1>1, <1>2

LEMMA CrossScalarsAnswer ==
  ASSUME NEW at, NEW masks, NEW mask, Indexes(at, masks, mask)
  PROVE  CrossScalarSearch(masks) <=>
           \E x, y \in DOMAIN mask :
             x[1] # y[1] /\ \E s \in 1 .. ScalarBound : Multiple(s, mask[x]) \in UpToSign(mask[y])
<1> DEFINE n == Len(masks)
<1>1. /\ n \in Nat /\ masks \in Seq(Scalars \X Nat) /\ DOMAIN masks = 1 .. n
      /\ at \in [1 .. n -> DOMAIN mask]
      /\ \A x \in DOMAIN mask : \E k \in 1 .. n : at[k] = x
      /\ \A k \in 1 .. n : masks[k][1] = mask[at[k]] /\ masks[k][2] = at[k][1]
                           /\ masks[k][1] \in Scalars
  BY DEF Indexes
<1> HIDE DEF n
<1>2. ASSUME NEW i \in 1 .. n, NEW s \in 1 .. ScalarBound
      PROVE  HasOtherPiece(masks, XKey(Multiple(s, masks[i][1])), masks[i][2]) <=>
               \E k \in 1 .. n : /\ masks[k][2] # masks[i][2]
                                 /\ Multiple(s, masks[i][1]) \in UpToSign(masks[k][1])
  <2>1. PICK z \in Scalars : z = Multiple(s, masks[i][1])
    <3>1. s \in Int
      BY ScreenAssumption
    <3> QED BY <1>1, <3>1, MultipleSame
  <2>2. HasOtherPiece(masks, XKey(z), masks[i][2]) <=>
          \E k \in OwnersOf(masks, XKey(z)) : masks[k][2] # masks[i][2]
    <3>1. PICK x : x = XKey(z)
      OBVIOUS
    <3>2. PICK piece : piece = masks[i][2]
      OBVIOUS
    <3>3. HasOtherPiece(masks, x, piece) <=> \E k \in OwnersOf(masks, x) : masks[k][2] # piece
      BY <1>1, OwnersDecide
    <3> QED BY <3>1, <3>2, <3>3
  <2>3. ASSUME NEW k \in 1 .. n PROVE k \in OwnersOf(masks, XKey(z)) <=> z \in UpToSign(masks[k][1])
    <3>1. PICK q \in Scalars : q = masks[k][1]
      BY <1>1
    <3>2. q \in Int /\ Scalars \subseteq Int
      BY AlgebraAssumption DEF Scalars
    <3>3. Same(q, q)
      BY <3>2, SameIsEquivalence
    <3>4. z \in UpToSign(q) <=> XKey(z) = XKey(q)
      BY <3>2, <3>3, UpToSignSame
    <3> QED BY <1>1, <3>1, <3>4 DEF OwnersOf
  <2>4. OwnersOf(masks, XKey(z)) \subseteq 1 .. n
    BY <1>1 DEF OwnersOf
  <2> QED BY <2>1, <2>2, <2>3, <2>4
<1>3. CrossScalarSearch(masks) <=>
        \E i \in 1 .. n, s \in 1 .. ScalarBound :
          \E k \in 1 .. n : /\ masks[k][2] # masks[i][2]
                            /\ Multiple(s, masks[i][1]) \in UpToSign(masks[k][1])
  BY <1>1, <1>2 DEF CrossScalarSearch
<1>4. ASSUME NEW i \in 1 .. n, NEW k \in 1 .. n, NEW s
      PROVE  (masks[k][2] # masks[i][2] /\ Multiple(s, masks[i][1]) \in UpToSign(masks[k][1])) <=>
               (at[i][1] # at[k][1] /\ Multiple(s, mask[at[i]]) \in UpToSign(mask[at[k]]))
  BY <1>1
<1>5. CrossScalarSearch(masks) <=>
        \E i \in 1 .. n, k \in 1 .. n :
          at[i][1] # at[k][1] /\ \E s \in 1 .. ScalarBound : Multiple(s, mask[at[i]]) \in UpToSign(mask[at[k]])
  BY <1>3, <1>4
<1>6. ASSUME NEW x \in DOMAIN mask, NEW y \in DOMAIN mask, x[1] # y[1],
             \E s \in 1 .. ScalarBound : Multiple(s, mask[x]) \in UpToSign(mask[y])
      PROVE  CrossScalarSearch(masks)
  <2>1. PICK i \in 1 .. n : at[i] = x
    BY <1>1
  <2>2. PICK k \in 1 .. n : at[k] = y
    BY <1>1
  <2> QED BY <1>5, <1>6, <2>1, <2>2
<1>7. ASSUME CrossScalarSearch(masks)
      PROVE  \E x, y \in DOMAIN mask :
               x[1] # y[1] /\ \E s \in 1 .. ScalarBound : Multiple(s, mask[x]) \in UpToSign(mask[y])
  <2>1. PICK i \in 1 .. n, k \in 1 .. n :
          at[i][1] # at[k][1] /\ \E s \in 1 .. ScalarBound : Multiple(s, mask[at[i]]) \in UpToSign(mask[at[k]])
    BY <1>5, <1>7
  <2>2. PICK x \in DOMAIN mask, y \in DOMAIN mask : x = at[i] /\ y = at[k]
    BY <1>1
  <2> QED BY <2>1, <2>2
<1> QED BY <1>6, <1>7

\* A difference is as far below a bound as its negation.
LEMMA OffsetSymmetric ==
  ASSUME NEW p \in Scalars, NEW q \in Scalars, PairOffset(p, q)
  PROVE  PairOffset(q, p)
<1>1. PICK a \in 1 .. CoefficientBound, b \in 1 .. CoefficientBound :
        \/ ProbedBelow(Plus(Multiple(a, p), Multiple(b, q)), (a + b) * LimbModulus)
        \/ ProbedBelow(Minus(Multiple(a, p), Multiple(b, q)), Max({a, b}) * LimbModulus)
  BY DEF PairOffset
<1>2. a \in Int /\ b \in Int
  OBVIOUS
<1>3. PICK x \in Scalars, y \in Scalars : x = Multiple(a, p) /\ y = Multiple(b, q)
  BY <1>2, MultipleSame
<1>4. x \in Int /\ y \in Int /\ Scalars \subseteq Int
  BY AlgebraAssumption DEF Scalars
<1>5. Plus(y, x) = Plus(x, y) /\ b + a = a + b /\ {b, a} = {a, b}
  <2>1. y + x = x + y
    BY <1>4
  <2> QED BY <1>2, <2>1 DEF Plus
<1>6. Minus(y, x) = Negated(Minus(x, y))
  <2>1. Minus(x, y) = (IF y <= x THEN x - y ELSE x - y + Order)
        /\ Minus(y, x) = (IF x <= y THEN y - x ELSE y - x + Order)
    BY ByParts
  <2>2. Minus(x, y) \in Scalars
    BY <1>4, SameOperations
  <2>3. Negated(Minus(x, y)) = IF Minus(x, y) = 0 THEN 0 ELSE Order - Minus(x, y)
    BY <2>2, SignFacts
  <2>4. Order \in Nat \ {0, 1} /\ x \in 0 .. Order - 1 /\ y \in 0 .. Order - 1
    BY AlgebraAssumption DEF Scalars
  <2> QED BY <2>1, <2>3, <2>4
<1>7. \A width : ProbedBelow(Minus(x, y), width) => ProbedBelow(Minus(y, x), width)
  <2>1. Minus(x, y) \in Scalars
    BY <1>4, SameOperations
  <2>2. UpToSign(Minus(y, x)) = UpToSign(Minus(x, y))
    BY <1>6, <2>1, SignFacts
  <2> QED BY <2>2 DEF ProbedBelow
<1> QED BY <1>1, <1>3, <1>5, <1>7 DEF PairOffset

LEMMA CrossOffsetsAnswer ==
  ASSUME NEW at, NEW masks, NEW mask, Indexes(at, masks, mask)
  PROVE  PairOffsetSearch(masks, TRUE) <=>
           \E x, y \in DOMAIN mask : x[1] # y[1] /\ PairOffset(mask[x], mask[y])
<1> DEFINE n == Len(masks)
<1>1. /\ n \in Nat /\ DOMAIN masks = 1 .. n /\ at \in [1 .. n -> DOMAIN mask]
      /\ \A x \in DOMAIN mask : \E k \in 1 .. n : at[k] = x
      /\ \A k \in 1 .. n : masks[k][1] = mask[at[k]] /\ masks[k][2] = at[k][1]
                           /\ masks[k][1] \in Scalars
  BY DEF Indexes
<1> HIDE DEF n
<1>2. PairOffsetSearch(masks, TRUE) <=>
        \E i, k \in 1 .. n : i < k /\ masks[i][2] # masks[k][2] /\ PairFinds(masks[i][1], masks[k][1])
  BY <1>1 DEF PairOffsetSearch, PairFinds
<1>3. ASSUME NEW i \in 1 .. n, NEW k \in 1 .. n
      PROVE  /\ PairFinds(masks[i][1], masks[k][1]) <=> PairOffset(mask[at[i]], mask[at[k]])
             /\ PairOffset(mask[at[i]], mask[at[k]]) => PairOffset(mask[at[k]], mask[at[i]])
  <2>1. PICK p \in Scalars, q \in Scalars : p = masks[i][1] /\ q = masks[k][1]
    BY <1>1
  <2>2. PairFinds(p, q) <=> PairOffset(p, q)
    BY PairFindsOffsets
  <2>3. PairOffset(p, q) => PairOffset(q, p)
    BY OffsetSymmetric
  <2> QED BY <1>1, <2>1, <2>2, <2>3
<1>4. PairOffsetSearch(masks, TRUE) <=>
        \E i, k \in 1 .. n : i < k /\ at[i][1] # at[k][1] /\ PairOffset(mask[at[i]], mask[at[k]])
  <2>1. ASSUME NEW i \in 1 .. n, NEW k \in 1 .. n
        PROVE  (i < k /\ masks[i][2] # masks[k][2] /\ PairFinds(masks[i][1], masks[k][1])) <=>
                 (i < k /\ at[i][1] # at[k][1] /\ PairOffset(mask[at[i]], mask[at[k]]))
    <3>1. masks[i][2] = at[i][1] /\ masks[k][2] = at[k][1]
      BY <1>1
    <3> QED BY <1>3, <3>1
  <2> QED BY <1>2, <2>1
<1>5. ASSUME NEW i \in 1 .. n, NEW k \in 1 .. n, at[i][1] # at[k][1]
      PROVE  i < k \/ k < i
  BY <1>5
<1>6. PairOffsetSearch(masks, TRUE) <=>
        \E i, k \in 1 .. n : at[i][1] # at[k][1] /\ PairOffset(mask[at[i]], mask[at[k]])
  BY <1>3, <1>4, <1>5
<1>7. ASSUME NEW x \in DOMAIN mask, NEW y \in DOMAIN mask, x[1] # y[1], PairOffset(mask[x], mask[y])
      PROVE  PairOffsetSearch(masks, TRUE)
  <2>1. PICK i \in 1 .. n : at[i] = x
    BY <1>1
  <2>2. PICK k \in 1 .. n : at[k] = y
    BY <1>1
  <2> QED BY <1>6, <1>7, <2>1, <2>2
<1>8. ASSUME PairOffsetSearch(masks, TRUE)
      PROVE  \E x, y \in DOMAIN mask : x[1] # y[1] /\ PairOffset(mask[x], mask[y])
  <2>1. PICK i \in 1 .. n, k \in 1 .. n : at[i][1] # at[k][1] /\ PairOffset(mask[at[i]], mask[at[k]])
    BY <1>6, <1>8
  <2>2. PICK x \in DOMAIN mask, y \in DOMAIN mask : x = at[i] /\ y = at[k]
    BY <1>1
  <2> QED BY <2>1, <2>2
<1> QED BY <1>7, <1>8

----------------------------------------------------------------------------
(* Signed combinations across pieces.                                      *)

\* A finite set has subsets of every size up to its own.
LEMMA SubsetOfSize ==
  ASSUME NEW D, IsFiniteSet(D), NEW k \in 0 .. Cardinality(D)
  PROVE  \E S \in SUBSET D : Cardinality(S) = k
<1> DEFINE N == Cardinality(D)
           T == {j \in 0 .. N : \E S \in SUBSET D : Cardinality(S) = j}
<1>1. N \in Nat
  BY FS_CardinalityType
<1>2. 0 \in T
  <2>1. {} \in SUBSET D /\ Cardinality({}) = 0
    BY FS_EmptySet
  <2> QED BY <1>1, <2>1
<1>3. ASSUME NEW j \in 0 .. N - 1, j \in T PROVE j + 1 \in T
  <2>1. PICK S \in SUBSET D : Cardinality(S) = j
    BY <1>3
  <2>2. IsFiniteSet(S)
    BY FS_Subset
  <2>3. \E x \in D : x \notin S
    <3>1. S # D
      BY <1>1, <2>1
    <3> QED BY <3>1
  <2>4. PICK x \in D : x \notin S
    BY <2>3
  <2>5. Cardinality(S \cup {x}) = j + 1
    BY <2>1, <2>2, <2>4, FS_AddElement
  <2> QED BY <1>1, <2>4, <2>5
<1> HIDE DEF N
<1>4. \A j \in 0 .. N : j \in T
  <2> HIDE DEF T
  <2> QED BY <1>1, <1>2, <1>3, AllUpTo
<1> QED BY <1>4 DEF N

\* There are two values if two elements have different ones.
LEMMA TwoValues ==
  ASSUME NEW S, IsFiniteSet(S), NEW f
  PROVE  Cardinality({f[i] : i \in S}) > 1 <=> \E i, k \in S : f[i] # f[k]
<1> DEFINE V == {f[i] : i \in S}
           g == [i \in S |-> f[i]]
<1>1. g \in Surjection(S, V)
  BY DEF Surjection
<1>2. IsFiniteSet(V)
  <2> HIDE DEF V, g
  <2> QED BY <1>1, FS_Surjection
<1>3. Cardinality(V) \in Nat /\ (Cardinality(V) = 0 <=> V = {}) /\ (Cardinality(V) = 1 <=> \E x : V = {x})
  <2> HIDE DEF V
  <2> QED BY <1>2, FS_CardinalityType, FS_EmptySet, FS_Singleton
<1>4. ASSUME NEW i \in S, NEW k \in S, f[i] # f[k] PROVE V # {} /\ ~\E x : V = {x}
  <2>1. f[i] \in V /\ f[k] \in V
    OBVIOUS
  <2> QED BY <1>4, <2>1
<1>5. ASSUME ~\E i, k \in S : f[i] # f[k] PROVE V = {} \/ \E x : V = {x}
  <2>1. CASE S = {}
    BY <2>1
  <2>2. CASE S # {}
    <3>1. PICK i \in S : TRUE
      BY <2>2
    <3>2. V = {f[i]}
      BY <1>5, <3>1
    <3> QED BY <3>2
  <2> QED BY <2>1, <2>2
<1> HIDE DEF V
<1>6. Cardinality(V) > 1 <=> \E i, k \in S : f[i] # f[k]
  BY <1>3, <1>4, <1>5
<1> QED BY <1>6 DEF V

\* The coefficients c of n points are zero outside S and T.
Supported(e, n, c, S, T) ==
  /\ n \in Nat /\ e \in [1 .. n -> Scalars] /\ c \in [1 .. n -> Int]
  /\ S \in SUBSET (1 .. n) /\ T \in SUBSET (1 .. n) /\ S \cap T = {}
  /\ \A i \in (1 .. n) \ (S \cup T) : c[i] = 0

\* A relation vanishes if the sums over the halves of its support are opposite.
LEMMA SupportedHalves ==
  ASSUME NEW e, NEW n, NEW c, NEW S, NEW T, Supported(e, n, c, S, T)
  PROVE  Vanishes(c, e) <=> Combination(e, S, Over(c, S)) = Negated(Combination(e, T, Over(c, T)))
<1> DEFINE D == 1 .. n
           B == D \ S
           R == B \ T
           term == [i \in D |-> Multiple(c[i], e[i])]
<1>0. /\ n \in Nat /\ e \in [D -> Scalars] /\ c \in [D -> Int] /\ S \in SUBSET D /\ T \in SUBSET D
      /\ S \cap T = {} /\ \A i \in R : i \in D /\ c[i] = 0
  BY DEF Supported
<1>1. Halved(e, n, S, B)
  BY <1>0 DEF Halved
<1>2. Vanishes(c, e) <=> Combination(e, S, Over(c, S)) = Negated(Combination(e, B, Over(c, B)))
  <2> HIDE DEF B
  <2> QED BY <1>0, <1>1, HalvesCombine
<1>3. IsFiniteSet(D) /\ Scalars \subseteq Int
  <2>1. IsFiniteSet(D)
    BY <1>0, FS_Interval
  <2>2. Scalars \subseteq Int
    BY AlgebraAssumption DEF Scalars
  <2> QED BY <2>1, <2>2
<1>4. term \in [D -> Int]
  <2>1. ASSUME NEW i \in D PROVE Multiple(c[i], e[i]) \in Int
    <3>1. c[i] \in Int /\ e[i] \in Scalars
      BY <1>0
    <3> QED BY <1>3, <3>1, MultipleSame
  <2> QED BY <2>1
<1>5. /\ Over(term, T) = [i \in T |-> Multiple(Over(c, T)[i], e[i])]
      /\ Over(term, B) = [i \in B |-> Multiple(Over(c, B)[i], e[i])]
  BY <1>0 DEF Over
<1>6. /\ Combination(e, T, Over(c, T)) = SumFunction(Over(term, T)) % Order
      /\ Combination(e, B, Over(c, B)) = SumFunction(Over(term, B)) % Order
  BY <1>5 DEF Combination, SumOver
<1>7. Over(term, R) = [i \in R |-> 0]
  <2>1. ASSUME NEW i \in R PROVE term[i] = 0
    <3>1. i \in D /\ e[i] \in Scalars /\ c[i] = 0 /\ 0 \in Int
      BY <1>0
    <3>2. PICK p \in Scalars : p = e[i]
      BY <3>1
    <3>3. Multiple(0, p) \in Scalars /\ Same(Multiple(0, p), 0 * p)
      BY MultipleSame
    <3>4. 0 \in Scalars /\ 0 * p = 0
      BY <1>3, AlgebraAssumption DEF Scalars
    <3>5. Multiple(0, p) = 0
      BY <3>3, <3>4, SameScalars
    <3> QED BY <3>1, <3>2, <3>5
  <2> HIDE DEF term, R
  <2> QED BY <2>1 DEF Over
<1>8. SumFunction(Over(term, R)) = 0
  <2>1. IsFiniteSet(R) /\ 0 \in Int
    BY <1>0, <1>3, FS_Subset
  <2> HIDE DEF R
  <2>2. PICK z \in Int : z = 0
    OBVIOUS
  <2>3. Cardinality(R) \in Nat /\ SumFunction([i \in R |-> z]) = Cardinality(R) * z
    BY <2>1, SumConstant
  <2>4. Cardinality(R) * z = 0
    BY <2>2, <2>3
  <2> QED BY <1>7, <2>2, <2>3, <2>4
<1>9. SumFunction(Over(term, B)) = SumFunction(Over(term, T))
  <2>1. Parts(term, D, T, R)
    BY <1>0, <1>3, <1>4 DEF Parts
  <2>2. T \cup R = B
    BY <1>0
  <2> HIDE DEF term, R, B, D
  <2>3. /\ SumFunction(Over(term, T)) \in Int /\ SumFunction(Over(term, R)) \in Int
        /\ SumFunction(Over(term, T \cup R)) = SumFunction(Over(term, T)) + SumFunction(Over(term, R))
    BY <2>1, SumOfParts
  <2>4. PICK x \in Int : x = SumFunction(Over(term, T))
    BY <2>3
  <2>5. SumFunction(Over(term, T \cup R)) = x + 0
    BY <1>8, <2>3, <2>4
  <2>6. x + 0 = x
    OBVIOUS
  <2>7. SumFunction(Over(term, T \cup R)) = SumFunction(Over(term, B))
    BY <2>2
  <2> QED BY <2>4, <2>5, <2>6, <2>7
<1> QED BY <1>2, <1>6, <1>9

\* The signed multiples of k masks are those with k coefficients, none of them 0.
SignedMultiplesOf(masks, width, k) ==
  /\ \A c \in Signed(masks, width, k) :
       /\ DOMAIN c \in SUBSET DOMAIN masks /\ IsFiniteSet(DOMAIN c) /\ Cardinality(DOMAIN c) = k
       /\ c \in [DOMAIN c -> -width .. width] /\ \A i \in DOMAIN c : c[i] # 0
  /\ \A S \in SUBSET DOMAIN masks : \A c \in [S -> -width .. width] :
       (Cardinality(S) = k /\ \A i \in S : c[i] # 0) => c \in Signed(masks, width, k)

\* Signed multiples of as many masks.
LEMMA SignedAre ==
  ASSUME NEW masks \in Seq(Scalars \X Nat), NEW width \in Nat, NEW k \in Nat \ {0}
  PROVE  SignedMultiplesOf(masks, width, k)
<1>0. PICK n \in Nat : DOMAIN masks = 1 .. n
  OBVIOUS
<1>1. IsFiniteSet(1 .. n)
  BY FS_Interval
<1>2. ASSUME NEW c \in Signed(masks, width, k)
      PROVE  /\ DOMAIN c \in SUBSET (1 .. n) /\ Cardinality(DOMAIN c) = k
             /\ c \in [DOMAIN c -> -width .. width] /\ \A i \in DOMAIN c : c[i] # 0
  <2>1. c \in Combinations(masks, width, k) /\ \A i \in DOMAIN c : c[i] # 0
    BY DEF Signed
  <2>2. PICK S \in SUBSET (1 .. n) : Cardinality(S) = k /\ c \in [S -> -width .. width]
    BY <1>0, <2>1 DEF Combinations, kSubset
  <2> QED BY <2>1, <2>2
<1>3. ASSUME NEW S \in SUBSET (1 .. n), NEW c \in [S -> -width .. width], Cardinality(S) = k,
             \A i \in S : c[i] # 0
      PROVE  c \in Signed(masks, width, k)
  <2>1. S # {}
    BY <1>3, FS_EmptySet
  <2>2. DOMAIN c = S /\ DOMAIN <<>> = {}
    OBVIOUS
  <2>3. c # <<>>
    BY <2>1, <2>2
  <2>4. S \in kSubset(k, DOMAIN masks)
    BY <1>0, <1>3 DEF kSubset
  <2>5. c \in Combinations(masks, width, k)
    BY <2>3, <2>4 DEF Combinations
  <2> QED BY <1>3, <2>2, <2>5 DEF Signed
<1> QED
  <2>1. ASSUME NEW c \in Signed(masks, width, k) PROVE IsFiniteSet(DOMAIN c)
    BY <1>1, <1>2, FS_Subset
  <2> QED BY <1>0, <1>2, <1>3, <2>1 DEF SignedMultiplesOf

\* c is a relation of as many masks, of more than one piece.
Relates(masks, c, support) ==
  /\ Cardinality(Support(c)) = support
  /\ \E i, k \in Support(c) : masks[i][2] # masks[k][2]
  /\ Vanishes(c, PointsOf(masks))

\* S and T are the halves of the support of c.
Bisects(masks, c, S, T) ==
  /\ masks \in Seq(Scalars \X Nat) /\ c \in [DOMAIN masks -> Int]
  /\ S \in SUBSET (DOMAIN masks) /\ T \in SUBSET (DOMAIN masks) /\ S \cap T = {}
  /\ Support(c) = S \cup T

\* What two disjoint halves are found by.
HalvesMeet(masks, l, r) ==
  SumOfMasks(masks, l) = Negated(SumOfMasks(masks, r)) /\ HalvesRelate(masks, l, r)

LEMMA HalvesMeetWhat ==
  ASSUME NEW masks, NEW c, NEW S, NEW T, Bisects(masks, c, S, T)
  PROVE  /\ HalvesMeet(masks, Over(c, S), Over(c, T)) <=> Relates(masks, c, Cardinality(Support(c)))
         /\ Cardinality(Support(c)) = Cardinality(S) + Cardinality(T)
<1> DEFINE n == Len(masks)
           D == 1 .. n
           e == PointsOf(masks)
           f == [i \in D |-> masks[i][2]]
           l == Over(c, S)
           r == Over(c, T)
<1>0. /\ S \in SUBSET (DOMAIN masks) /\ T \in SUBSET (DOMAIN masks) /\ S \cap T = {}
      /\ c \in [DOMAIN masks -> Int] /\ Support(c) = S \cup T /\ masks \in Seq(Scalars \X Nat)
  BY DEF Bisects
<1>1. n \in Nat /\ DOMAIN masks = D /\ e \in [D -> Scalars] /\ \A i \in D : masks[i] \in Scalars \X Nat
  BY <1>0 DEF PointsOf
<1>2. IsFiniteSet(D)
  BY <1>1, FS_Interval
<1>3. IsFiniteSet(S) /\ IsFiniteSet(T) /\ IsFiniteSet(S \cup T)
  <2>1. IsFiniteSet(S)
    BY <1>0, <1>1, <1>2, FS_Subset
  <2>2. IsFiniteSet(T)
    BY <1>0, <1>1, <1>2, FS_Subset
  <2> QED BY <2>1, <2>2, FS_Union
<1>4. DOMAIN l = S /\ DOMAIN r = T
  BY DEF Over
<1>5. Supported(e, n, c, S, T)
  <2>1. ASSUME NEW i \in D, i \notin S \cup T PROVE c[i] = 0
    <3>1. i \notin Support(c) /\ i \in DOMAIN c
      BY <1>0, <1>1, <2>1
    <3> QED BY <1>0, <3>1 DEF Support
  <2> HIDE DEF e, n
  <2> QED BY <1>0, <1>1, <2>1 DEF Supported
<1>6. Vanishes(c, e) <=> Combination(e, S, l) = Negated(Combination(e, T, r))
  <2> HIDE DEF e, n
  <2> QED BY <1>5, SupportedHalves
<1>7. SumOfMasks(masks, l) = Combination(e, S, l) /\ SumOfMasks(masks, r) = Combination(e, T, r)
  BY <1>4 DEF SumOfMasks
<1>8. HalvesRelate(masks, l, r) <=> \E i, k \in Support(c) : masks[i][2] # masks[k][2]
  <2>1. {masks[i][2] : i \in DOMAIN l \cup DOMAIN r} = {f[i] : i \in S \cup T}
    BY <1>0, <1>1, <1>4
  <2>2. \A i \in S \cup T : f[i] = masks[i][2]
    BY <1>0, <1>1
  <2> HIDE DEF f, l, r
  <2>3. Cardinality({f[i] : i \in S \cup T}) > 1 <=> \E i, k \in S \cup T : f[i] # f[k]
    BY <1>3, TwoValues
  <2>4. HalvesRelate(masks, l, r) <=> Cardinality({masks[i][2] : i \in DOMAIN l \cup DOMAIN r}) > 1
    BY <1>4, <1>0 DEF HalvesRelate
  <2>5. (\E i, k \in S \cup T : f[i] # f[k]) <=> \E i, k \in Support(c) : masks[i][2] # masks[k][2]
    BY <1>0, <2>2
  <2>6. PICK V : V = {masks[i][2] : i \in DOMAIN l \cup DOMAIN r} /\ V = {f[i] : i \in S \cup T}
    BY <2>1
  <2> QED BY <2>3, <2>4, <2>5, <2>6
<1>9. Cardinality(Support(c)) = Cardinality(S) + Cardinality(T)
  <2>1. Cardinality(S \cup T) = Cardinality(S) + Cardinality(T) - Cardinality(S \cap T)
    BY <1>3, FS_Union
  <2>2. Cardinality(S \cap T) = 0 /\ Cardinality(S) \in Nat /\ Cardinality(T) \in Nat
    BY <1>0, <1>3, FS_EmptySet, FS_CardinalityType
  <2> QED BY <1>0, <2>1, <2>2
<1> QED BY <1>6, <1>7, <1>8, <1>9 DEF HalvesMeet, Relates

\* The halves of one support find every relation of so many masks of more than
\* one piece, and only those.
LEMMA RelationsOfSupport ==
  ASSUME NEW masks \in Seq(Scalars \X Nat), NEW width \in Nat, NEW support \in Nat, support >= 2
  PROVE  RelationOfSupport(masks, width, support) <=>
           \E c \in [DOMAIN masks -> -width .. width] : Relates(masks, c, support)
<1> DEFINE D == DOMAIN masks
           n == Len(masks)
<1>1. n \in Nat /\ D = 1 .. n /\ -width .. width \subseteq Int /\ 0 \in -width .. width
  OBVIOUS
<1>2. PICK h \in Nat \ {0}, k \in Nat \ {0} :
        h = (support + 1) \div 2 /\ k = support \div 2 /\ h + k = support
  <2>1. (support + 1) \div 2 \in Nat \ {0} /\ support \div 2 \in Nat \ {0}
        /\ (support + 1) \div 2 + support \div 2 = support
    OBVIOUS
  <2> QED BY <2>1
<1>3. RelationOfSupport(masks, width, support) <=>
        \E l \in Signed(masks, width, h), r \in Signed(masks, width, k) : HalvesMeet(masks, l, r)
  BY <1>2 DEF RelationOfSupport, HalvesMeet
<1> HIDE DEF n
<1>4. SignedMultiplesOf(masks, width, h)
  BY SignedAre
<1>5. SignedMultiplesOf(masks, width, k)
  BY SignedAre
<1>6. ASSUME RelationOfSupport(masks, width, support)
      PROVE  \E c \in [D -> -width .. width] : Relates(masks, c, support)
  <2>1. PICK l \in Signed(masks, width, h), r \in Signed(masks, width, k) : HalvesMeet(masks, l, r)
    BY <1>3, <1>6
  <2>2. PICK S \in SUBSET D : S = DOMAIN l /\ Cardinality(S) = h /\ l \in [S -> -width .. width]
                              /\ \A i \in S : l[i] # 0
    BY <1>4 DEF SignedMultiplesOf
  <2>3. PICK T \in SUBSET D : T = DOMAIN r /\ Cardinality(T) = k /\ r \in [T -> -width .. width]
                              /\ \A i \in T : r[i] # 0
    BY <1>5 DEF SignedMultiplesOf
  <2>4. S \cap T = {}
    BY <2>1, <2>2, <2>3 DEF HalvesMeet, HalvesRelate
  <2> DEFINE c == [i \in D |-> IF i \in S THEN l[i] ELSE IF i \in T THEN r[i] ELSE 0]
  <2>5. c \in [D -> -width .. width]
    <3>1. ASSUME NEW i \in D PROVE c[i] \in -width .. width
      BY <1>1, <2>2, <2>3
    <3> QED BY <3>1
  <2>6. Over(c, S) = l /\ Over(c, T) = r
    BY <2>2, <2>3, <2>4 DEF Over
  <2>7. Support(c) = S \cup T
    BY <2>2, <2>3, <2>4 DEF Support
  <2> HIDE DEF c
  <2>8. c \in [D -> Int]
    BY <1>1, <2>5
  <2>9. /\ HalvesMeet(masks, Over(c, S), Over(c, T)) <=> Relates(masks, c, Cardinality(Support(c)))
        /\ Cardinality(Support(c)) = Cardinality(S) + Cardinality(T)
    <3>1. Bisects(masks, c, S, T)
      BY <2>4, <2>7, <2>8 DEF Bisects
    <3> QED BY <3>1, HalvesMeetWhat
  <2> QED BY <1>2, <2>1, <2>2, <2>3, <2>5, <2>6, <2>9
<1>7. ASSUME NEW c \in [D -> -width .. width], Relates(masks, c, support)
      PROVE  RelationOfSupport(masks, width, support)
  <2>1. c \in [D -> Int] /\ Support(c) \in SUBSET D /\ Cardinality(Support(c)) = support
        /\ \A i \in Support(c) : c[i] # 0
    BY <1>1, <1>7 DEF Relates, Support
  <2>2. IsFiniteSet(Support(c))
    <3>1. IsFiniteSet(D)
      BY <1>1, FS_Interval
    <3> QED BY <2>1, <3>1, FS_Subset
  <2>3. PICK S \in SUBSET Support(c) : Cardinality(S) = h
    <3>1. h \in 0 .. Cardinality(Support(c))
      BY <1>2, <2>1
    <3> QED BY <2>2, <3>1, SubsetOfSize
  <2>4. PICK T \in SUBSET D : T = Support(c) \ S
    BY <2>1
  <2>5. S \in SUBSET D /\ S \cap T = {} /\ Support(c) = S \cup T
    BY <2>1, <2>3, <2>4
  <2>6. /\ HalvesMeet(masks, Over(c, S), Over(c, T)) <=> Relates(masks, c, Cardinality(Support(c)))
        /\ Cardinality(Support(c)) = Cardinality(S) + Cardinality(T)
    <3>1. Bisects(masks, c, S, T)
      BY <2>1, <2>5 DEF Bisects
    <3> QED BY <3>1, HalvesMeetWhat
  <2>7. Cardinality(T) = k
    <3>1. IsFiniteSet(T)
      BY <2>2, <2>4, FS_Subset
    <3>2. PICK z \in Nat : z = Cardinality(T)
      BY <3>1, FS_CardinalityType
    <3>3. support = h + z /\ h + k = support
      BY <1>2, <2>1, <2>3, <2>6, <3>2
    <3>4. z = k
      BY <3>3
    <3> QED BY <3>2, <3>4
  <2>8. Over(c, S) \in [S -> -width .. width] /\ \A i \in S : Over(c, S)[i] # 0
    BY <2>1, <2>5 DEF Over
  <2>9. Over(c, T) \in [T -> -width .. width] /\ \A i \in T : Over(c, T)[i] # 0
    BY <2>1, <2>5 DEF Over
  <2>10. Over(c, S) \in Signed(masks, width, h)
    BY <1>4, <2>3, <2>5, <2>8 DEF SignedMultiplesOf
  <2>11. Over(c, T) \in Signed(masks, width, k)
    BY <1>5, <2>5, <2>7, <2>9 DEF SignedMultiplesOf
  <2>12. HalvesMeet(masks, Over(c, S), Over(c, T))
    BY <1>7, <2>1, <2>6
  <2> QED BY <1>3, <2>10, <2>11, <2>12
<1> QED BY <1>6, <1>7

\* d gives the places of the masks the coefficients that c gives their indexes.
Placed(at, masks, mask, c, d) ==
  /\ c \in [DOMAIN masks -> Int] /\ d \in [DOMAIN mask -> Int]
  /\ \A k \in DOMAIN masks : c[k] = d[at[k]]

\* A relation does not depend on how its masks are named.
LEMMA PlacedRelates ==
  ASSUME NEW at, NEW masks, NEW mask, Indexes(at, masks, mask), NEW c, NEW d, Placed(at, masks, mask, c, d)
  PROVE  /\ Cardinality(Support(d)) = Cardinality(Support(c))
         /\ SpansPieces(Support(d)) <=> \E i, k \in Support(c) : masks[i][2] # masks[k][2]
         /\ Vanishes(d, mask) <=> Vanishes(c, PointsOf(masks))
<1> DEFINE n == Len(masks)
           D == 1 .. n
           X == DOMAIN mask
           e == PointsOf(masks)
<1>1. /\ n \in Nat /\ DOMAIN masks = D /\ mask \in [X -> Scalars] /\ at \in [D -> X]
      /\ \A k, l \in D : at[k] = at[l] => k = l
      /\ \A x \in X : \E k \in D : at[k] = x
      /\ \A k \in D : masks[k][1] = mask[at[k]] /\ masks[k][2] = at[k][1] /\ masks[k][1] \in Scalars
  BY DEF Indexes
<1> HIDE DEF n
<1>2. c \in [D -> Int] /\ d \in [X -> Int] /\ \A k \in D : c[k] = d[at[k]]
  BY <1>1 DEF Placed
<1>3. /\ Support(c) = {k \in D : c[k] # 0} /\ Support(d) = {x \in X : d[x] # 0}
      /\ DOMAIN e = D /\ \A k \in D : e[k] = masks[k][1]
  BY <1>1, <1>2 DEF Support, PointsOf
<1>4. IsFiniteSet(D) /\ IsFiniteSet(X)
  <2>1. IsFiniteSet(D)
    BY <1>1, FS_Interval
  <2>2. at \in Bijection(D, X)
    BY <1>1 DEF Bijection, Injection, IsInjective, Surjection
  <2> HIDE DEF D, X
  <2> QED BY <2>1, <2>2, FS_Bijection DEF ExistsBijection
<1>5. Cardinality(Support(d)) = Cardinality(Support(c))
  <2> DEFINE g == [k \in Support(c) |-> at[k]]
  <2>1. g \in [Support(c) -> Support(d)]
    BY <1>1, <1>2, <1>3
  <2>2. \A k, l \in Support(c) : g[k] = g[l] => k = l
    BY <1>1, <1>3
  <2>3. \A x \in Support(d) : \E k \in Support(c) : g[k] = x
    BY <1>1, <1>2, <1>3
  <2>4. IsFiniteSet(Support(c))
    BY <1>3, <1>4, FS_Subset
  <2> HIDE DEF g
  <2>5. g \in Bijection(Support(c), Support(d))
    BY <2>1, <2>2, <2>3 DEF Bijection, Injection, IsInjective, Surjection
  <2> QED BY <2>4, <2>5, FS_Bijection DEF ExistsBijection
<1>6. SpansPieces(Support(d)) <=> \E i, k \in Support(c) : masks[i][2] # masks[k][2]
  <2>1. ASSUME SpansPieces(Support(d)) PROVE \E i, k \in Support(c) : masks[i][2] # masks[k][2]
    <3>1. PICK x \in Support(d), y \in Support(d) : x[1] # y[1]
      BY <2>1 DEF SpansPieces
    <3>2. PICK i \in D : at[i] = x
      BY <1>1, <1>3
    <3>3. PICK k \in D : at[k] = y
      BY <1>1, <1>3
    <3> QED BY <1>1, <1>2, <1>3, <3>1, <3>2, <3>3
  <2>2. ASSUME NEW i \in Support(c), NEW k \in Support(c), masks[i][2] # masks[k][2]
        PROVE  SpansPieces(Support(d))
    <3>1. at[i] \in Support(d) /\ at[k] \in Support(d)
      BY <1>1, <1>2, <1>3
    <3>2. at[i][1] # at[k][1]
      BY <1>1, <1>3, <2>2
    <3> QED BY <3>1, <3>2 DEF SpansPieces
  <2> QED BY <2>1, <2>2
<1>7. Vanishes(d, mask) <=> Vanishes(c, e)
  <2> DEFINE f == [x \in X |-> Multiple(d[x], mask[x])]
             g == [k \in D |-> Multiple(c[k], e[k])]
  <2>1. Scalars \subseteq Int
    BY AlgebraAssumption DEF Scalars
  <2>2. f \in [X -> Int]
    <3>1. ASSUME NEW x \in X PROVE Multiple(d[x], mask[x]) \in Int
      <4>1. d[x] \in Int /\ mask[x] \in Scalars
        BY <1>1, <1>2
      <4> QED BY <2>1, <4>1, MultipleSame
    <3> QED BY <3>1
  <2>3. \A k \in D : g[k] = f[at[k]]
    BY <1>1, <1>2, <1>3
  <2>4. g \in [D -> Int]
    <3>1. ASSUME NEW k \in D PROVE Multiple(c[k], e[k]) \in Int
      <4>1. at[k] \in X /\ Multiple(c[k], e[k]) = f[at[k]]
        BY <1>1, <2>3
      <4> HIDE DEF f
      <4> QED BY <2>2, <4>1
    <3> QED BY <3>1
  <2>5. /\ Vanishes(d, mask) <=> SumFunction(f) % Order = 0
        /\ Vanishes(c, e) <=> SumFunction(g) % Order = 0
    BY <1>3 DEF Vanishes, Combination, SumOver, Identity
  <2> HIDE DEF f, g
  <2>6. Renames(at, g, D, f, X)
    BY <1>1, <2>2, <2>3, <2>4 DEF Renames
  <2> HIDE DEF D, X
  <2>7. SumFunction(g) = SumFunction(f)
    BY <1>4, <2>6, SumReindexed
  <2> QED BY <2>5, <2>7
<1> QED BY <1>5, <1>6, <1>7

\* One scan of the halves answers for its bounds.
LEMMA RangeAnswers ==
  ASSUME NEW at, NEW masks, NEW mask, Indexes(at, masks, mask), NEW width \in Nat,
         NEW lowest \in Nat, NEW highest \in Nat, lowest >= 2, highest <= 2 * HalfSupportBound
  PROVE  RelationInRange(masks, width, lowest, highest) <=> CrossRelation(mask, width, lowest .. highest)
<1> DEFINE n == Len(masks)
           D == 1 .. n
           X == DOMAIN mask
           B == -width .. width
<1>1. /\ n \in Nat /\ DOMAIN masks = D /\ at \in [D -> X] /\ masks \in Seq(Scalars \X Nat)
      /\ \A k, l \in D : at[k] = at[l] => k = l
      /\ \A x \in X : \E k \in D : at[k] = x
  BY DEF Indexes
<1> HIDE DEF n
<1>2. B \subseteq Int /\ HalfSupportBound \in Nat
  BY MaskAssumption
<1>3. Supports(lowest, highest) = lowest .. highest
  <2>1. Max({lowest, 2}) = lowest
    BY DEF Max
  <2> QED BY <2>1 DEF Supports
<1>4. RelationInRange(masks, width, lowest, highest) <=>
        \E support \in lowest .. highest : RelationOfSupport(masks, width, support)
  BY <1>2, <1>3 DEF RelationInRange
<1>5. ASSUME NEW support \in lowest .. highest
      PROVE  RelationOfSupport(masks, width, support) <=> \E c \in [D -> B] : Relates(masks, c, support)
  <2>1. support \in Nat /\ support >= 2
    OBVIOUS
  <2> QED BY <1>1, <2>1, RelationsOfSupport
<1> HIDE DEF B
<1>6. ASSUME NEW c \in [D -> B], NEW d \in [X -> B], \A k \in D : c[k] = d[at[k]], NEW support
      PROVE  Relates(masks, c, support) <=>
               /\ Cardinality(Support(d)) = support /\ SpansPieces(Support(d)) /\ Vanishes(d, mask)
  <2>1. Placed(at, masks, mask, c, d)
    BY <1>1, <1>2, <1>6 DEF Placed
  <2>2. /\ Cardinality(Support(d)) = Cardinality(Support(c))
        /\ SpansPieces(Support(d)) <=> \E i, k \in Support(c) : masks[i][2] # masks[k][2]
        /\ Vanishes(d, mask) <=> Vanishes(c, PointsOf(masks))
    BY <2>1, PlacedRelates
  <2> QED BY <2>2 DEF Relates
<1>7. CrossRelation(mask, width, lowest .. highest) <=>
        \E d \in [X -> B] : /\ Cardinality(Support(d)) \in lowest .. highest
                            /\ SpansPieces(Support(d)) /\ Vanishes(d, mask)
  BY DEF CrossRelation, B
<1>8. ASSUME RelationInRange(masks, width, lowest, highest)
      PROVE  CrossRelation(mask, width, lowest .. highest)
  <2>1. PICK support \in lowest .. highest, c \in [D -> B] : Relates(masks, c, support)
    BY <1>4, <1>5, <1>8
  <2> DEFINE d == [x \in X |-> c[CHOOSE k \in D : at[k] = x]]
  <2>2. ASSUME NEW k \in D PROVE at[k] \in X /\ d[at[k]] = c[k]
    <3>1. PICK x \in X : x = at[k]
      BY <1>1
    <3>2. (CHOOSE l \in D : at[l] = x) = k
      BY <1>1, <3>1
    <3> QED BY <3>1, <3>2
  <2>3. d \in [X -> B]
    <3>1. ASSUME NEW x \in X PROVE c[CHOOSE k \in D : at[k] = x] \in B
      <4>1. PICK k \in D : at[k] = x
        BY <1>1
      <4>2. (CHOOSE l \in D : at[l] = x) \in D
        BY <4>1
      <4> QED BY <4>2
    <3> QED BY <3>1
  <2> HIDE DEF d
  <2>4. Cardinality(Support(d)) = support /\ SpansPieces(Support(d)) /\ Vanishes(d, mask)
    BY <1>6, <2>1, <2>2, <2>3
  <2> QED BY <1>7, <2>1, <2>3, <2>4
<1>9. ASSUME CrossRelation(mask, width, lowest .. highest)
      PROVE  RelationInRange(masks, width, lowest, highest)
  <2>1. PICK d \in [X -> B] : /\ Cardinality(Support(d)) \in lowest .. highest
                              /\ SpansPieces(Support(d)) /\ Vanishes(d, mask)
    BY <1>7, <1>9
  <2> DEFINE c == [k \in D |-> d[at[k]]]
  <2>2. c \in [D -> B] /\ \A k \in D : c[k] = d[at[k]]
    BY <1>1
  <2> HIDE DEF c
  <2>3. PICK support \in lowest .. highest : support = Cardinality(Support(d))
    BY <2>1
  <2>4. Relates(masks, c, support)
    BY <1>6, <2>1, <2>2, <2>3
  <2> QED BY <1>4, <1>5, <2>2, <2>4
<1> QED BY <1>8, <1>9

\* The scans across pieces find the relations they are for, and only those.
LEMMA CrossAnswers ==
  ASSUME NEW ps \in Seq(Seq(Scalars))
  PROVE  CrossSearch(ps) <=> CrossPieceRelation(ps)
<1>1. PICK masks : masks = Flat(ps)
  OBVIOUS
<1>2. PICK mask : mask = MasksOf(ps)
  OBVIOUS
<1>3. PICK at : Indexes(at, masks, mask)
  BY <1>1, <1>2, FlatIndexes
<1> DEFINE Multiples == \E x, y \in DOMAIN mask :
             x[1] # y[1] /\ \E s \in 1 .. ScalarBound : Multiple(s, mask[x]) \in UpToSign(mask[y])
           Offsets == \E x, y \in DOMAIN mask : x[1] # y[1] /\ PairOffset(mask[x], mask[y])
           Equal == \E i, k \in DOMAIN masks : masks[i][1] = masks[k][1] /\ masks[i][2] # masks[k][2]
           Small == CrossRelation(mask, CoefficientBound, 2 .. SmallSupportBound)
           Unit == CrossRelation(mask, 1, SmallSupportBound + 1 .. UnitSupportBound)
<1>4. CrossScalarSearch(masks) <=> Multiples
  BY <1>3, CrossScalarsAnswer
<1>5. PairOffsetSearch(masks, TRUE) <=> Offsets
  BY <1>3, CrossOffsetsAnswer
<1>6. /\ CoefficientBound \in Nat /\ SmallSupportBound \in Nat \ {0} /\ UnitSupportBound \in Nat
      /\ HalfSupportBound \in Nat /\ ScalarBound \in Nat \ {0}
      /\ SmallSupportBound <= UnitSupportBound /\ UnitSupportBound <= 2 * HalfSupportBound
  BY ScreenAssumption, MaskAssumption
<1>7. RelationInRange(masks, CoefficientBound, 2, SmallSupportBound) <=> Small
  <2>1. PICK lowest \in Nat : lowest = 2
    OBVIOUS
  <2>2. lowest >= 2 /\ SmallSupportBound <= 2 * HalfSupportBound /\ SmallSupportBound \in Nat
    BY <1>6, <2>1
  <2>3. RelationInRange(masks, CoefficientBound, lowest, SmallSupportBound) <=>
          CrossRelation(mask, CoefficientBound, lowest .. SmallSupportBound)
    BY <1>3, <1>6, <2>2, RangeAnswers
  <2> QED BY <2>1, <2>3
<1>8. RelationInRange(masks, 1, SmallSupportBound + 1, UnitSupportBound) <=> Unit
  <2>1. PICK lowest \in Nat : lowest = SmallSupportBound + 1
    BY <1>6
  <2>2. PICK one \in Nat : one = 1
    OBVIOUS
  <2>3. lowest >= 2
    BY <1>6, <2>1
  <2>4. RelationInRange(masks, one, lowest, UnitSupportBound) <=>
          CrossRelation(mask, one, lowest .. UnitSupportBound)
    BY <1>3, <1>6, <2>3, RangeAnswers
  <2> QED BY <2>1, <2>2, <2>4
<1>9. ASSUME Equal PROVE Multiples
  <2>1. PICK i \in DOMAIN masks, k \in DOMAIN masks : masks[i][1] = masks[k][1] /\ masks[i][2] # masks[k][2]
    BY <1>9
  <2>2. PICK x \in DOMAIN mask, y \in DOMAIN mask :
          x = at[i] /\ y = at[k] /\ mask[x] = mask[y] /\ x[1] # y[1] /\ mask[x] \in Scalars
    BY <1>3, <2>1 DEF Indexes
  <2>3. PICK p \in Scalars : p = mask[x] /\ p = mask[y]
    BY <2>2
  <2>4. Multiple(1, p) = p
    <3>1. PICK one \in Int : one = 1
      OBVIOUS
    <3>2. Multiple(one, p) \in Scalars /\ Same(Multiple(one, p), one * p)
      BY MultipleSame
    <3>3. p \in Int
      BY AlgebraAssumption DEF Scalars
    <3>4. one * p = p
      BY <3>1, <3>3
    <3> QED BY <3>1, <3>2, <3>4, SameScalars
  <2>5. 1 \in 1 .. ScalarBound /\ Multiple(1, mask[x]) \in UpToSign(mask[y])
    BY <1>6, <2>3, <2>4 DEF UpToSign
  <2> QED BY <2>2, <2>5
<1>10. CrossSearch(ps) <=>
         \/ Len(ps) > PieceBound
         \/ Equal
         \/ CrossScalarSearch(masks)
         \/ PairOffsetSearch(masks, TRUE)
         \/ RelationInRange(masks, 1, SmallSupportBound + 1, UnitSupportBound)
         \/ RelationInRange(masks, CoefficientBound, 2, SmallSupportBound)
  BY <1>1 DEF CrossSearch
<1>11. CrossPieceRelation(ps) <=> Len(ps) > PieceBound \/ Multiples \/ Offsets \/ Small \/ Unit
  BY <1>2 DEF CrossPieceRelation
<1> HIDE DEF Multiples, Offsets, Equal, Small, Unit
<1> QED BY <1>4, <1>5, <1>7, <1>8, <1>9, <1>10, <1>11

\* Whatever masks are drawn, and however they are spread over pieces, the scans
\* across pieces report a relation if there is one of the supports and
\* coefficients they are documented for, and only then (assembly.rs,
\* cross_piece_elgamal_mask_relation).
THEOREM CrossSearchAnswers == MasksSpec => []CrossSearchIsExact
<1>1. MasksInit => PiecesInv
  BY DEF MasksInit, PiecesInv
<1>2. PiecesInv => CrossSearchIsExact
  BY CrossAnswers DEF PiecesInv, CrossSearchIsExact
<1> QED BY <1>1, <1>2, PiecesStep, PTL DEF MasksSpec

----------------------------------------------------------------------------
(* The screens of a roster.                                                *)

LEMMA RosterConstants ==
  /\ ScalarWindow \in Nat \ {0} /\ TargetWindow \in Nat \ {0} /\ MixedWindow \in Nat \ {0}
  /\ TargetWindow <= ScalarWindow /\ MixedWindow <= ScalarWindow /\ ScalarWindow < Order
  /\ Keys \subseteq Scalars \ {0} /\ 0 \in Scalars /\ Scalars \subseteq Int /\ Order \in Nat \ {0, 1}
BY RosterScreensAssumption, AlgebraAssumption DEF Scalars, Identity

\* The group of points.
LEMMA PointAlgebra ==
  ASSUME NEW x \in Scalars, NEW y \in Scalars, NEW z \in Scalars
  PROVE  /\ Plus(x, y) \in Scalars /\ Plus(x, y) = Plus(y, x) /\ Plus(x, 0) = x
         /\ Plus(x, y) = z <=> x = Plus(Negated(y), z)
         /\ Negated(Plus(x, y)) = Plus(Negated(x), Negated(y))
         /\ Plus(x, y) = 0 <=> x = Negated(y)
         /\ x = Negated(y) <=> Negated(x) = y
<1>1. /\ Order \in Nat \ {0, 1} /\ x \in 0 .. Order - 1 /\ y \in 0 .. Order - 1 /\ z \in 0 .. Order - 1
      /\ 0 \in Scalars
  BY AlgebraAssumption DEF Scalars
<1>2. ASSUME NEW p \in Scalars, NEW q \in Scalars
      PROVE  /\ Plus(p, q) = (IF p + q < Order THEN p + q ELSE p + q - Order) /\ Plus(p, q) \in Scalars
             /\ Negated(p) = (IF p = 0 THEN 0 ELSE Order - p) /\ Negated(p) \in Scalars
  <2>1. Plus(p, q) = IF p + q < Order THEN p + q ELSE p + q - Order
    BY ByParts
  <2>2. Negated(p) = (IF p = 0 THEN 0 ELSE Order - p) /\ Negated(p) \in Scalars
    BY SignFacts
  <2>3. p \in 0 .. Order - 1 /\ q \in 0 .. Order - 1
    BY DEF Scalars
  <2> QED BY <1>1, <2>1, <2>2, <2>3 DEF Scalars
<1>3. PICK nx \in Scalars, ny \in Scalars :
        nx = Negated(x) /\ ny = Negated(y)
        /\ nx = (IF x = 0 THEN 0 ELSE Order - x) /\ ny = (IF y = 0 THEN 0 ELSE Order - y)
  BY <1>2
<1>4. PICK s \in Scalars : s = Plus(x, y) /\ s = (IF x + y < Order THEN x + y ELSE x + y - Order)
  BY <1>2
<1>5. nx \in 0 .. Order - 1 /\ ny \in 0 .. Order - 1 /\ s \in 0 .. Order - 1
  BY DEF Scalars
<1>6. Plus(y, x) = s
  <2>1. Plus(y, x) = IF y + x < Order THEN y + x ELSE y + x - Order
    BY <1>2
  <2> QED BY <1>1, <1>4, <2>1
<1>7. Plus(x, 0) = x
  <2>1. Plus(x, 0) = IF x + 0 < Order THEN x + 0 ELSE x + 0 - Order
    BY <1>1, <1>2
  <2> QED BY <1>1, <2>1
<1>8. s = z <=> x = Plus(ny, z)
  <2>1. Plus(ny, z) = IF ny + z < Order THEN ny + z ELSE ny + z - Order
    BY <1>2
  <2> QED BY <1>1, <1>3, <1>4, <1>5, <2>1
<1>9. Negated(s) = Plus(nx, ny)
  <2>1. Plus(nx, ny) = IF nx + ny < Order THEN nx + ny ELSE nx + ny - Order
    BY <1>2
  <2>2. Negated(s) = IF s = 0 THEN 0 ELSE Order - s
    BY <1>2
  <2> QED BY <1>1, <1>3, <1>4, <1>5, <2>1, <2>2
<1>10. s = 0 <=> x = ny
  BY <1>1, <1>3, <1>4, <1>5
<1>11. x = ny <=> nx = y
  BY <1>1, <1>3, <1>5
<1> QED BY <1>3, <1>4, <1>6, <1>7, <1>8, <1>9, <1>10, <1>11

LEMMA MultipleFacts ==
  ASSUME NEW a \in Int, NEW p \in Scalars
  PROVE  /\ Multiple(a, p) \in Scalars /\ Multiple(-a, p) = Negated(Multiple(a, p))
         /\ Multiple(0, p) = 0 /\ Multiple(1, p) = p /\ Multiple(-1, p) = Negated(p)
<1>1. p \in Int /\ Scalars \subseteq Int /\ 0 \in Scalars
  BY AlgebraAssumption DEF Scalars
<1>2. ASSUME NEW b \in Int
      PROVE  Multiple(b, p) \in Scalars /\ Multiple(-b, p) = Negated(Multiple(b, p))
  <2>1. Multiple(b, p) \in Scalars /\ Same(Multiple(b, p), b * p)
    BY MultipleSame
  <2>2. PICK c \in Int : c = -b
    OBVIOUS
  <2>3. Multiple(c, p) \in Scalars /\ Same(Multiple(c, p), c * p)
    BY MultipleSame
  <2>4. PICK x \in Scalars : x = Multiple(b, p)
    BY <2>1
  <2>5. x \in Int /\ 0 \in Int /\ b * p \in Int /\ c * p \in Int /\ 0 - b * p = c * p
    <3>1. b * p \in Int /\ c * p = -(b * p)
      BY <1>1, <2>2
    <3>2. x \in Int
      BY <1>1
    <3> QED BY <3>1, <3>2
  <2>6. Same(0, 0) /\ Same(x, b * p)
    BY <1>1, <2>1, <2>4, SameIsEquivalence
  <2>7. Minus(0, x) \in Int /\ Same(Minus(0, x), 0 - b * p)
    BY <2>5, <2>6, SameThrough
  <2>8. Minus(0, x) \in Scalars
    BY <2>5, SameOperations
  <2>9. PICK u \in Int, v \in Int : u = Multiple(c, p) /\ v = Minus(0, x)
    BY <1>1, <2>3, <2>7
  <2>10. PICK w \in Int : w = c * p /\ Same(u, w) /\ Same(v, w)
    BY <2>3, <2>5, <2>7, <2>9
  <2>11. Same(w, v)
    BY <2>10, SameIsEquivalence
  <2>12. Same(u, v)
    BY <2>10, <2>11, SameIsEquivalence
  <2>13. u = v
    BY <2>3, <2>8, <2>9, <2>12, SameScalars
  <2> QED BY <2>1, <2>2, <2>4, <2>9, <2>13 DEF Negated
<1>3. Multiple(0, p) = 0
  <2>1. PICK z \in Int : z = 0
    OBVIOUS
  <2>2. Multiple(z, p) \in Scalars /\ Same(Multiple(z, p), z * p)
    BY MultipleSame
  <2>3. z * p = 0
    BY <1>1, <2>1
  <2> QED BY <1>1, <2>1, <2>2, <2>3, SameScalars
<1>4. Multiple(1, p) = p
  <2>1. PICK one \in Int : one = 1
    OBVIOUS
  <2>2. Multiple(one, p) \in Scalars /\ Same(Multiple(one, p), one * p)
    BY MultipleSame
  <2>3. one * p = p
    BY <1>1, <2>1
  <2> QED BY <2>1, <2>2, <2>3, SameScalars
<1>5. Multiple(-1, p) = Negated(p)
  <2>1. PICK one \in Int : one = 1
    OBVIOUS
  <2>2. Multiple(-one, p) = Negated(Multiple(one, p))
    BY <1>2
  <2> QED BY <1>4, <2>1, <2>2
<1> QED BY <1>2, <1>3, <1>4, <1>5

\* No multiple in a window is the identity.
LEMMA WindowMisses ==
  ASSUME NEW a \in NonZero(ScalarWindow), NEW p \in Keys
  PROVE  a \in Int /\ Multiple(a, p) \in Scalars \ {0}
<1>1. a \in Int /\ a # 0 /\ -ScalarWindow <= a /\ a <= ScalarWindow /\ p \in Scalars /\ p # 0
  BY RosterConstants DEF NonZero
<1>2. Multiple(a, p) \in Scalars
  BY <1>1, MultipleFacts
<1>3. a % Order \in Scalars /\ a % Order # 0
  <2>1. PICK r \in 0 .. Order - 1 : r # 0 /\ (a = r \/ a = r - Order)
    <3>1. CASE a > 0
      <4>1. a \in 0 .. Order - 1
        BY <1>1, <3>1, RosterConstants
      <4> QED BY <1>1, <4>1
    <3>2. CASE a < 0
      <4>1. a + Order \in 0 .. Order - 1 /\ a + Order # 0 /\ a = (a + Order) - Order
        BY <1>1, <3>2, RosterConstants
      <4> QED BY <4>1
    <3> QED BY <1>1, <3>1, <3>2
  <2>2. (Order * 0 + r) % Order = r /\ (Order * (-1) + r) % Order = r
    BY RosterConstants, DivisionUnique
  <2>3. a = Order * 0 + r \/ a = Order * (-1) + r
    BY <2>1, RosterConstants
  <2> QED BY <2>1, <2>2, <2>3 DEF Scalars
<1>4. Multiple(a, p) = Times(a % Order, p)
  BY DEF Multiple
<1>5. Multiple(a, p) # 0
  BY <1>1, <1>3, <1>4, NoZeroDivisors
<1> QED BY <1>1, <1>2, <1>5

\* Two tables share an x-coordinate if points are equal up to sign.
LEMMA KeysMeet ==
  ASSUME NEW S \in SUBSET Scalars, NEW T \in SUBSET Scalars
  PROVE  XKeys(S) \cap XKeys(T) # {} <=>
           \E x \in S, y \in T : x # 0 /\ y # 0 /\ (x = y \/ x = Negated(y))
<1>1. ASSUME NEW x \in Scalars, NEW y \in Scalars PROVE XKey(x) = XKey(y) <=> x = y \/ x = Negated(y)
  <2>1. y \in Int /\ Scalars \subseteq Int
    BY AlgebraAssumption DEF Scalars
  <2>2. Same(y, y)
    BY <2>1, SameIsEquivalence
  <2>3. x \in UpToSign(y) <=> XKey(x) = XKey(y)
    BY <2>1, <2>2, UpToSignSame
  <2> QED BY <2>3 DEF UpToSign
<1>2. ASSUME XKeys(S) \cap XKeys(T) # {}
      PROVE  \E x \in S, y \in T : x # 0 /\ y # 0 /\ (x = y \/ x = Negated(y))
  <2>1. PICK k : k \in XKeys(S) /\ k \in XKeys(T)
    BY <1>2
  <2>2. PICK x \in S \ {0} : k = XKey(x)
    BY <2>1 DEF XKeys, Identity
  <2>3. PICK y \in T \ {0} : k = XKey(y)
    BY <2>1 DEF XKeys, Identity
  <2> QED BY <1>1, <2>2, <2>3
<1>3. ASSUME NEW x \in S, NEW y \in T, x # 0, y # 0, x = y \/ x = Negated(y)
      PROVE  XKeys(S) \cap XKeys(T) # {}
  <2>1. XKey(x) = XKey(y)
    BY <1>1, <1>3
  <2>2. XKey(x) \in XKeys(S) /\ XKey(y) \in XKeys(T)
    BY <1>3 DEF XKeys, Identity
  <2> QED BY <2>1, <2>2
<1> QED BY <1>2, <1>3

\* A window has the multiples by positive coefficients; with both signs it has
\* those by all of them.
LEMMA WindowsAre ==
  ASSUME NEW p \in Scalars, NEW width \in Nat
  PROVE  /\ Window(p, width) \in SUBSET Scalars
         /\ BothSigns(Window(p, width)) = {Multiple(a, p) : a \in NonZero(width)}
<1>1. ASSUME NEW a \in Int PROVE Multiple(a, p) \in Scalars /\ Multiple(-a, p) = Negated(Multiple(a, p))
  BY MultipleFacts
<1>2. Window(p, width) = {Multiple(a, p) : a \in 1 .. width}
  BY DEF Window
<1>3. Window(p, width) \in SUBSET Scalars
  BY <1>1, <1>2
<1>4. ASSUME NEW x \in BothSigns(Window(p, width)) PROVE \E a \in NonZero(width) : x = Multiple(a, p)
  <2>1. PICK a \in 1 .. width : x = Multiple(a, p) \/ x = Negated(Multiple(a, p))
    BY <1>2 DEF BothSigns
  <2>2. a \in NonZero(width) /\ -a \in NonZero(width) /\ a \in Int
    BY DEF NonZero
  <2> QED BY <1>1, <2>1, <2>2
<1>5. ASSUME NEW a \in NonZero(width) PROVE Multiple(a, p) \in BothSigns(Window(p, width))
  <2>1. PICK b \in 1 .. width : b \in Int /\ (a = b \/ a = -b)
    <3>1. CASE a > 0
      BY <3>1 DEF NonZero
    <3>2. CASE a < 0
      <4>1. -a \in 1 .. width /\ a = -(-a)
        BY <3>2 DEF NonZero
      <4> QED BY <4>1
    <3>3. a \in Int /\ a # 0
      BY DEF NonZero
    <3> QED BY <3>1, <3>2, <3>3
  <2>2. Multiple(b, p) \in Window(p, width)
    BY <1>2
  <2>3. Multiple(a, p) = Multiple(b, p) \/ Multiple(a, p) = Negated(Multiple(b, p))
    BY <1>1, <2>1
  <2> QED BY <2>2, <2>3 DEF BothSigns
<1> QED BY <1>3, <1>4, <1>5

\* The relations of two and of three keys.
PairRelate(p, q, ks, coefficients) ==
  \E k \in ks, a \in coefficients : Multiple(k, p) = Multiple(a, q)
TwoRelate(p, q) ==
  \E a \in 1 .. ScalarWindow, b \in NonZero(ScalarWindow) : Multiple(a, p) = Multiple(b, q)
ThreeRelate(t, p, q, ks, coefficients) ==
  \E k \in ks, a, b \in coefficients : Multiple(k, t) = Plus(Multiple(a, p), Multiple(b, q))

LEMMA TwoRelateBothWays ==
  ASSUME NEW p \in Scalars, NEW q \in Scalars, TwoRelate(p, q)
  PROVE  TwoRelate(q, p)
<1>1. PICK a \in 1 .. ScalarWindow, b \in NonZero(ScalarWindow) : Multiple(a, p) = Multiple(b, q)
  BY DEF TwoRelate
<1>2. a \in Int /\ b \in Int /\ b # 0 /\ -ScalarWindow <= b /\ b <= ScalarWindow
  BY RosterConstants DEF NonZero
<1>3. CASE b > 0
  <2>1. b \in 1 .. ScalarWindow /\ a \in NonZero(ScalarWindow)
    BY <1>2, <1>3, RosterConstants DEF NonZero
  <2> QED BY <1>1, <2>1 DEF TwoRelate
<1>4. CASE b < 0
  <2>1. PICK c \in 1 .. ScalarWindow, d \in NonZero(ScalarWindow) : c = -b /\ d = -a
    BY <1>2, <1>4, RosterConstants DEF NonZero
  <2>2. Multiple(c, q) = Negated(Multiple(b, q)) /\ Multiple(d, p) = Negated(Multiple(a, p))
    BY <1>2, <2>1, MultipleFacts
  <2> QED BY <1>1, <2>1, <2>2 DEF TwoRelate
<1> QED BY <1>2, <1>3, <1>4

\* has_signed_scalar_relation finds the relations of two keys.
LEMMA ScalarRelatedWhen ==
  ASSUME NEW p \in Keys, NEW q \in Keys
  PROVE  ScalarRelated(p, q) <=> TwoRelate(p, q)
<1>1. p \in Scalars /\ q \in Scalars /\ ScalarWindow \in Nat
  BY RosterConstants
<1>2. Window(p, ScalarWindow) \in SUBSET Scalars /\ Window(q, ScalarWindow) \in SUBSET Scalars
  BY <1>1, WindowsAre
<1>3. ASSUME NEW k \in Keys, NEW a \in 1 .. ScalarWindow
      PROVE  /\ a \in Int /\ Multiple(a, k) \in Scalars \ {0} /\ Multiple(-a, k) = Negated(Multiple(a, k))
             /\ a \in NonZero(ScalarWindow) /\ -a \in NonZero(ScalarWindow)
  <2>1. a \in Int /\ a \in NonZero(ScalarWindow) /\ -a \in NonZero(ScalarWindow) /\ k \in Scalars
    BY RosterConstants DEF NonZero
  <2>2. Multiple(a, k) \in Scalars \ {0}
    BY <2>1, WindowMisses
  <2>3. Multiple(-a, k) = Negated(Multiple(a, k))
    BY <2>1, MultipleFacts
  <2> QED BY <2>1, <2>2, <2>3
<1>4. ScalarRelated(p, q) <=>
        \E a \in 1 .. ScalarWindow, b \in 1 .. ScalarWindow :
          Multiple(a, p) = Multiple(b, q) \/ Multiple(a, p) = Negated(Multiple(b, q))
  <2>1. ScalarRelated(p, q) <=>
          \E x \in Window(p, ScalarWindow), y \in Window(q, ScalarWindow) :
            x # 0 /\ y # 0 /\ (x = y \/ x = Negated(y))
    BY <1>2, KeysMeet DEF ScalarRelated
  <2> QED BY <1>3, <2>1 DEF Window
<1>5. ASSUME NEW b \in NonZero(ScalarWindow) PROVE \E c \in 1 .. ScalarWindow : b = c \/ b = -c
  <2>1. b \in 1 .. ScalarWindow \/ (-b \in 1 .. ScalarWindow /\ b = -(-b))
    BY <1>1 DEF NonZero
  <2> QED BY <2>1
<1>6. ASSUME NEW a \in 1 .. ScalarWindow
      PROVE  (\E b \in 1 .. ScalarWindow :
                Multiple(a, p) = Multiple(b, q) \/ Multiple(a, p) = Negated(Multiple(b, q)))
             <=> \E b \in NonZero(ScalarWindow) : Multiple(a, p) = Multiple(b, q)
  BY <1>3, <1>5
<1> QED BY <1>4, <1>6 DEF TwoRelate

\* A table of offsets is probed for the unit relations of a target.
LEMMA UnitTargetWhen ==
  ASSUME NEW t \in Keys, NEW p \in Keys, NEW q \in Keys
  PROVE  OffsetKeys(t, p) \cap XKeys(Window(q, ScalarWindow)) # {} <=>
           ThreeRelate(t, p, q, {1}, NonZero(ScalarWindow))
<1> DEFINE sums == {Plus(t, m) : m \in BothSigns(Window(p, ScalarWindow))}
<1>1. t \in Scalars /\ p \in Scalars /\ q \in Scalars /\ ScalarWindow \in Nat /\ 0 \in Scalars
  BY RosterConstants
<1>2. ASSUME NEW a \in NonZero(ScalarWindow), NEW k \in Keys
      PROVE  /\ a \in Int /\ Multiple(a, k) \in Scalars /\ Multiple(a, k) # 0 /\ -a \in NonZero(ScalarWindow)
             /\ Multiple(-a, k) = Negated(Multiple(a, k))
  <2>1. a \in Int /\ Multiple(a, k) \in Scalars \ {0} /\ k \in Scalars
    BY WindowMisses, RosterConstants
  <2>2. -a \in NonZero(ScalarWindow)
    BY <1>1 DEF NonZero
  <2>3. Multiple(-a, k) = Negated(Multiple(a, k))
    BY <2>1, MultipleFacts
  <2> QED BY <2>1, <2>2, <2>3
<1>3. BothSigns(Window(p, ScalarWindow)) = {Multiple(a, p) : a \in NonZero(ScalarWindow)}
      /\ Window(q, ScalarWindow) \in SUBSET Scalars
  BY <1>1, WindowsAre
<1>4. sums \in SUBSET Scalars
  <2>1. ASSUME NEW m \in BothSigns(Window(p, ScalarWindow)) PROVE Plus(t, m) \in Scalars
    <3>1. m \in Scalars
      BY <1>2, <1>3
    <3> QED BY <1>1, <3>1, PointAlgebra
  <2> QED BY <2>1
<1>5. OffsetKeys(t, p) \cap XKeys(Window(q, ScalarWindow)) # {} <=>
        \E x \in sums, y \in Window(q, ScalarWindow) : x # 0 /\ y # 0 /\ (x = y \/ x = Negated(y))
  <2>1. OffsetKeys(t, p) = XKeys(sums)
    BY DEF OffsetKeys
  <2> HIDE DEF sums
  <2> QED BY <1>3, <1>4, <2>1, KeysMeet
<1>6. ASSUME NEW a \in NonZero(ScalarWindow), NEW b \in NonZero(ScalarWindow)
      PROVE  Plus(t, Multiple(a, p)) = Multiple(b, q) <=> t = Plus(Multiple(-a, p), Multiple(b, q))
  <2>1. PICK x \in Scalars, y \in Scalars : x = Multiple(a, p) /\ y = Multiple(b, q)
    BY <1>2
  <2>2. Plus(t, x) = y <=> t = Plus(Negated(x), y)
    BY <1>1, PointAlgebra
  <2> QED BY <1>2, <2>1, <2>2
<1>7. ThreeRelate(t, p, q, {1}, NonZero(ScalarWindow)) <=>
        \E a, b \in NonZero(ScalarWindow) : t = Plus(Multiple(a, p), Multiple(b, q))
  <2>1. Multiple(1, t) = t
    <3>1. PICK one \in Int : one = 1
      OBVIOUS
    <3> QED BY <1>1, MultipleFacts, <3>1
  <2> QED BY <2>1 DEF ThreeRelate
<1>8. ASSUME OffsetKeys(t, p) \cap XKeys(Window(q, ScalarWindow)) # {}
      PROVE  \E a, b \in NonZero(ScalarWindow) : t = Plus(Multiple(a, p), Multiple(b, q))
  <2>1. PICK x \in sums, y \in Window(q, ScalarWindow) : x = y \/ x = Negated(y)
    BY <1>5, <1>8
  <2>2. PICK a \in NonZero(ScalarWindow) : x = Plus(t, Multiple(a, p))
    BY <1>3
  <2>3. PICK c \in NonZero(ScalarWindow) : y = Multiple(c, q)
    <3>1. 1 .. ScalarWindow \subseteq NonZero(ScalarWindow)
      BY <1>1 DEF NonZero
    <3> QED BY <3>1 DEF Window
  <2>4. PICK b \in NonZero(ScalarWindow) : x = Multiple(b, q)
    BY <1>2, <2>1, <2>3
  <2>5. PICK d \in NonZero(ScalarWindow) : d = -a
    BY <1>2
  <2> QED BY <1>6, <2>2, <2>4, <2>5
<1>9. ASSUME NEW a \in NonZero(ScalarWindow), NEW b \in NonZero(ScalarWindow),
             t = Plus(Multiple(a, p), Multiple(b, q))
      PROVE  OffsetKeys(t, p) \cap XKeys(Window(q, ScalarWindow)) # {}
  <2>1. PICK d \in NonZero(ScalarWindow) : d = -a /\ -d = a
    <3>1. -a \in NonZero(ScalarWindow) /\ a \in Int
      BY <1>2
    <3> QED BY <3>1
  <2>2. Plus(t, Multiple(d, p)) = Multiple(b, q)
    BY <1>6, <1>9, <2>1
  <2>3. Multiple(b, q) \in sums /\ Multiple(b, q) # 0
    BY <1>2, <1>3, <2>2
  <2>4. \E y \in Window(q, ScalarWindow) : y # 0 /\ (Multiple(b, q) = y \/ Multiple(b, q) = Negated(y))
    <3>1. CASE b > 0
      <4>1. b \in 1 .. ScalarWindow
        BY <1>1, <3>1 DEF NonZero
      <4> QED BY <2>3, <4>1 DEF Window
    <3>2. CASE b < 0
      <4>1. PICK c \in NonZero(ScalarWindow) : c = -b /\ -c = b /\ c \in 1 .. ScalarWindow
        BY <1>1, <3>2 DEF NonZero
      <4>2. Multiple(c, q) \in Window(q, ScalarWindow) /\ Multiple(c, q) # 0
        BY <1>2, <4>1 DEF Window
      <4>3. Multiple(b, q) = Negated(Multiple(c, q))
        BY <1>2, <4>1
      <4> QED BY <4>2, <4>3
    <3>3. b \in Int /\ b # 0
      BY DEF NonZero
    <3> QED BY <3>1, <3>2, <3>3
  <2> QED BY <1>5, <2>3, <2>4
<1> QED BY <1>7, <1>8, <1>9

\* The sums of two windows are probed for the low relations of a target.
LEMMA LowTargetWhen ==
  ASSUME NEW t \in Keys, NEW p \in Keys, NEW q \in Keys
  PROVE  PairSums(p, q) \cap XKeys(Window(t, TargetWindow)) # {} <=>
           ThreeRelate(t, p, q, 1 .. TargetWindow, NonZero(TargetWindow))
<1> DEFINE sums == {Plus(l, r) : l \in Window(p, TargetWindow), r \in BothSigns(Window(q, TargetWindow))}
<1>1. t \in Scalars /\ p \in Scalars /\ q \in Scalars /\ TargetWindow \in Nat /\ 0 \in Scalars
  BY RosterConstants
<1>2. ASSUME NEW a \in NonZero(TargetWindow), NEW k \in Keys
      PROVE  /\ a \in Int /\ Multiple(a, k) \in Scalars /\ Multiple(a, k) # 0 /\ -a \in NonZero(TargetWindow)
             /\ Multiple(-a, k) = Negated(Multiple(a, k))
  <2>1. a \in NonZero(ScalarWindow)
    BY RosterConstants DEF NonZero
  <2>2. a \in Int /\ Multiple(a, k) \in Scalars \ {0} /\ k \in Scalars
    BY <2>1, WindowMisses, RosterConstants
  <2>3. -a \in NonZero(TargetWindow)
    BY <1>1 DEF NonZero
  <2>4. Multiple(-a, k) = Negated(Multiple(a, k))
    BY <2>2, MultipleFacts
  <2> QED BY <2>2, <2>3, <2>4
<1>3. /\ BothSigns(Window(q, TargetWindow)) = {Multiple(a, q) : a \in NonZero(TargetWindow)}
      /\ Window(t, TargetWindow) \in SUBSET Scalars
      /\ Window(p, TargetWindow) = {Multiple(a, p) : a \in 1 .. TargetWindow}
      /\ Window(t, TargetWindow) = {Multiple(a, t) : a \in 1 .. TargetWindow}
      /\ 1 .. TargetWindow \subseteq NonZero(TargetWindow)
  <2>1. BothSigns(Window(q, TargetWindow)) = {Multiple(a, q) : a \in NonZero(TargetWindow)}
    BY <1>1, WindowsAre
  <2>2. Window(t, TargetWindow) \in SUBSET Scalars
    BY <1>1, WindowsAre
  <2>3. 1 .. TargetWindow \subseteq NonZero(TargetWindow)
    BY <1>1 DEF NonZero
  <2> QED BY <2>1, <2>2, <2>3 DEF Window
<1>4. \A x : x \in sums <=> \E a \in 1 .. TargetWindow, b \in NonZero(TargetWindow) :
                              x = Plus(Multiple(a, p), Multiple(b, q))
  BY <1>3
<1>5. ASSUME NEW a \in NonZero(TargetWindow), NEW b \in NonZero(TargetWindow)
      PROVE  /\ Plus(Multiple(a, p), Multiple(b, q)) \in Scalars
             /\ Negated(Plus(Multiple(a, p), Multiple(b, q))) = Plus(Multiple(-a, p), Multiple(-b, q))
  <2>1. PICK x \in Scalars, y \in Scalars : x = Multiple(a, p) /\ y = Multiple(b, q)
    BY <1>2
  <2>2. Plus(x, y) \in Scalars /\ Negated(Plus(x, y)) = Plus(Negated(x), Negated(y))
    BY PointAlgebra
  <2> QED BY <1>2, <2>1, <2>2
<1>6. sums \in SUBSET Scalars
  BY <1>3, <1>4, <1>5
<1>7. PairSums(p, q) \cap XKeys(Window(t, TargetWindow)) # {} <=>
        \E x \in sums, y \in Window(t, TargetWindow) : x # 0 /\ y # 0 /\ (x = y \/ x = Negated(y))
  <2>1. PairSums(p, q) = XKeys(sums)
    BY DEF PairSums
  <2>2. Window(t, TargetWindow) \in SUBSET Scalars
    BY <1>3
  <2> HIDE DEF sums
  <2>3. XKeys(sums) \cap XKeys(Window(t, TargetWindow)) # {} <=>
          \E x \in sums, y \in Window(t, TargetWindow) : x # 0 /\ y # 0 /\ (x = y \/ x = Negated(y))
    BY <1>6, <2>2, KeysMeet
  <2> QED BY <2>1, <2>3
<1>8. \A x \in Scalars : Negated(x) \in Scalars /\ Negated(Negated(x)) = x /\ (x # 0 => Negated(x) # 0)
  <2>1. ASSUME NEW x \in Scalars PROVE Negated(x) \in Scalars /\ Negated(Negated(x)) = x
    BY SignFacts
  <2>2. Negated(0) = 0
    BY <1>1, SignFacts
  <2> QED BY <2>1, <2>2
<1> HIDE DEF sums
<1>9. ASSUME PairSums(p, q) \cap XKeys(Window(t, TargetWindow)) # {}
      PROVE  ThreeRelate(t, p, q, 1 .. TargetWindow, NonZero(TargetWindow))
  <2>1. PICK x \in sums, y \in Window(t, TargetWindow) : x = y \/ x = Negated(y)
    BY <1>7, <1>9
  <2>2. PICK k \in 1 .. TargetWindow : y = Multiple(k, t)
    BY <1>3
  <2>3. PICK a \in 1 .. TargetWindow, b \in NonZero(TargetWindow) : x = Plus(Multiple(a, p), Multiple(b, q))
    BY <1>4
  <2>4. a \in NonZero(TargetWindow) /\ y \in Scalars
    BY <1>3
  <2>5. CASE x = y
    BY <2>2, <2>3, <2>4, <2>5 DEF ThreeRelate
  <2>6. CASE x = Negated(y)
    <3>1. y = Plus(Multiple(-a, p), Multiple(-b, q))
      <4>1. y = Negated(x)
        BY <1>8, <2>4, <2>6
      <4>2. Negated(Plus(Multiple(a, p), Multiple(b, q))) = Plus(Multiple(-a, p), Multiple(-b, q))
        BY <1>5, <2>4
      <4> QED BY <2>3, <4>1, <4>2
    <3>2. -a \in NonZero(TargetWindow) /\ -b \in NonZero(TargetWindow)
      BY <1>2, <2>4
    <3> QED BY <2>2, <3>1, <3>2 DEF ThreeRelate
  <2> QED BY <2>1, <2>5, <2>6
<1>10. ASSUME ThreeRelate(t, p, q, 1 .. TargetWindow, NonZero(TargetWindow))
       PROVE  PairSums(p, q) \cap XKeys(Window(t, TargetWindow)) # {}
  <2>1. PICK k \in 1 .. TargetWindow, a \in NonZero(TargetWindow), b \in NonZero(TargetWindow) :
          Multiple(k, t) = Plus(Multiple(a, p), Multiple(b, q))
    BY <1>10 DEF ThreeRelate
  <2>2. PICK y \in Window(t, TargetWindow) : y = Multiple(k, t) /\ y # 0 /\ y \in Scalars
    BY <1>2, <1>3
  <2>3. CASE a > 0
    <3>1. a \in 1 .. TargetWindow
      BY <1>1, <2>3 DEF NonZero
    <3> QED BY <1>4, <1>7, <2>1, <2>2, <3>1
  <2>4. CASE a < 0
    <3>1. PICK c \in 1 .. TargetWindow, d \in NonZero(TargetWindow) : c = -a /\ d = -b
      <4>1. -a \in 1 .. TargetWindow
        BY <1>1, <2>4 DEF NonZero
      <4> QED BY <1>2, <4>1
    <3>2. Negated(y) = Plus(Multiple(c, p), Multiple(d, q))
      BY <1>5, <2>1, <2>2, <3>1
    <3>3. Negated(y) \in sums /\ Negated(y) # 0
      BY <1>4, <1>8, <2>2, <3>2
    <3> QED BY <1>7, <2>2, <3>3
  <2>5. a \in Int /\ a # 0
    BY DEF NonZero
  <2> QED BY <2>3, <2>4, <2>5
<1> QED BY <1>9, <1>10

\* A list of n points.
Listed(list, n) == n \in Nat /\ list \in [1 .. n -> Scalars]

\* A roster of n components.
Roster(list, n) == n \in Nat /\ list \in [1 .. n -> Keys]

LEMMA RosterListed ==
  ASSUME NEW list, NEW n, Roster(list, n)
  PROVE  Listed(list, n)
  BY RosterConstants DEF Roster, Listed

Apart(S, T, n) == S \in SUBSET (1 .. n) /\ T \in SUBSET (1 .. n) /\ S \cap T = {}

\* Sums of multiples over parts of a roster.
LEMMA CombinedParts ==
  ASSUME NEW list, NEW n, Listed(list, n), NEW c \in [1 .. n -> Int],
         NEW S, NEW T, Apart(S, T, n)
  PROVE  /\ Combination(list, S, c) \in Scalars
         /\ Combination(list, S \cup T, c) = Plus(Combination(list, S, c), Combination(list, T, c))
<1> DEFINE D == 1 .. n
           term == [i \in D |-> Multiple(c[i], list[i])]
<1>0. n \in Nat /\ list \in [D -> Scalars] /\ S \in SUBSET D /\ T \in SUBSET D /\ S \cap T = {}
  BY DEF Listed, Apart
<1>1. IsFiniteSet(D)
  BY <1>0, FS_Interval
<1>2. term \in [D -> Int]
  <2>1. ASSUME NEW i \in D PROVE Multiple(c[i], list[i]) \in Int
    <3>1. c[i] \in Int /\ list[i] \in Scalars
      BY <1>0, RosterConstants
    <3> QED BY <3>1, MultipleFacts, RosterConstants
  <2> QED BY <2>1
<1>3. Parts(term, D, S, T)
  BY <1>0, <1>1, <1>2 DEF Parts
<1>4. /\ Over(term, S) = [i \in S |-> Multiple(c[i], list[i])]
      /\ Over(term, T) = [i \in T |-> Multiple(c[i], list[i])]
      /\ Over(term, S \cup T) = [i \in S \cup T |-> Multiple(c[i], list[i])]
  BY <1>0 DEF Over
<1>5. /\ Combination(list, S, c) = SumFunction(Over(term, S)) % Order
      /\ Combination(list, T, c) = SumFunction(Over(term, T)) % Order
      /\ Combination(list, S \cup T, c) = SumFunction(Over(term, S \cup T)) % Order
  BY <1>4 DEF Combination, SumOver
<1> HIDE DEF D, term
<1>6. PICK a \in Int, b \in Int :
        a = SumFunction(Over(term, S)) /\ b = SumFunction(Over(term, T)) /\ SumFunction(Over(term, S \cup T)) = a + b
  <2>1. /\ SumFunction(Over(term, S)) \in Int /\ SumFunction(Over(term, T)) \in Int
        /\ SumFunction(Over(term, S \cup T)) = SumFunction(Over(term, S)) + SumFunction(Over(term, T))
    BY <1>3, SumOfParts
  <2> QED BY <2>1
<1>7. PICK x \in Scalars, y \in Scalars : x = a % Order /\ y = b % Order /\ Same(x, a) /\ Same(y, b)
  BY SameReduces
<1>8. x \in Int /\ y \in Int /\ a + b \in Int
  BY RosterConstants
<1>9. Same(x + y, a + b)
  BY <1>7, <1>8, SameArithmetic
<1>10. (x + y) % Order = (a + b) % Order
  <2>1. x + y \in Int
    BY <1>8
  <2> QED BY <1>8, <1>9, <2>1, SameReduces
<1> QED BY <1>5, <1>6, <1>7, <1>10 DEF Plus

\* No term, one term, terms that agree, and terms that are zero.
LEMMA CombinedOfFew ==
  ASSUME NEW list, NEW n, Listed(list, n), NEW c \in [1 .. n -> Int]
  PROVE  /\ Combination(list, {}, c) = 0
         /\ \A i \in 1 .. n : Combination(list, {i}, c) = Multiple(c[i], list[i])
<1>0. n \in Nat /\ list \in [1 .. n -> Scalars]
  BY DEF Listed
<1>1. Combination(list, {}, c) = 0
  <2> DEFINE f == [i \in {} |-> Multiple(c[i], list[i])]
  <2>1. f \in [{} -> Int]
    OBVIOUS
  <2>2. Combination(list, {}, c) = SumFunction(f) % Order
    BY DEF Combination, SumOver
  <2> HIDE DEF f
  <2>3. SumFunction(f) = 0
    BY <2>1, SumEmpty
  <2>4. 0 % Order = 0
    BY RosterConstants, SameReduces
  <2> QED BY <2>2, <2>3, <2>4
<1>2. ASSUME NEW i \in 1 .. n PROVE Combination(list, {i}, c) = Multiple(c[i], list[i])
  <2> DEFINE D == {i}
             f == [k \in D |-> Multiple(c[k], list[k])]
             e == [k \in D \ {i} |-> f[k]]
  <2>1. PICK z \in Scalars : z = Multiple(c[i], list[i])
    <3>1. c[i] \in Int /\ list[i] \in Scalars
      BY <1>0, RosterConstants
    <3> QED BY <3>1, MultipleFacts
  <2>2. f \in [D -> Int] /\ i \in D /\ f[i] = z /\ z \in Int
    BY <2>1, RosterConstants
  <2>3. IsFiniteSet(D)
    BY FS_Singleton
  <2>4. Combination(list, D, c) = SumFunction(f) % Order
    BY DEF Combination, SumOver
  <2>5. e \in [{} -> Int]
    BY <2>2
  <2> HIDE DEF f
  <2>6. SumFunction(f) = f[i] + SumFunction(e)
    <3> HIDE DEF D
    <3> QED BY <2>2, <2>3, SumSplits
  <2> HIDE DEF e
  <2>7. SumFunction(e) = 0
    BY <2>5, SumEmpty
  <2>8. SumFunction(f) = z
    BY <2>2, <2>6, <2>7
  <2>9. z % Order = z
    BY <2>2, SameReduces
  <2> QED BY <2>1, <2>4, <2>8, <2>9
<1> QED BY <1>1, <1>2

LEMMA CombinedAgrees ==
  ASSUME NEW list, NEW S, NEW c, NEW d, \A i \in S : c[i] = d[i]
  PROVE  Combination(list, S, c) = Combination(list, S, d)
<1>1. [i \in S |-> Multiple(c[i], list[i])] = [i \in S |-> Multiple(d[i], list[i])]
  OBVIOUS
<1> QED BY <1>1 DEF Combination, SumOver

\* Coefficients that are zero outside T.
Confined(c, S, T, n) == S \in SUBSET (1 .. n) /\ T \in SUBSET S /\ \A i \in S \ T : c[i] = 0

LEMMA CombinedSupport ==
  ASSUME NEW list, NEW n, Listed(list, n), NEW c \in [1 .. n -> Int],
         NEW S, NEW T, Confined(c, S, T, n)
  PROVE  Combination(list, S, c) = Combination(list, T, c)
<1> DEFINE R == S \ T
           Q == {u \in SUBSET R : Combination(list, u, c) = 0}
<1>0. n \in Nat /\ list \in [1 .. n -> Scalars] /\ R \in SUBSET (1 .. n)
        /\ S \in SUBSET (1 .. n) /\ T \in SUBSET S /\ \A i \in R : c[i] = 0
  BY DEF Listed, Confined
<1>1. IsFiniteSet(R)
  <2>1. IsFiniteSet(1 .. n)
    BY <1>0, FS_Interval
  <2> QED BY <1>0, <2>1, FS_Subset
<1>2. {} \in Q
  BY CombinedOfFew
<1>3. ASSUME NEW u \in SUBSET R, NEW x \in u, u \ {x} \in Q PROVE u \in Q
  <2>1. x \in 1 .. n /\ c[x] = 0 /\ list[x] \in Scalars /\ 0 \in Int
    BY <1>0, RosterConstants
  <2>2. Combination(list, {x}, c) = 0
    <3>1. Combination(list, {}, c) = 0 /\ \A i \in 1 .. n : Combination(list, {i}, c) = Multiple(c[i], list[i])
      BY CombinedOfFew
    <3>2. Multiple(0, list[x]) = 0
      BY <2>1, MultipleFacts
    <3> QED BY <2>1, <3>1, <3>2
  <2>3. PICK v, w : v = u \ {x} /\ w = {x} /\ v \cup w = u /\ Apart(v, w, n)
    <3>1. (u \ {x}) \cup {x} = u
      BY <1>3
    <3>2. Apart(u \ {x}, {x}, n)
      BY <1>0, <2>1 DEF Apart
    <3> QED BY <3>1, <3>2
  <2>4. Combination(list, v \cup w, c) = Plus(Combination(list, v, c), Combination(list, w, c))
    BY <2>3, CombinedParts
  <2>5. Plus(0, 0) = 0
    BY RosterConstants, PointAlgebra
  <2> QED BY <1>3, <2>2, <2>3, <2>4, <2>5
<1>4. Combination(list, R, c) = 0
  <2> HIDE DEF Q
  <2>1. SUBSET R \subseteq Q
    <3> HIDE DEF R
    <3> QED BY <1>1, <1>2, <1>3, AllSubsets
  <2>2. R \in Q
    BY <2>1
  <2> QED BY <2>2 DEF Q
<1>5. PICK v, w : v = T /\ w = R /\ v \cup w = S /\ Apart(v, w, n)
  <2>1. T \cup R = S
    BY <1>0
  <2>2. T \in SUBSET (1 .. n) /\ T \cap R = {}
    BY <1>0
  <2>3. Apart(T, R, n)
    BY <1>0, <2>2 DEF Apart
  <2> QED BY <2>1, <2>3
<1>6. /\ Combination(list, v, c) \in Scalars
      /\ Combination(list, v \cup w, c) = Plus(Combination(list, v, c), Combination(list, w, c))
  BY <1>5, CombinedParts
<1>7. PICK x \in Scalars : x = Combination(list, v, c)
  BY <1>6
<1>8. Plus(x, 0) = x
  BY PointAlgebra
<1> QED BY <1>4, <1>5, <1>6, <1>7, <1>8

\* The opposite coefficients give the opposite sum.
LEMMA CombinedNegated ==
  ASSUME NEW list, NEW n, Listed(list, n), NEW c \in [1 .. n -> Int], NEW d \in [1 .. n -> Int],
         NEW S \in SUBSET (1 .. n), \A i \in S : d[i] = -c[i]
  PROVE  Combination(list, S, d) = Negated(Combination(list, S, c))
<1> DEFINE Q == {u \in SUBSET S : Combination(list, u, d) = Negated(Combination(list, u, c))}
<1>0. n \in Nat /\ list \in [1 .. n -> Scalars]
  BY DEF Listed
<1>1. IsFiniteSet(S)
  <2>1. IsFiniteSet(1 .. n)
    BY <1>0, FS_Interval
  <2> QED BY <2>1, FS_Subset
<1>2. {} \in Q
  <2>1. Combination(list, {}, c) = 0 /\ Combination(list, {}, d) = 0
    BY CombinedOfFew
  <2>2. Negated(0) = 0
    BY RosterConstants, SignFacts
  <2> QED BY <2>1, <2>2
<1>3. ASSUME NEW u \in SUBSET S, NEW x \in u, u \ {x} \in Q PROVE u \in Q
  <2>1. x \in 1 .. n /\ d[x] = -c[x] /\ list[x] \in Scalars /\ c[x] \in Int
    BY <1>0, RosterConstants
  <2>2. Combination(list, {x}, d) = Negated(Combination(list, {x}, c)) /\ Combination(list, {x}, c) \in Scalars
    <3>1. Combination(list, {x}, d) = Multiple(d[x], list[x]) /\ Combination(list, {x}, c) = Multiple(c[x], list[x])
      BY <2>1, CombinedOfFew
    <3>2. Multiple(-c[x], list[x]) = Negated(Multiple(c[x], list[x])) /\ Multiple(c[x], list[x]) \in Scalars
      BY <2>1, MultipleFacts
    <3> QED BY <2>1, <3>1, <3>2
  <2>3. PICK v, w : v = u \ {x} /\ w = {x} /\ v \cup w = u /\ Apart(v, w, n)
    <3>1. (u \ {x}) \cup {x} = u
      BY <1>3
    <3>2. Apart(u \ {x}, {x}, n)
      BY <1>0, <2>1 DEF Apart
    <3> QED BY <3>1, <3>2
  <2>4. Combination(list, v \cup w, d) = Plus(Combination(list, v, d), Combination(list, w, d))
    BY <2>3, CombinedParts
  <2>5. /\ Combination(list, v, c) \in Scalars
        /\ Combination(list, v \cup w, c) = Plus(Combination(list, v, c), Combination(list, w, c))
    BY <2>3, CombinedParts
  <2>6. PICK p \in Scalars, q \in Scalars : p = Combination(list, v, c) /\ q = Combination(list, w, c)
    BY <2>2, <2>3, <2>5
  <2>7. Negated(Plus(p, q)) = Plus(Negated(p), Negated(q))
    BY PointAlgebra
  <2> QED BY <1>3, <2>2, <2>3, <2>4, <2>5, <2>6, <2>7
<1> HIDE DEF Q
<1>4. SUBSET S \subseteq Q
  BY <1>1, <1>2, <1>3, AllSubsets
<1>5. S \in Q
  BY <1>4
<1> QED BY <1>5 DEF Q

\* Targets, of a list.
TargetAmong(list, S, t, ks, coefficients) ==
  \E k \in ks, c \in [S \ {t} -> coefficients] : Multiple(k, list[t]) = Combination(list, S \ {t}, c)
RelatedAmong(list, S, ks, coefficients) == \E t \in S : TargetAmong(list, S, t, ks, coefficients)

LEMMA TargetsAre ==
  ASSUME NEW S, NEW ks, NEW coefficients
  PROVE  Targets(S, ks, coefficients) <=> RelatedAmong(components, S, ks, coefficients)
BY DEF Targets, RelatedAmong, TargetAmong

LEMMA MoreRelated ==
  ASSUME NEW list, NEW S, NEW ks, NEW coefficients, NEW moreKs, NEW moreCoefficients,
         ks \subseteq moreKs, coefficients \subseteq moreCoefficients,
         RelatedAmong(list, S, ks, coefficients)
  PROVE  RelatedAmong(list, S, moreKs, moreCoefficients)
<1>0. PICK t \in S : TargetAmong(list, S, t, ks, coefficients)
  BY DEF RelatedAmong
<1>1. PICK k \in ks, c \in [S \ {t} -> coefficients] : Multiple(k, list[t]) = Combination(list, S \ {t}, c)
  BY <1>0 DEF TargetAmong
<1>2. c \in [S \ {t} -> moreCoefficients] /\ k \in moreKs
  OBVIOUS
<1> QED BY <1>1, <1>2 DEF RelatedAmong, TargetAmong

\* Coefficients of a part of the list are those of a whole list that is zero
\* elsewhere.
Widened(c, S, n) == [i \in 1 .. n |-> IF i \in S THEN c[i] ELSE 0]

PartOf(c, S, n) == S \in SUBSET (1 .. n) /\ c \in [S -> Int]

LEMMA WidenedCombines ==
  ASSUME NEW list, NEW n, Listed(list, n), NEW S, NEW c, PartOf(c, S, n)
  PROVE  /\ Widened(c, S, n) \in [1 .. n -> Int]
         /\ \A i \in 1 .. n : Widened(c, S, n)[i] = IF i \in S THEN c[i] ELSE 0
         /\ Combination(list, S, Widened(c, S, n)) = Combination(list, S, c)
         /\ Combination(list, S, c) \in Scalars
<1> DEFINE d == Widened(c, S, n)
<1>1. d \in [1 .. n -> Int] /\ \A i \in 1 .. n : d[i] = IF i \in S THEN c[i] ELSE 0
  BY DEF Widened, PartOf
<1> HIDE DEF d
<1>2. \A i \in S : d[i] = c[i]
  BY <1>1 DEF PartOf
<1>3. Combination(list, S, d) = Combination(list, S, c)
  BY <1>2, CombinedAgrees
<1>4. Apart(S, {}, n)
  BY DEF Apart, PartOf
<1>5. Combination(list, S, d) \in Scalars
  BY <1>1, <1>4, CombinedParts
<1> QED BY <1>1, <1>3, <1>5 DEF d

\* One source and two.
Differ(i, j, n) == i \in 1 .. n /\ j \in 1 .. n /\ i # j

LEMMA OneSource ==
  ASSUME NEW list, NEW n, Listed(list, n), NEW i, NEW j, Differ(i, j, n),
         NEW ks, NEW coefficients \in SUBSET Int
  PROVE  TargetAmong(list, {i, j}, i, ks, coefficients) <=> PairRelate(list[i], list[j], ks, coefficients)
<1> DEFINE S == {j}
<1>0. i \in 1 .. n /\ j \in 1 .. n /\ i # j
  BY DEF Differ
<1>1. {i, j} \ {i} = S
  BY <1>0
<1>2. ASSUME NEW c \in [S -> coefficients] PROVE Combination(list, S, c) = Multiple(c[j], list[j])
  <2>1. PartOf(c, S, n) /\ j \in S /\ j \in 1 .. n
    BY <1>0 DEF PartOf
  <2>2. PICK d \in [1 .. n -> Int] : d[j] = c[j] /\ Combination(list, S, d) = Combination(list, S, c)
    <3> HIDE DEF S
    <3>1. /\ Widened(c, S, n) \in [1 .. n -> Int]
          /\ \A k \in 1 .. n : Widened(c, S, n)[k] = IF k \in S THEN c[k] ELSE 0
          /\ Combination(list, S, Widened(c, S, n)) = Combination(list, S, c)
      BY <2>1, WidenedCombines
    <3> QED BY <2>1, <3>1
  <2>3. Combination(list, {}, d) = 0 /\ \A k \in 1 .. n : Combination(list, {k}, d) = Multiple(d[k], list[k])
    BY CombinedOfFew
  <2> QED BY <1>0, <2>2, <2>3
<1>3. ASSUME TargetAmong(list, {i, j}, i, ks, coefficients)
      PROVE  PairRelate(list[i], list[j], ks, coefficients)
  <2>1. PICK k \in ks, c \in [S -> coefficients] : Multiple(k, list[i]) = Combination(list, S, c)
    BY <1>1, <1>3 DEF TargetAmong
  <2>2. c[j] \in coefficients
    OBVIOUS
  <2> QED BY <1>2, <2>1, <2>2 DEF PairRelate
<1>4. ASSUME PairRelate(list[i], list[j], ks, coefficients)
      PROVE  TargetAmong(list, {i, j}, i, ks, coefficients)
  <2>0. PICK k \in ks, a \in coefficients : Multiple(k, list[i]) = Multiple(a, list[j])
    BY <1>4 DEF PairRelate
  <2> DEFINE c == [x \in S |-> a]
  <2>1. c \in [S -> coefficients] /\ c[j] = a
    OBVIOUS
  <2> HIDE DEF c
  <2>2. Multiple(k, list[i]) = Combination(list, S, c)
    BY <1>2, <2>0, <2>1
  <2> QED BY <1>1, <2>1, <2>2 DEF TargetAmong
<1> QED BY <1>3, <1>4

Distinct(i, j, l, n) == i \in 1 .. n /\ j \in 1 .. n /\ l \in 1 .. n /\ i # j /\ i # l /\ j # l

LEMMA TwoSources ==
  ASSUME NEW list, NEW n, Listed(list, n), NEW i, NEW j, NEW l, Distinct(i, j, l, n),
         NEW ks, NEW coefficients \in SUBSET Int
  PROVE  TargetAmong(list, {i, j, l}, i, ks, coefficients) <=>
           ThreeRelate(list[i], list[j], list[l], ks, coefficients)
<1> DEFINE S == {j, l}
<1>0. i \in 1 .. n /\ j \in 1 .. n /\ l \in 1 .. n /\ i # j /\ i # l /\ j # l
  BY DEF Distinct
<1>1. {i, j, l} \ {i} = S
  BY <1>0
<1>2. ASSUME NEW c \in [S -> coefficients]
      PROVE  Combination(list, S, c) = Plus(Multiple(c[j], list[j]), Multiple(c[l], list[l]))
  <2>1. PartOf(c, S, n) /\ j \in S /\ l \in S
    BY <1>0 DEF PartOf
  <2>2. PICK d \in [1 .. n -> Int] : d[j] = c[j] /\ d[l] = c[l] /\ Combination(list, S, d) = Combination(list, S, c)
    BY <1>0, <2>1, WidenedCombines
  <2>3. Combination(list, {}, d) = 0 /\ \A k \in 1 .. n : Combination(list, {k}, d) = Multiple(d[k], list[k])
    BY CombinedOfFew
  <2>4. PICK v, w : v = {j} /\ w = {l} /\ Apart(v, w, n) /\ v \cup w = S
    <3>1. Apart({j}, {l}, n) /\ {j} \cup {l} = S
      BY <1>0 DEF Apart
    <3> QED BY <3>1
  <2>5. Combination(list, v \cup w, d) = Plus(Combination(list, v, d), Combination(list, w, d))
    BY <2>4, CombinedParts
  <2> QED BY <1>0, <2>2, <2>3, <2>4, <2>5
<1>3. ASSUME TargetAmong(list, {i, j, l}, i, ks, coefficients)
      PROVE  ThreeRelate(list[i], list[j], list[l], ks, coefficients)
  <2>1. PICK k \in ks, c \in [S -> coefficients] : Multiple(k, list[i]) = Combination(list, S, c)
    BY <1>1, <1>3 DEF TargetAmong
  <2>2. c[j] \in coefficients /\ c[l] \in coefficients
    OBVIOUS
  <2> QED BY <1>2, <2>1, <2>2 DEF ThreeRelate
<1>4. ASSUME ThreeRelate(list[i], list[j], list[l], ks, coefficients)
      PROVE  TargetAmong(list, {i, j, l}, i, ks, coefficients)
  <2>1. PICK k \in ks, a \in coefficients, b \in coefficients :
          Multiple(k, list[i]) = Plus(Multiple(a, list[j]), Multiple(b, list[l]))
    BY <1>4 DEF ThreeRelate
  <2> DEFINE c == [x \in S |-> IF x = j THEN a ELSE b]
  <2>2. c \in [S -> coefficients] /\ c[j] = a /\ c[l] = b
    BY <1>0
  <2> HIDE DEF c
  <2>3. Multiple(k, list[i]) = Combination(list, S, c)
    BY <1>2, <2>1, <2>2
  <2> QED BY <1>1, <2>2, <2>3 DEF TargetAmong
<1> QED BY <1>3, <1>4

LEMMA ThreeRelateSwaps ==
  ASSUME NEW t, NEW p \in Scalars, NEW q \in Scalars, NEW ks, NEW coefficients \in SUBSET Int,
         ThreeRelate(t, p, q, ks, coefficients)
  PROVE  ThreeRelate(t, q, p, ks, coefficients)
<1>1. PICK k \in ks, a \in coefficients, b \in coefficients : Multiple(k, t) = Plus(Multiple(a, p), Multiple(b, q))
  BY DEF ThreeRelate
<1>2. PICK x \in Scalars, y \in Scalars : x = Multiple(a, p) /\ y = Multiple(b, q)
  <2>1. a \in Int /\ b \in Int
    OBVIOUS
  <2> QED BY <2>1, MultipleFacts
<1>3. Plus(x, y) = Plus(y, x)
  BY PointAlgebra
<1> QED BY <1>1, <1>2, <1>3 DEF ThreeRelate

\* Sets of two and of three.
LEMMA SetsOfFew ==
  ASSUME NEW n \in Nat, NEW S \in SUBSET (1 .. n)
  PROVE  /\ IsFiniteSet(S) /\ Cardinality(S) \in Nat /\ Cardinality(S) <= n
         /\ Cardinality(S) = 2 => \E i, j \in S : i < j /\ S = {i, j}
         /\ Cardinality(S) = 3 => \E i, j, l \in S : Distinct(i, j, l, n) /\ j < l /\ S = {i, j, l}
         /\ Cardinality(S) >= 2 => \A t \in S : \E x \in S : x # t
<1>1. IsFiniteSet(1 .. n) /\ Cardinality(1 .. n) = n
  BY FS_Interval
<1>2. ASSUME NEW T \in SUBSET (1 .. n)
      PROVE  /\ IsFiniteSet(T) /\ Cardinality(T) \in Nat /\ Cardinality(T) <= n
             /\ Cardinality(T) = 1 => \E x : T = {x}
             /\ \A x \in T : Cardinality(T \ {x}) = Cardinality(T) - 1
             /\ Cardinality(T) = 0 <=> T = {}
  <2>1. IsFiniteSet(T) /\ Cardinality(T) <= Cardinality(1 .. n)
    BY <1>1, FS_Subset
  <2>2. Cardinality(T) \in Nat /\ (Cardinality(T) = 1 => \E x : T = {x}) /\ (Cardinality(T) = 0 <=> T = {})
    BY <2>1, FS_CardinalityType, FS_Singleton, FS_EmptySet
  <2>3. \A x \in T : Cardinality(T \ {x}) = Cardinality(T) - 1
    BY <2>1, FS_RemoveElement
  <2> QED BY <1>1, <2>1, <2>2, <2>3
<1>3. ASSUME NEW T \in SUBSET (1 .. n), Cardinality(T) = 2
      PROVE  \E i, j \in T : i < j /\ T = {i, j}
  <2>1. T # {}
    BY <1>2, <1>3
  <2>2. PICK x \in T : TRUE
    BY <2>1
  <2>3. Cardinality(T \ {x}) = 1 /\ T \ {x} \in SUBSET (1 .. n)
    BY <1>2, <1>3
  <2>4. PICK y : T \ {x} = {y}
    BY <1>2, <2>3
  <2>5. x \in T /\ y \in T /\ x # y /\ T = {x, y} /\ T = {y, x} /\ x \in Int /\ y \in Int
    <3>1. y \in T \ {x}
      BY <2>4
    <3> QED BY <2>2, <2>4, <3>1
  <2>6. x < y \/ y < x
    BY <2>5
  <2> QED BY <2>5, <2>6
<1>4. ASSUME Cardinality(S) = 3
      PROVE  \E i, j, l \in S : Distinct(i, j, l, n) /\ j < l /\ S = {i, j, l}
  <2>1. S # {}
    BY <1>2, <1>4
  <2>2. PICK i \in S : TRUE
    BY <2>1
  <2>3. Cardinality(S \ {i}) = 2
    BY <1>2, <1>4
  <2>4. PICK j \in S \ {i}, l \in S \ {i} : j < l /\ S \ {i} = {j, l}
    BY <1>3, <2>3
  <2>5. S = {i, j, l} /\ Distinct(i, j, l, n)
    BY <2>4 DEF Distinct
  <2> QED BY <2>4, <2>5
<1>5. ASSUME Cardinality(S) >= 2, NEW t \in S PROVE \E x \in S : x # t
  <2>1. Cardinality(S \ {t}) >= 1 /\ S \ {t} \in SUBSET (1 .. n)
    BY <1>2, <1>5
  <2>2. S \ {t} # {}
    BY <1>2, <2>1
  <2> QED BY <2>2
<1> QED BY <1>2, <1>3, <1>4, <1>5

LEMMA SizesOfFew ==
  /\ \A i, j : i # j => Cardinality({i, j}) = 2
  /\ \A i, j, l : i # j /\ i # l /\ j # l => Cardinality({i, j, l}) = 3
<1>1. ASSUME NEW i, NEW j, i # j PROVE IsFiniteSet({i, j}) /\ Cardinality({i, j}) = 2
  <2>1. IsFiniteSet({i}) /\ Cardinality({i}) = 1 /\ j \notin {i} /\ {i} \cup {j} = {i, j}
    BY <1>1, FS_Singleton
  <2>2. IsFiniteSet({i} \cup {j}) /\ Cardinality({i} \cup {j}) = 1 + 1
    BY <2>1, FS_AddElement
  <2> QED BY <2>1, <2>2
<1>2. ASSUME NEW i, NEW j, NEW l, i # j, i # l, j # l PROVE Cardinality({i, j, l}) = 3
  <2>1. PICK T : T = {i, j} /\ IsFiniteSet(T) /\ Cardinality(T) = 2 /\ l \notin T /\ T \cup {l} = {i, j, l}
    <3>1. IsFiniteSet({i, j}) /\ Cardinality({i, j}) = 2
      BY <1>1, <1>2
    <3>2. l \notin {i, j} /\ {i, j} \cup {l} = {i, j, l}
      BY <1>2
    <3> QED BY <3>1, <3>2
  <2>2. Cardinality(T \cup {l}) = 2 + 1
    BY <2>1, FS_AddElement
  <2> QED BY <2>1, <2>2
<1> QED BY <1>1, <1>2

\* What the screens look for, by the components that are related.
ScalarSet(list, n, S) ==
  S \in kSubset(2, 1 .. n) /\ RelatedAmong(list, S, 1 .. ScalarWindow, NonZero(ScalarWindow))
LinearSet(list, n, S) ==
  /\ S \in kSubset(3, 1 .. n)
  /\ \/ RelatedAmong(list, S, {1}, NonZero(ScalarWindow))
     \/ RelatedAmong(list, S, 1 .. TargetWindow, NonZero(TargetWindow))

LEMMA WindowsAreIntegers ==
  \A width \in Nat : NonZero(width) \in SUBSET Int
BY DEF NonZero

\* Two components are reported if, and only if, they are related.
LEMMA ScalarExact ==
  ASSUME NEW list, NEW n, Roster(list, n)
  PROVE  /\ \A p \in Pairs(list) : ScalarRelated(list[p[1]], list[p[2]]) => ScalarSet(list, n, {p[1], p[2]})
         /\ \A S : ScalarSet(list, n, S) => \E p \in Pairs(list) : ScalarRelated(list[p[1]], list[p[2]])
<1> Listed(list, n)
  BY RosterListed
<1>0. n \in Nat /\ list \in [1 .. n -> Keys] /\ DOMAIN list = 1 .. n
  BY DEF Roster
<1>1. NonZero(ScalarWindow) \in SUBSET Int /\ Keys \subseteq Scalars
  BY RosterConstants, WindowsAreIntegers
<1>2. ASSUME NEW i \in 1 .. n, NEW j \in 1 .. n, i # j
      PROVE  TargetAmong(list, {i, j}, i, 1 .. ScalarWindow, NonZero(ScalarWindow))
             <=> ScalarRelated(list[i], list[j])
  <2>1. PICK p \in Keys, q \in Keys : p = list[i] /\ q = list[j]
    BY <1>0
  <2>2. ScalarRelated(p, q) <=> TwoRelate(p, q)
    BY ScalarRelatedWhen
  <2>3. Differ(i, j, n)
    BY <1>2 DEF Differ
  <2>4. TargetAmong(list, {i, j}, i, 1 .. ScalarWindow, NonZero(ScalarWindow)) <=>
          PairRelate(list[i], list[j], 1 .. ScalarWindow, NonZero(ScalarWindow))
    BY <1>1, <2>3, OneSource
  <2> QED BY <2>1, <2>2, <2>4 DEF TwoRelate, PairRelate
<1>3. ASSUME NEW i \in 1 .. n, NEW j \in 1 .. n, ScalarRelated(list[i], list[j])
      PROVE  ScalarRelated(list[j], list[i])
  <2>1. PICK p \in Keys, q \in Keys : p = list[i] /\ q = list[j]
    BY <1>0
  <2>2. TwoRelate(p, q)
    BY <1>3, <2>1, ScalarRelatedWhen
  <2>3. TwoRelate(q, p)
    BY <1>1, <2>2, TwoRelateBothWays
  <2>4. ScalarRelated(q, p)
    BY <2>3, ScalarRelatedWhen
  <2> QED BY <2>1, <2>4
<1>4. ASSUME NEW p \in Pairs(list), ScalarRelated(list[p[1]], list[p[2]])
      PROVE  ScalarSet(list, n, {p[1], p[2]})
  <2>1. PICK i \in 1 .. n, j \in 1 .. n : i = p[1] /\ j = p[2] /\ i < j
    BY <1>0 DEF Pairs
  <2>2. i # j /\ {i, j} \in SUBSET (1 .. n)
    BY <2>1
  <2>3. {i, j} \in kSubset(2, 1 .. n)
    BY <2>2, SizesOfFew DEF kSubset
  <2>4. TargetAmong(list, {i, j}, i, 1 .. ScalarWindow, NonZero(ScalarWindow))
    BY <1>2, <1>4, <2>1, <2>2
  <2> QED BY <2>1, <2>3, <2>4 DEF ScalarSet, RelatedAmong
<1>5. ASSUME NEW S, ScalarSet(list, n, S)
      PROVE  \E p \in Pairs(list) : ScalarRelated(list[p[1]], list[p[2]])
  <2>1. S \in SUBSET (1 .. n) /\ Cardinality(S) = 2
        /\ RelatedAmong(list, S, 1 .. ScalarWindow, NonZero(ScalarWindow))
    BY <1>5 DEF ScalarSet, kSubset
  <2>2. PICK i \in S, j \in S : i < j /\ S = {i, j}
    BY <1>0, <2>1, SetsOfFew
  <2>3. i \in 1 .. n /\ j \in 1 .. n /\ i # j /\ j # i /\ {j, i} = S
    BY <2>1, <2>2
  <2>4. ScalarRelated(list[i], list[j])
    <3>1. PICK t \in S : TargetAmong(list, S, t, 1 .. ScalarWindow, NonZero(ScalarWindow))
      BY <2>1 DEF RelatedAmong
    <3>2. CASE t = i
      BY <1>2, <2>2, <2>3, <3>1, <3>2
    <3>3. CASE t = j
      <4>1. TargetAmong(list, {j, i}, j, 1 .. ScalarWindow, NonZero(ScalarWindow))
        BY <2>3, <3>1, <3>3
      <4>2. ScalarRelated(list[j], list[i])
        BY <1>2, <2>3, <4>1
      <4> QED BY <1>3, <2>3, <4>2
    <3> QED BY <2>2, <3>2, <3>3
  <2>5. <<i, j>> \in Pairs(list) /\ <<i, j>>[1] = i /\ <<i, j>>[2] = j
    BY <1>0, <2>2, <2>3 DEF Pairs
  <2> QED BY <2>4, <2>5
<1> QED BY <1>4, <1>5

\* A report names the pair and the recipient, if it is a target; some target
\* gives the same answer.
LEMMA ReportedNames ==
  ASSUME NEW p, NEW targets, NEW r \in Reported(p, targets)
  PROVE  \E t \in targets : r = Who({t, p[1], p[2]})
<1>1. targets # {} /\ r = Who({p[1], p[2]} \cup (targets \cap {1}))
  BY DEF Reported
<1>2. CASE 1 \in targets
  BY <1>1, <1>2 DEF Who
<1>3. CASE 1 \notin targets
  <2>1. PICK t \in targets : t # 1
    BY <1>1, <1>3
  <2>2. 1 \in {t, p[1], p[2]} <=> 1 \in {p[1], p[2]} \cup (targets \cap {1})
    BY <1>3, <2>1
  <2> QED BY <1>1, <2>2 DEF Who
<1> QED BY <1>2, <1>3

\* Three components are reported if, and only if, they are related.
LEMMA LinearExact ==
  ASSUME NEW list, NEW n, Roster(list, n)
  PROVE  /\ \A p \in Pairs(list) : \A r \in PairAnswer(list, p) : \E S : LinearSet(list, n, S) /\ Who(S) = r
         /\ \A S : LinearSet(list, n, S) => \E p \in Pairs(list) : PairAnswer(list, p) # {}
<1> Listed(list, n)
  BY RosterListed
<1>0. n \in Nat /\ list \in [1 .. n -> Keys] /\ DOMAIN list = 1 .. n
  BY DEF Roster
<1>1. /\ NonZero(ScalarWindow) \in SUBSET Int /\ NonZero(TargetWindow) \in SUBSET Int
      /\ Keys \subseteq Scalars
  BY RosterConstants, WindowsAreIntegers
<1>2. ASSUME NEW t, NEW i, NEW j, Distinct(t, i, j, n)
      PROVE  /\ OffsetKeys(list[t], list[i]) \cap XKeys(Window(list[j], ScalarWindow)) # {} <=>
                  TargetAmong(list, {t, i, j}, t, {1}, NonZero(ScalarWindow))
             /\ PairSums(list[i], list[j]) \cap XKeys(Window(list[t], TargetWindow)) # {} <=>
                  TargetAmong(list, {t, i, j}, t, 1 .. TargetWindow, NonZero(TargetWindow))
  <2>1. PICK x \in Keys, p \in Keys, q \in Keys : x = list[t] /\ p = list[i] /\ q = list[j]
    BY <1>0, <1>2 DEF Distinct
  <2>2. OffsetKeys(x, p) \cap XKeys(Window(q, ScalarWindow)) # {} <=>
          ThreeRelate(x, p, q, {1}, NonZero(ScalarWindow))
    BY UnitTargetWhen
  <2>3. PairSums(p, q) \cap XKeys(Window(x, TargetWindow)) # {} <=>
          ThreeRelate(x, p, q, 1 .. TargetWindow, NonZero(TargetWindow))
    BY LowTargetWhen
  <2>4. TargetAmong(list, {t, i, j}, t, {1}, NonZero(ScalarWindow)) <=>
          ThreeRelate(list[t], list[i], list[j], {1}, NonZero(ScalarWindow))
    BY <1>1, <1>2, TwoSources
  <2>5. TargetAmong(list, {t, i, j}, t, 1 .. TargetWindow, NonZero(TargetWindow)) <=>
          ThreeRelate(list[t], list[i], list[j], 1 .. TargetWindow, NonZero(TargetWindow))
    BY <1>1, <1>2, TwoSources
  <2> QED BY <2>1, <2>2, <2>3, <2>4, <2>5
<1>3. ASSUME NEW p \in Pairs(list), NEW t \in Others(list, {p[1], p[2]})
      PROVE  /\ Distinct(t, p[1], p[2], n) /\ {t, p[1], p[2]} \in kSubset(3, 1 .. n)
  <2>1. t \in 1 .. n /\ t # p[1] /\ t # p[2] /\ p[1] \in 1 .. n /\ p[2] \in 1 .. n /\ p[1] # p[2]
    BY <1>0 DEF Pairs, Others
  <2>2. Cardinality({t, p[1], p[2]}) = 3
    BY <2>1, SizesOfFew
  <2> QED BY <2>1, <2>2 DEF Distinct, kSubset
<1>4. ASSUME NEW p \in Pairs(list), NEW r \in PairAnswer(list, p)
      PROVE  \E S : LinearSet(list, n, S) /\ Who(S) = r
  <2>1. r \in Reported(p, UnitTargets(list, p)) \/ r \in Reported(p, LowTargets(list, p))
    BY <1>4 DEF PairAnswer
  <2>2. CASE r \in Reported(p, UnitTargets(list, p))
    <3>1. PICK t \in UnitTargets(list, p) : r = Who({t, p[1], p[2]})
      BY <2>2, ReportedNames
    <3>2. t \in Others(list, {p[1], p[2]})
          /\ OffsetKeys(list[t], list[p[1]]) \cap XKeys(Window(list[p[2]], ScalarWindow)) # {}
      BY <3>1 DEF UnitTargets
    <3>3. Distinct(t, p[1], p[2], n) /\ {t, p[1], p[2]} \in kSubset(3, 1 .. n)
      BY <1>3, <3>2
    <3>4. TargetAmong(list, {t, p[1], p[2]}, t, {1}, NonZero(ScalarWindow))
      BY <1>2, <3>2, <3>3
    <3>5. LinearSet(list, n, {t, p[1], p[2]})
      BY <3>3, <3>4 DEF LinearSet, RelatedAmong
    <3> QED BY <3>1, <3>5
  <2>3. CASE r \in Reported(p, LowTargets(list, p))
    <3>1. PICK t \in LowTargets(list, p) : r = Who({t, p[1], p[2]})
      BY <2>3, ReportedNames
    <3>2. t \in Others(list, {p[1], p[2]})
          /\ PairSums(list[p[1]], list[p[2]]) \cap XKeys(Window(list[t], TargetWindow)) # {}
      BY <3>1 DEF LowTargets
    <3>3. Distinct(t, p[1], p[2], n) /\ {t, p[1], p[2]} \in kSubset(3, 1 .. n)
      BY <1>3, <3>2
    <3>4. TargetAmong(list, {t, p[1], p[2]}, t, 1 .. TargetWindow, NonZero(TargetWindow))
      BY <1>2, <3>2, <3>3
    <3>5. LinearSet(list, n, {t, p[1], p[2]})
      BY <3>3, <3>4 DEF LinearSet, RelatedAmong
    <3> QED BY <3>1, <3>5
  <2> QED BY <2>1, <2>2, <2>3
<1>5. ASSUME NEW p \in Pairs(list), UnitTargets(list, p) # {} \/ LowTargets(list, p) # {}
      PROVE  PairAnswer(list, p) # {}
  BY <1>5 DEF PairAnswer, Reported
<1>6. ASSUME NEW S, NEW t \in S, S \in kSubset(3, 1 .. n)
      PROVE  \E i, j : Distinct(t, i, j, n) /\ i < j /\ S = {t, i, j}
  <2>1. S \in SUBSET (1 .. n) /\ Cardinality(S) = 3
    BY <1>6 DEF kSubset
  <2>2. PICK a \in S, b \in S, c \in S : Distinct(a, b, c, n) /\ b < c /\ S = {a, b, c}
    BY <1>0, <2>1, SetsOfFew
  <2>3. a \in 1 .. n /\ b \in 1 .. n /\ c \in 1 .. n /\ a # b /\ a # c /\ b # c
    BY <2>2 DEF Distinct
  <2>4. CASE t = a
    BY <2>2, <2>4
  <2>5. CASE t = b
    <3>1. S = {b, a, c} /\ S = {b, c, a} /\ Distinct(b, a, c, n) /\ Distinct(b, c, a, n)
      BY <2>2, <2>3 DEF Distinct
    <3>2. a < c \/ c < a
      BY <2>3
    <3> QED BY <2>5, <3>1, <3>2
  <2>6. CASE t = c
    <3>1. S = {c, a, b} /\ S = {c, b, a} /\ Distinct(c, a, b, n) /\ Distinct(c, b, a, n)
      BY <2>2, <2>3 DEF Distinct
    <3>2. a < b \/ b < a
      BY <2>3
    <3> QED BY <2>6, <3>1, <3>2
  <2> QED BY <2>2, <2>4, <2>5, <2>6
<1>7. ASSUME NEW S, LinearSet(list, n, S)
      PROVE  \E p \in Pairs(list) : PairAnswer(list, p) # {}
  <2>1. PICK t \in S : \/ TargetAmong(list, S, t, {1}, NonZero(ScalarWindow))
                       \/ TargetAmong(list, S, t, 1 .. TargetWindow, NonZero(TargetWindow))
    BY <1>7 DEF LinearSet, RelatedAmong
  <2>2. PICK i, j : Distinct(t, i, j, n) /\ i < j /\ S = {t, i, j}
    BY <1>6, <1>7 DEF LinearSet
  <2> DEFINE p == <<i, j>>
  <2>3. p[1] = i /\ p[2] = j
    OBVIOUS
  <2>4. p \in Pairs(list) /\ t \in Others(list, {p[1], p[2]})
    BY <1>0, <2>2, <2>3 DEF Pairs, Others, Distinct
  <2> HIDE DEF p
  <2>5. t \in UnitTargets(list, p) \/ t \in LowTargets(list, p)
    <3>1. \/ OffsetKeys(list[t], list[i]) \cap XKeys(Window(list[j], ScalarWindow)) # {}
          \/ PairSums(list[i], list[j]) \cap XKeys(Window(list[t], TargetWindow)) # {}
      BY <1>2, <2>1, <2>2
    <3> QED BY <2>3, <2>4, <3>1 DEF UnitTargets, LowTargets
  <2>6. PairAnswer(list, p) # {}
    BY <1>5, <2>4, <2>5
  <2> QED BY <2>4, <2>6
<1> QED BY <1>4, <1>7

----------------------------------------------------------------------------
(* Signed subsets of a roster, by coefficients of the whole list.          *)

Whole(n, width) == [1 .. n -> -width .. width]

LEMMA WholeCoefficients ==
  ASSUME NEW n \in Nat, NEW width \in Nat, NEW d \in Whole(n, width)
  PROVE  /\ d \in [1 .. n -> Int] /\ DOMAIN d = 1 .. n /\ Support(d) \in SUBSET (1 .. n)
         /\ \A i \in 1 .. n : (i \in Support(d) <=> d[i] # 0) /\ -width <= d[i] /\ d[i] <= width
BY DEF Whole, Support

\* Coefficients of a part are zero elsewhere.
PartWithin(c, S, n, width) == S \in SUBSET (1 .. n) /\ width \in Nat /\ c \in [S -> -width .. width]
SupportedBy(d, S, n, width) ==
  S \in SUBSET (1 .. n) /\ width \in Nat /\ d \in Whole(n, width) /\ Support(d) \subseteq S

LEMMA WholeFromPart ==
  ASSUME NEW list, NEW n, Listed(list, n), NEW S, NEW width, NEW c, PartWithin(c, S, n, width)
  PROVE  \E d \in Whole(n, width) :
            /\ Support(d) = {i \in S : c[i] # 0}
            /\ Combination(list, 1 .. n, d) = Combination(list, S, c)
<1>0. n \in Nat /\ S \in SUBSET (1 .. n) /\ width \in Nat /\ c \in [S -> -width .. width]
  BY DEF Listed, PartWithin
<1>1. PICK d \in [1 .. n -> Int] : /\ \A i \in 1 .. n : d[i] = IF i \in S THEN c[i] ELSE 0
                                   /\ Combination(list, S, d) = Combination(list, S, c)
  <2>1. PartOf(c, S, n)
    BY <1>0 DEF PartOf
  <2> QED BY <2>1, WidenedCombines
<1>2. d \in Whole(n, width)
  BY <1>0, <1>1 DEF Whole
<1>3. Support(d) = {i \in S : c[i] # 0}
  BY <1>0, <1>1 DEF Support
<1>4. Combination(list, 1 .. n, d) = Combination(list, S, d)
  <2>1. Confined(d, 1 .. n, S, n)
    BY <1>0, <1>1 DEF Confined
  <2> QED BY <2>1, CombinedSupport
<1> QED BY <1>1, <1>2, <1>3, <1>4

LEMMA PartFromWhole ==
  ASSUME NEW list, NEW n, Listed(list, n), NEW S, NEW width, NEW d, SupportedBy(d, S, n, width)
  PROVE  /\ PartWithin(Over(d, S), S, n, width) /\ \A i \in S : Over(d, S)[i] = d[i]
         /\ Combination(list, S, Over(d, S)) = Combination(list, 1 .. n, d)
         /\ Combination(list, S, d) = Combination(list, 1 .. n, d)
<1>0. n \in Nat /\ S \in SUBSET (1 .. n) /\ width \in Nat /\ d \in Whole(n, width) /\ Support(d) \subseteq S
  BY DEF Listed, SupportedBy
<1>1. /\ d \in [1 .. n -> Int] /\ d \in [1 .. n -> -width .. width]
      /\ \A i \in 1 .. n : i \in Support(d) <=> d[i] # 0
  BY <1>0, WholeCoefficients DEF Whole
<1>2. PartWithin(Over(d, S), S, n, width) /\ \A i \in S : Over(d, S)[i] = d[i]
  BY <1>0, <1>1 DEF Over, PartWithin
<1>3. Combination(list, S, Over(d, S)) = Combination(list, S, d)
  <2>1. \A i \in S : Over(d, S)[i] = d[i]
    BY <1>2
  <2> QED BY <2>1, CombinedAgrees
<1>4. Combination(list, 1 .. n, d) = Combination(list, S, d)
  <2>1. Confined(d, 1 .. n, S, n)
    BY <1>0, <1>1 DEF Confined
  <2> QED BY <1>1, <2>1, CombinedSupport
<1> QED BY <1>2, <1>3, <1>4

\* The states of the subsets of S.
StatesOver(list, n, S, width) ==
  \A q : q \in SubsetStates(list, S, width) <=>
           \E d : SupportedBy(d, S, n, width) /\ q = <<Combination(list, 1 .. n, d), Support(d)>>

LEMMA StatesAre ==
  ASSUME NEW list, NEW n, Listed(list, n), NEW S \in SUBSET (1 .. n), NEW width \in Nat
  PROVE  StatesOver(list, n, S, width)
<1>1. ASSUME NEW q \in SubsetStates(list, S, width)
      PROVE  \E d : SupportedBy(d, S, n, width) /\ q = <<Combination(list, 1 .. n, d), Support(d)>>
  <2>1. PICK c \in [S -> -width .. width] : q = <<Combination(list, S, c), Support(c)>>
    BY DEF SubsetStates
  <2>2. PICK d \in Whole(n, width) :
          Support(d) = {i \in S : c[i] # 0} /\ Combination(list, 1 .. n, d) = Combination(list, S, c)
    <3>1. PartWithin(c, S, n, width)
      BY DEF PartWithin
    <3> QED BY <3>1, WholeFromPart
  <2>3. Support(c) = {i \in S : c[i] # 0}
    BY DEF Support
  <2>4. SupportedBy(d, S, n, width)
    BY <2>2 DEF SupportedBy
  <2> QED BY <2>1, <2>2, <2>3, <2>4
<1>2. ASSUME NEW d, SupportedBy(d, S, n, width)
      PROVE  <<Combination(list, 1 .. n, d), Support(d)>> \in SubsetStates(list, S, width)
  <2> DEFINE c == Over(d, S)
  <2>1. /\ PartWithin(c, S, n, width) /\ \A i \in S : c[i] = d[i]
        /\ Combination(list, S, c) = Combination(list, 1 .. n, d)
    BY <1>2, PartFromWhole
  <2> HIDE DEF c
  <2>2. c \in [S -> -width .. width] /\ d \in Whole(n, width) /\ Support(d) \subseteq S /\ n \in Nat
    BY <1>2, <2>1 DEF PartWithin, SupportedBy, Listed
  <2>3. \A i \in 1 .. n : i \in Support(d) <=> d[i] # 0
    BY <2>2, WholeCoefficients
  <2>4. Support(c) = Support(d)
    BY <2>1, <2>2, <2>3 DEF Support
  <2>5. <<Combination(list, S, c), Support(c)>> \in SubsetStates(list, S, width)
    BY <2>2 DEF SubsetStates
  <2> QED BY <2>1, <2>4, <2>5
<1> QED BY <1>1, <1>2 DEF StatesOver

\* A target's relation.
TargetBy(list, n, S, t, ks, width) ==
  \E k \in ks, d \in Whole(n, width) :
    Support(d) = S \ {t} /\ Multiple(k, list[t]) = Combination(list, 1 .. n, d)

LEMMA TargetIs ==
  ASSUME NEW list, NEW n, Listed(list, n), NEW S \in SUBSET (1 .. n), NEW t \in S,
         NEW ks, NEW width \in Nat
  PROVE  TargetAmong(list, S, t, ks, NonZero(width)) <=> TargetBy(list, n, S, t, ks, width)
<1> DEFINE R == S \ {t}
<1>0. R \in SUBSET (1 .. n) /\ n \in Nat
  BY DEF Listed
<1>1. ASSUME TargetAmong(list, S, t, ks, NonZero(width))
      PROVE  TargetBy(list, n, S, t, ks, width)
  <2>1. PICK k \in ks, c \in [R -> NonZero(width)] : Multiple(k, list[t]) = Combination(list, R, c)
    BY <1>1 DEF TargetAmong
  <2>2. c \in [R -> -width .. width] /\ {i \in R : c[i] # 0} = R
    BY DEF NonZero
  <2>3. PartWithin(c, R, n, width)
    BY <1>0, <2>2 DEF PartWithin
  <2>4. PICK d \in Whole(n, width) :
          Support(d) = {i \in R : c[i] # 0} /\ Combination(list, 1 .. n, d) = Combination(list, R, c)
    <3> HIDE DEF R
    <3> QED BY <2>3, WholeFromPart
  <2> QED BY <2>1, <2>2, <2>4 DEF TargetBy
<1>2. ASSUME TargetBy(list, n, S, t, ks, width)
      PROVE  TargetAmong(list, S, t, ks, NonZero(width))
  <2>0. PICK k \in ks, d \in Whole(n, width) :
          Support(d) = R /\ Multiple(k, list[t]) = Combination(list, 1 .. n, d)
    BY <1>2 DEF TargetBy
  <2> DEFINE c == Over(d, R)
  <2>1. /\ PartWithin(c, R, n, width) /\ \A i \in R : c[i] = d[i]
        /\ Combination(list, R, c) = Combination(list, 1 .. n, d)
    <3>1. SupportedBy(d, R, n, width)
      BY <1>0, <2>0 DEF SupportedBy
    <3> HIDE DEF R
    <3> QED BY <3>1, PartFromWhole
  <2>2. \A i \in R : d[i] # 0
    BY <1>0, <2>0, WholeCoefficients
  <2> HIDE DEF c
  <2>3. c \in [R -> NonZero(width)]
    BY <2>1, <2>2 DEF NonZero, PartWithin
  <2> QED BY <2>0, <2>1, <2>3 DEF TargetAmong
<1> QED BY <1>1, <1>2

\* The halves meet in the sums over both that add to the target.
Reaches(list, n, S, X, width, target) ==
  \E d : /\ SupportedBy(d, S, n, width) /\ X = Support(d) /\ X # {}
         /\ Combination(list, 1 .. n, d) = target

LEMMA MeetingIs ==
  ASSUME NEW list, NEW n, Listed(list, n), NEW A, NEW B, Apart(A, B, n), NEW width \in Nat, NEW target
  PROVE  \A X : X \in Meeting(SubsetStates(list, A, width), SubsetStates(list, B, width), target) <=>
                  Reaches(list, n, A \cup B, X, width, target)
<1> DEFINE left == SubsetStates(list, A, width)
           right == SubsetStates(list, B, width)
<1>0. A \in SUBSET (1 .. n) /\ B \in SUBSET (1 .. n) /\ A \cap B = {} /\ n \in Nat
  BY DEF Apart, Listed
<1>1. /\ \A q : q \in left <=> \E d : SupportedBy(d, A, n, width) /\ q = <<Combination(list, 1 .. n, d), Support(d)>>
      /\ \A q : q \in right <=> \E d : SupportedBy(d, B, n, width) /\ q = <<Combination(list, 1 .. n, d), Support(d)>>
  <2>1. \A q : q \in SubsetStates(list, A, width) <=>
                 \E d : SupportedBy(d, A, n, width) /\ q = <<Combination(list, 1 .. n, d), Support(d)>>
    <3>1. StatesOver(list, n, A, width)
      BY <1>0, StatesAre
    <3> QED BY <3>1 DEF StatesOver
  <2>2. \A q : q \in SubsetStates(list, B, width) <=>
                 \E d : SupportedBy(d, B, n, width) /\ q = <<Combination(list, 1 .. n, d), Support(d)>>
    <3>1. StatesOver(list, n, B, width)
      BY <1>0, StatesAre
    <3> QED BY <3>1 DEF StatesOver
  <2> QED BY <2>1, <2>2
<1> HIDE DEF left, right
<1>2. \A X : X \in Meeting(left, right, target) <=>
               X # {} /\ \E l \in left, r \in right : Plus(l[1], r[1]) = target /\ X = l[2] \cup r[2]
  <2>1. ASSUME NEW X \in Meeting(left, right, target)
        PROVE  X # {} /\ \E l \in left, r \in right : Plus(l[1], r[1]) = target /\ X = l[2] \cup r[2]
    <3>1. X # {} /\ \E q \in {w \in left \X right : Plus(w[1][1], w[2][1]) = target} : X = q[1][2] \cup q[2][2]
      BY DEF Meeting
    <3>2. PICK q \in left \X right : Plus(q[1][1], q[2][1]) = target /\ X = q[1][2] \cup q[2][2]
      BY <3>1
    <3>3. q[1] \in left /\ q[2] \in right
      OBVIOUS
    <3> QED BY <3>1, <3>2, <3>3
  <2>2. ASSUME NEW X, X # {}, NEW l \in left, NEW r \in right, Plus(l[1], r[1]) = target, X = l[2] \cup r[2]
        PROVE  X \in Meeting(left, right, target)
    <3> DEFINE q == <<l, r>>
    <3>1. q \in left \X right /\ q[1] = l /\ q[2] = r
      OBVIOUS
    <3> HIDE DEF q
    <3>2. q \in {w \in left \X right : Plus(w[1][1], w[2][1]) = target} /\ X = q[1][2] \cup q[2][2]
      BY <2>2, <3>1
    <3> QED BY <2>2, <3>2 DEF Meeting
  <2> QED BY <2>1, <2>2
<1>3. ASSUME NEW d, SupportedBy(d, A \cup B, n, width), NEW l, NEW r,
             SupportedBy(l, A, n, width), SupportedBy(r, B, n, width),
             \A i \in A : l[i] = d[i], \A i \in B : r[i] = d[i]
      PROVE  /\ Support(d) = Support(l) \cup Support(r)
             /\ Combination(list, 1 .. n, d) = Plus(Combination(list, 1 .. n, l), Combination(list, 1 .. n, r))
  <2>1. /\ d \in [1 .. n -> Int] /\ Support(d) \subseteq A \cup B
        /\ l \in [1 .. n -> Int] /\ Support(l) \subseteq A
        /\ r \in [1 .. n -> Int] /\ Support(r) \subseteq B
        /\ \A i \in 1 .. n : (i \in Support(d) <=> d[i] # 0) /\ (i \in Support(l) <=> l[i] # 0)
                             /\ (i \in Support(r) <=> r[i] # 0)
        /\ Support(d) \in SUBSET (1 .. n) /\ Support(l) \in SUBSET (1 .. n) /\ Support(r) \in SUBSET (1 .. n)
    BY <1>0, <1>3, WholeCoefficients DEF SupportedBy
  <2>2. Support(d) = Support(l) \cup Support(r)
    BY <1>3, <2>1
  <2>3. /\ Combination(list, A \cup B, d) = Combination(list, 1 .. n, d)
        /\ Combination(list, A, l) = Combination(list, 1 .. n, l)
        /\ Combination(list, B, r) = Combination(list, 1 .. n, r)
    <3>1. Combination(list, A \cup B, d) = Combination(list, 1 .. n, d)
      <4> DEFINE C == A \cup B
      <4>1. SupportedBy(d, C, n, width)
        BY <1>3
      <4> HIDE DEF C
      <4>2. Combination(list, C, d) = Combination(list, 1 .. n, d)
        BY <4>1, PartFromWhole
      <4> QED BY <4>2 DEF C
    <3>2. Combination(list, A, l) = Combination(list, 1 .. n, l)
      BY <1>3, PartFromWhole
    <3>3. Combination(list, B, r) = Combination(list, 1 .. n, r)
      BY <1>3, PartFromWhole
    <3> QED BY <3>1, <3>2, <3>3
  <2>4. Combination(list, A, l) = Combination(list, A, d) /\ Combination(list, B, r) = Combination(list, B, d)
    <3>1. Combination(list, A, l) = Combination(list, A, d)
      BY <1>3, CombinedAgrees
    <3>2. Combination(list, B, r) = Combination(list, B, d)
      BY <1>3, CombinedAgrees
    <3> QED BY <3>1, <3>2
  <2>5. Combination(list, A \cup B, d) = Plus(Combination(list, A, d), Combination(list, B, d))
    BY <2>1, CombinedParts
  <2> QED BY <2>2, <2>3, <2>4, <2>5
<1>4. ASSUME NEW X \in Meeting(left, right, target)
      PROVE  \E d : /\ SupportedBy(d, A \cup B, n, width) /\ X = Support(d) /\ X # {}
                    /\ Combination(list, 1 .. n, d) = target
  <2>1. PICK p \in left, q \in right : X # {} /\ Plus(p[1], q[1]) = target /\ X = p[2] \cup q[2]
    BY <1>2
  <2>2. PICK l : SupportedBy(l, A, n, width) /\ p[1] = Combination(list, 1 .. n, l) /\ p[2] = Support(l)
    BY <1>1
  <2>3. PICK r : SupportedBy(r, B, n, width) /\ q[1] = Combination(list, 1 .. n, r) /\ q[2] = Support(r)
    BY <1>1
  <2> DEFINE d == [i \in 1 .. n |-> IF i \in A THEN l[i] ELSE r[i]]
  <2>4. l \in [1 .. n -> -width .. width] /\ r \in [1 .. n -> -width .. width]
    BY <2>2, <2>3 DEF SupportedBy, Whole
  <2>5. /\ \A i \in 1 .. n : (i \in Support(l) <=> l[i] # 0) /\ (i \in Support(r) <=> r[i] # 0)
        /\ Support(l) \subseteq A /\ Support(r) \subseteq B
    BY <1>0, <2>2, <2>3, WholeCoefficients DEF SupportedBy
  <2>6. d \in Whole(n, width) /\ \A i \in 1 .. n : d[i] = IF i \in A THEN l[i] ELSE r[i]
    BY <2>4 DEF Whole
  <2> HIDE DEF d
  <2>7. SupportedBy(d, A \cup B, n, width)
    <3>1. Support(d) \in SUBSET (1 .. n) /\ \A i \in 1 .. n : i \in Support(d) <=> d[i] # 0
      BY <1>0, <2>6, WholeCoefficients
    <3>2. Support(d) \subseteq A \cup B
      BY <2>5, <2>6, <3>1
    <3> QED BY <1>0, <2>6, <3>2 DEF SupportedBy
  <2>8. (\A i \in A : l[i] = d[i]) /\ (\A i \in B : r[i] = d[i])
    BY <1>0, <2>6
  <2>9. /\ Support(d) = Support(l) \cup Support(r)
        /\ Combination(list, 1 .. n, d) = Plus(Combination(list, 1 .. n, l), Combination(list, 1 .. n, r))
    BY <1>3, <2>2, <2>3, <2>7, <2>8
  <2> QED BY <2>1, <2>2, <2>3, <2>7, <2>9
<1>5. ASSUME NEW d, SupportedBy(d, A \cup B, n, width), Support(d) # {}, Combination(list, 1 .. n, d) = target
      PROVE  Support(d) \in Meeting(left, right, target)
  <2> DEFINE l == [i \in 1 .. n |-> IF i \in A THEN d[i] ELSE 0]
             r == [i \in 1 .. n |-> IF i \in B THEN d[i] ELSE 0]
  <2>1. d \in [1 .. n -> -width .. width] /\ 0 \in -width .. width
    BY <1>5 DEF SupportedBy, Whole
  <2>2. /\ l \in Whole(n, width) /\ \A i \in 1 .. n : l[i] = IF i \in A THEN d[i] ELSE 0
        /\ r \in Whole(n, width) /\ \A i \in 1 .. n : r[i] = IF i \in B THEN d[i] ELSE 0
    BY <2>1 DEF Whole
  <2> HIDE DEF l, r
  <2>3. /\ \A i \in 1 .. n : (i \in Support(l) <=> l[i] # 0) /\ (i \in Support(r) <=> r[i] # 0)
        /\ Support(l) \in SUBSET (1 .. n) /\ Support(r) \in SUBSET (1 .. n)
    BY <1>0, <2>2, WholeCoefficients
  <2>4. Support(l) \subseteq A /\ Support(r) \subseteq B
    BY <2>2, <2>3
  <2>5. SupportedBy(l, A, n, width) /\ SupportedBy(r, B, n, width)
    BY <1>0, <2>2, <2>4 DEF SupportedBy
  <2>6. (\A i \in A : l[i] = d[i]) /\ (\A i \in B : r[i] = d[i])
    BY <1>0, <2>2
  <2>7. /\ Support(d) = Support(l) \cup Support(r)
        /\ Combination(list, 1 .. n, d) = Plus(Combination(list, 1 .. n, l), Combination(list, 1 .. n, r))
    BY <1>3, <1>5, <2>5, <2>6
  <2> DEFINE p == <<Combination(list, 1 .. n, l), Support(l)>>
             q == <<Combination(list, 1 .. n, r), Support(r)>>
  <2>8. p \in left /\ q \in right
    BY <1>1, <2>5
  <2>9. p[1] = Combination(list, 1 .. n, l) /\ p[2] = Support(l) /\ q[1] = Combination(list, 1 .. n, r) /\ q[2] = Support(r)
    OBVIOUS
  <2> HIDE DEF p, q
  <2> QED BY <1>2, <1>5, <2>7, <2>8, <2>9
<1> QED BY <1>4, <1>5 DEF left, right, Reaches

\* A set has two elements or more when it has two that differ.
LEMMA AtLeastTwo ==
  ASSUME NEW n \in Nat, NEW S \in SUBSET (1 .. n), NEW x \in S, NEW y \in S, x # y
  PROVE  Cardinality(S) >= 2
<1> DEFINE T == {x, y}
<1>1. Cardinality(T) = 2 /\ T \in SUBSET S
  BY SizesOfFew
<1>2. IsFiniteSet(S) /\ Cardinality(S) \in Nat
  BY SetsOfFew
<1> HIDE DEF T
<1>3. Cardinality(T) <= Cardinality(S)
  BY <1>1, <1>2, FS_Subset
<1> QED BY <1>1, <1>2, <1>3

\* Sets of two components or more that are related.
SomeSet(list, n, S, ks, width) ==
  S \in SUBSET (1 .. n) /\ Cardinality(S) >= 2 /\ RelatedAmong(list, S, ks, NonZero(width))

\* A target and the others that a combination has.
TargetOf(list, n, t, k, d, width) ==
  SupportedBy(d, (1 .. n) \ {t}, n, width) /\ Support(d) # {} /\ Multiple(k, list[t]) = Combination(list, 1 .. n, d)

TargetReached(list, n, S, t, ks, width) ==
  \E k \in ks : \E d : TargetOf(list, n, t, k, d, width) /\ S = {t} \cup Support(d)

LEMMA TargetsRelate ==
  ASSUME NEW list, NEW n, Listed(list, n), NEW t \in 1 .. n, NEW ks, NEW width \in Nat
  PROVE  /\ \A k \in ks : \A d : TargetOf(list, n, t, k, d, width) =>
              SomeSet(list, n, {t} \cup Support(d), ks, width)
         /\ \A S \in SUBSET (1 .. n) :
              t \in S /\ Cardinality(S) >= 2 /\ TargetAmong(list, S, t, ks, NonZero(width)) =>
                TargetReached(list, n, S, t, ks, width)
<1>0. n \in Nat
  BY DEF Listed
<1>1. ASSUME NEW k \in ks, NEW d, TargetOf(list, n, t, k, d, width)
      PROVE  SomeSet(list, n, {t} \cup Support(d), ks, width)
  <2>1. /\ d \in Whole(n, width) /\ Support(d) \subseteq (1 .. n) \ {t} /\ Support(d) # {}
        /\ Multiple(k, list[t]) = Combination(list, 1 .. n, d)
    BY <1>1 DEF TargetOf, SupportedBy
  <2>2. PICK S : S = {t} \cup Support(d) /\ S \in SUBSET (1 .. n) /\ t \in S /\ S \ {t} = Support(d)
    <3>1. {t} \cup Support(d) \in SUBSET (1 .. n) /\ ({t} \cup Support(d)) \ {t} = Support(d)
      BY <2>1
    <3> QED BY <3>1
  <2>3. PICK x \in S : x # t
    BY <2>1, <2>2
  <2>4. Cardinality(S) >= 2
    BY <1>0, <2>2, <2>3, AtLeastTwo
  <2>5. TargetBy(list, n, S, t, ks, width)
    BY <2>1, <2>2 DEF TargetBy
  <2>6. TargetAmong(list, S, t, ks, NonZero(width))
    BY <2>2, <2>5, TargetIs
  <2> QED BY <2>2, <2>4, <2>6 DEF SomeSet, RelatedAmong
<1>2. ASSUME NEW S \in SUBSET (1 .. n), t \in S, Cardinality(S) >= 2, TargetAmong(list, S, t, ks, NonZero(width))
      PROVE  TargetReached(list, n, S, t, ks, width)
  <2>1. TargetBy(list, n, S, t, ks, width)
    BY <1>2, TargetIs
  <2>2. PICK k \in ks, d \in Whole(n, width) :
          Support(d) = S \ {t} /\ Multiple(k, list[t]) = Combination(list, 1 .. n, d)
    BY <2>1 DEF TargetBy
  <2>3. S \ {t} # {}
    <3>1. \E x \in S : x # t
      BY <1>0, <1>2, SetsOfFew
    <3> QED BY <3>1
  <2>4. SupportedBy(d, (1 .. n) \ {t}, n, width)
    BY <2>2 DEF SupportedBy
  <2>5. TargetOf(list, n, t, k, d, width) /\ S = {t} \cup Support(d)
    BY <1>2, <2>2, <2>3, <2>4 DEF TargetOf
  <2> QED BY <2>5 DEF TargetReached
<1> QED BY <1>1, <1>2

\* The mixed screen of one target.
LEMMA MixedExact ==
  ASSUME NEW list, NEW n, Roster(list, n), NEW t \in 1 .. n
  PROVE  /\ \A r \in MixedAnswers(list, t) :
              \E S : SomeSet(list, n, S, 1 .. MixedWindow, MixedWindow) /\ Who(S) = r
         /\ \A S \in SUBSET (1 .. n) :
              t \in S /\ Cardinality(S) >= 2 /\ TargetAmong(list, S, t, 1 .. MixedWindow, NonZero(MixedWindow)) =>
                MixedAnswers(list, t) # {}
<1> Listed(list, n)
  BY RosterListed
<1> DEFINE sources == Others(list, {t})
           A == {i \in sources : 2 * Cardinality({j \in sources : j <= i}) <= Cardinality(sources) + 1}
           B == sources \ A
           meets(target) == Meeting(SubsetStates(list, A, MixedWindow), SubsetStates(list, B, MixedWindow), target)
<1>0. n \in Nat /\ list \in [1 .. n -> Keys] /\ sources = (1 .. n) \ {t} /\ MixedWindow \in Nat
  BY RosterConstants DEF Roster, Others
<1>1. Apart(A, B, n) /\ A \cup B = sources
  <2> HIDE DEF sources
  <2> QED BY <1>0 DEF Apart
<1>2. \A r : r \in MixedAnswers(list, t) <=>
               \E k \in 1 .. MixedWindow : \E X \in meets(Multiple(k, list[t])) : r = Who({t} \cup X)
  BY DEF MixedAnswers, Window
<1> HIDE DEF A, B
<1>3. ASSUME NEW k \in 1 .. MixedWindow, NEW X
      PROVE  X \in meets(Multiple(k, list[t])) <=>
               \E d : TargetOf(list, n, t, k, d, MixedWindow) /\ X = Support(d)
  <2>1. PICK target : target = Multiple(k, list[t])
    OBVIOUS
  <2>2. X \in Meeting(SubsetStates(list, A, MixedWindow), SubsetStates(list, B, MixedWindow), target) <=>
          Reaches(list, n, A \cup B, X, MixedWindow, target)
    BY <1>0, <1>1, MeetingIs
  <2> HIDE DEF sources
  <2> QED BY <1>0, <1>1, <2>1, <2>2 DEF TargetOf, Reaches
<1>4. ASSUME NEW r \in MixedAnswers(list, t)
      PROVE  \E S : SomeSet(list, n, S, 1 .. MixedWindow, MixedWindow) /\ Who(S) = r
  <2>1. PICK k \in 1 .. MixedWindow : \E X \in meets(Multiple(k, list[t])) : r = Who({t} \cup X)
    BY <1>2
  <2>2. PICK d : TargetOf(list, n, t, k, d, MixedWindow) /\ r = Who({t} \cup Support(d))
    BY <1>3, <2>1
  <2>3. SomeSet(list, n, {t} \cup Support(d), 1 .. MixedWindow, MixedWindow)
    BY <1>0, <2>2, TargetsRelate
  <2> QED BY <2>2, <2>3
<1>5. ASSUME NEW S \in SUBSET (1 .. n), t \in S, Cardinality(S) >= 2,
             TargetAmong(list, S, t, 1 .. MixedWindow, NonZero(MixedWindow))
      PROVE  MixedAnswers(list, t) # {}
  <2>0. TargetReached(list, n, S, t, 1 .. MixedWindow, MixedWindow)
    BY <1>0, <1>5, TargetsRelate
  <2>1. PICK k \in 1 .. MixedWindow : \E d : TargetOf(list, n, t, k, d, MixedWindow) /\ S = {t} \cup Support(d)
    BY <2>0 DEF TargetReached
  <2>2. PICK X : X \in meets(Multiple(k, list[t]))
    BY <1>3, <2>1
  <2>3. Who({t} \cup X) \in MixedAnswers(list, t)
    BY <1>2, <2>2
  <2> QED BY <2>3
<1> QED BY <1>4, <1>5

\* The opposite of a combination.
LEMMA Opposite ==
  ASSUME NEW list, NEW n, Listed(list, n), NEW S, NEW width, NEW d, SupportedBy(d, S, n, width)
  PROVE  /\ Combination(list, 1 .. n, d) \in Scalars
         /\ \E e : /\ SupportedBy(e, S, n, width) /\ Support(e) = Support(d)
                   /\ Combination(list, 1 .. n, e) = Negated(Combination(list, 1 .. n, d))
                   /\ \A i \in 1 .. n : e[i] = -d[i]
<1>0. n \in Nat /\ S \in SUBSET (1 .. n) /\ width \in Nat /\ d \in Whole(n, width) /\ Support(d) \subseteq S
  BY DEF Listed, SupportedBy
<1>1. d \in [1 .. n -> Int] /\ \A i \in 1 .. n : (i \in Support(d) <=> d[i] # 0) /\ -width <= d[i] /\ d[i] <= width
  BY <1>0, WholeCoefficients
<1> DEFINE e == [i \in 1 .. n |-> -d[i]]
<1>2. e \in Whole(n, width)
  <2>1. ASSUME NEW i \in 1 .. n PROVE -d[i] \in -width .. width
    BY <1>0, <1>1
  <2> QED BY <2>1 DEF Whole
<1>3. \A i \in 1 .. n : e[i] = -d[i]
  OBVIOUS
<1> HIDE DEF e
<1>4. e \in [1 .. n -> Int] /\ Support(e) \in SUBSET (1 .. n) /\ \A i \in 1 .. n : i \in Support(e) <=> e[i] # 0
  BY <1>0, <1>2, WholeCoefficients
<1>5. Support(d) \in SUBSET (1 .. n)
  BY <1>0, WholeCoefficients
<1>6. Support(e) = Support(d)
  <2>1. \A i \in 1 .. n : e[i] # 0 <=> d[i] # 0
    BY <1>1, <1>3
  <2> QED BY <1>1, <1>4, <1>5, <2>1
<1>7. Combination(list, 1 .. n, e) = Negated(Combination(list, 1 .. n, d))
  <2>1. PICK D \in SUBSET (1 .. n) : D = 1 .. n /\ \A i \in D : e[i] = -d[i]
    BY <1>3
  <2>2. d \in [1 .. n -> Int] /\ e \in [1 .. n -> Int] /\ \A i \in D : e[i] = -d[i]
    BY <1>1, <1>4, <2>1
  <2>3. Combination(list, D, e) = Negated(Combination(list, D, d))
    BY ONLY Listed(list, n), D \in SUBSET (1 .. n), <2>2, CombinedNegated
  <2> QED BY <2>1, <2>3
<1>8. Combination(list, 1 .. n, d) \in Scalars
  <2>1. Apart(1 .. n, {}, n)
    BY DEF Apart
  <2> QED BY <1>1, <2>1, CombinedParts
<1>9. SupportedBy(e, S, n, width)
  BY <1>0, <1>2, <1>6 DEF SupportedBy
<1> QED BY <1>3, <1>6, <1>7, <1>8, <1>9

\* What the keys of a window tell of a point.
LEMMA KeyInWindow ==
  ASSUME NEW x \in Scalars, x # 0, NEW p \in Keys
  PROVE  XKey(x) \in XKeys(Window(p, TargetWindow)) <=>
           \E k \in 1 .. TargetWindow : x = Multiple(k, p) \/ x = Negated(Multiple(k, p))
<1> DEFINE one == {x}
           window == Window(p, TargetWindow)
<1>1. p \in Scalars /\ TargetWindow \in Nat /\ TargetWindow <= ScalarWindow /\ ScalarWindow \in Nat
  BY RosterConstants
<1>2. window \in SUBSET Scalars /\ one \in SUBSET Scalars /\ window = {Multiple(k, p) : k \in 1 .. TargetWindow}
  BY <1>1, WindowsAre DEF Window
<1>3. XKeys(one) = {XKey(x)}
  BY DEF XKeys, Identity
<1>4. \A k \in 1 .. TargetWindow : Multiple(k, p) # 0
  <2>1. \A k \in 1 .. TargetWindow : k \in NonZero(ScalarWindow)
    BY <1>1 DEF NonZero
  <2> QED BY <2>1, WindowMisses
<1>5. one = {x}
  OBVIOUS
<1> HIDE DEF one, window
<1>6. XKeys(one) \cap XKeys(window) # {} <=>
        \E a \in one, y \in window : a # 0 /\ y # 0 /\ (a = y \/ a = Negated(y))
  BY <1>2, KeysMeet
<1> QED BY <1>2, <1>3, <1>4, <1>5, <1>6 DEF window

\* The screen of low subsets, of one target.
LEMMA LowSubsetExact ==
  ASSUME NEW list, NEW n, Roster(list, n), NEW t \in 1 .. n, NEW width \in Nat, width = 1
  PROVE  /\ \A r \in LowSubsetAnswers(list, t) :
              \E S : SomeSet(list, n, S, 1 .. TargetWindow, width) /\ Who(S) = r
         /\ \A S \in SUBSET (1 .. n) :
              t \in S /\ Cardinality(S) >= 2 /\ TargetAmong(list, S, t, 1 .. TargetWindow, NonZero(width)) =>
                LowSubsetAnswers(list, t) # {}
<1> Listed(list, n)
  BY RosterListed
<1> DEFINE O == Others(list, {t})
           states == SubsetStates(list, O, width)
           window == Window(list[t], TargetWindow)
<1>0. /\ n \in Nat /\ list \in [1 .. n -> Keys] /\ O = (1 .. n) \ {t} /\ TargetWindow \in Nat
      /\ list[t] \in Keys /\ list[t] \in Scalars
  BY RosterConstants DEF Roster, Others
<1>1. \A q : q \in states <=>
               \E d : SupportedBy(d, O, n, width) /\ q = <<Combination(list, 1 .. n, d), Support(d)>>
  <2>1. O \in SUBSET (1 .. n)
    BY <1>0
  <2> HIDE DEF O
  <2>2. StatesOver(list, n, O, width)
    BY <2>1, StatesAre
  <2> QED BY <2>2 DEF StatesOver
<1>2. \A r : r \in LowSubsetAnswers(list, t) <=>
               \E q \in states : /\ q[2] # {} /\ q[1] # 0 /\ XKey(q[1]) \in XKeys(window)
                                 /\ r = Who({t} \cup q[2])
  BY DEF LowSubsetAnswers, Identity
<1> HIDE DEF O, states, window
<1>3. ASSUME NEW r \in LowSubsetAnswers(list, t)
      PROVE  \E S : SomeSet(list, n, S, 1 .. TargetWindow, width) /\ Who(S) = r
  <2>1. PICK q \in states : q[2] # {} /\ q[1] # 0 /\ XKey(q[1]) \in XKeys(window) /\ r = Who({t} \cup q[2])
    BY <1>2
  <2>2. PICK d : SupportedBy(d, O, n, width) /\ q[1] = Combination(list, 1 .. n, d) /\ q[2] = Support(d)
    BY <1>1
  <2>3. PICK x \in Scalars : x = q[1] /\ x # 0
    BY <2>1, <2>2, Opposite
  <2>4. PICK k \in 1 .. TargetWindow : x = Multiple(k, list[t]) \/ x = Negated(Multiple(k, list[t]))
    BY <1>0, <2>1, <2>3, KeyInWindow DEF window
  <2>5. PICK e : TargetOf(list, n, t, k, e, width) /\ Support(e) = Support(d)
    <3>1. CASE x = Multiple(k, list[t])
      BY <1>0, <2>1, <2>2, <2>3, <3>1 DEF TargetOf
    <3>2. CASE x = Negated(Multiple(k, list[t]))
      <4>1. PICK y \in Scalars : y = Multiple(k, list[t])
        BY <1>0, MultipleFacts
      <4>2. Negated(x) = y
        BY <3>2, <4>1, PointAlgebra
      <4>3. PICK e : /\ SupportedBy(e, O, n, width) /\ Support(e) = Support(d)
                     /\ Combination(list, 1 .. n, e) = Negated(Combination(list, 1 .. n, d))
        BY <2>2, Opposite
      <4>4. TargetOf(list, n, t, k, e, width)
        BY <1>0, <2>1, <2>2, <2>3, <4>1, <4>2, <4>3 DEF TargetOf
      <4> QED BY <4>3, <4>4
    <3> QED BY <2>4, <3>1, <3>2
  <2>6. SomeSet(list, n, {t} \cup Support(e), 1 .. TargetWindow, width)
    BY <2>5, TargetsRelate
  <2> QED BY <2>1, <2>2, <2>5, <2>6
<1>4. ASSUME NEW S \in SUBSET (1 .. n), t \in S, Cardinality(S) >= 2,
             TargetAmong(list, S, t, 1 .. TargetWindow, NonZero(width))
      PROVE  LowSubsetAnswers(list, t) # {}
  <2>0. TargetReached(list, n, S, t, 1 .. TargetWindow, width)
    BY <1>4, TargetsRelate
  <2>1. PICK k \in 1 .. TargetWindow : \E d : TargetOf(list, n, t, k, d, width)
    BY <2>0 DEF TargetReached
  <2>2. PICK d : TargetOf(list, n, t, k, d, width)
    BY <2>1
  <2>3. /\ SupportedBy(d, O, n, width) /\ Support(d) # {} /\ Multiple(k, list[t]) = Combination(list, 1 .. n, d)
    BY <1>0, <2>2 DEF TargetOf
  <2> DEFINE q == <<Combination(list, 1 .. n, d), Support(d)>>
  <2>4. q \in states /\ q[1] = Combination(list, 1 .. n, d) /\ q[2] = Support(d)
    BY <1>1, <2>3
  <2> HIDE DEF q
  <2>5. PICK x \in Scalars : x = q[1] /\ x # 0 /\ x = Multiple(k, list[t])
    <3>1. k \in NonZero(ScalarWindow)
      BY RosterConstants DEF NonZero
    <3>2. Multiple(k, list[t]) \in Scalars \ {0}
      BY <1>0, <3>1, WindowMisses
    <3> QED BY <2>3, <2>4, <3>2
  <2>6. XKey(x) \in XKeys(window)
    BY <1>0, <2>5, KeyInWindow DEF window
  <2>7. Who({t} \cup q[2]) \in LowSubsetAnswers(list, t)
    BY <1>2, <2>3, <2>4, <2>5, <2>6
  <2> QED BY <2>7
<1> QED BY <1>3, <1>4

\* A sum of components that vanishes relates each of them to the others.
LEMMA UnitSubsetExact ==
  ASSUME NEW list, NEW n, Roster(list, n), Len(list) = n, NEW one \in Nat, one = 1
  PROVE  \A r \in UnitSubsetAnswers(list) :
            \E S : SomeSet(list, n, S, 1 .. MixedWindow, one) /\ Who(S) = r
<1> Listed(list, n)
  BY RosterListed
<1>0. n \in Nat /\ list \in [1 .. n -> Keys] /\ 0 \in Scalars /\ Keys \subseteq Scalars
  BY RosterConstants DEF Roster
<1>1. PICK half \in 0 .. n : half = Len(list) \div 2
  BY <1>0
<1> DEFINE A == 1 .. half
           B == half + 1 .. n
<1>2. Apart(A, B, n) /\ A \cup B = 1 .. n
  BY <1>0 DEF Apart
<1>3. \A r : r \in UnitSubsetAnswers(list) <=>
               \E X \in Meeting(SubsetStates(list, A, one), SubsetStates(list, B, one), 0) : r = Who(X)
  BY <1>0, <1>1 DEF UnitSubsetAnswers, Identity
<1> HIDE DEF A, B
<1>4. ASSUME NEW r \in UnitSubsetAnswers(list)
      PROVE  \E S : SomeSet(list, n, S, 1 .. MixedWindow, one) /\ Who(S) = r
  <2>1. PICK X : X \in Meeting(SubsetStates(list, A, one), SubsetStates(list, B, one), 0) /\ r = Who(X)
    BY <1>3
  <2>2. Reaches(list, n, A \cup B, X, one, 0)
    <3>1. PICK target : target = 0
      OBVIOUS
    <3>2. Reaches(list, n, A \cup B, X, one, target)
      BY <1>2, <2>1, <3>1, MeetingIs
    <3> QED BY <3>1, <3>2
  <2>3. PICK f : SupportedBy(f, 1 .. n, n, one) /\ X = Support(f) /\ X # {} /\ Combination(list, 1 .. n, f) = 0
    BY <1>2, <2>2 DEF Reaches
  <2>4. PICK t : t \in X
    BY <2>3
  <2>5. PICK d : /\ SupportedBy(d, 1 .. n, n, one) /\ Support(d) = X /\ Combination(list, 1 .. n, d) = 0
                 /\ d[t] = -1
    <3>1. PICK e : /\ SupportedBy(e, 1 .. n, n, one) /\ Support(e) = Support(f)
                   /\ Combination(list, 1 .. n, e) = Negated(Combination(list, 1 .. n, f))
                   /\ \A i \in 1 .. n : e[i] = -f[i]
      BY <2>3, Opposite
    <3>2. f[t] = 1 \/ f[t] = -1
      <4>1. t \in 1 .. n /\ f[t] \in Int /\ f[t] # 0 /\ -one <= f[t] /\ f[t] <= one
        BY <1>0, <2>3, <2>4, WholeCoefficients DEF SupportedBy
      <4> QED BY <4>1
    <3>3. Negated(0) = 0
      BY <1>0, SignFacts
    <3>4. CASE f[t] = 1
      <4>1. t \in 1 .. n
        BY <1>0, <2>3, <2>4, WholeCoefficients DEF SupportedBy
      <4>2. e[t] = -1
        BY <3>1, <3>4, <4>1
      <4> QED BY <2>3, <3>1, <3>3, <4>2
    <3>5. CASE f[t] = -1
      BY <2>3, <3>5
    <3> QED BY <3>2, <3>4, <3>5
  <2>6. /\ d \in [1 .. n -> Int] /\ X \in SUBSET (1 .. n) /\ t \in 1 .. n /\ d \in [1 .. n -> -one .. one]
        /\ \A i \in 1 .. n : i \in X <=> d[i] # 0
    <3>1. d \in Whole(n, one) /\ Support(d) = X /\ t \in X
      BY <2>4, <2>5 DEF SupportedBy
    <3>2. /\ d \in [1 .. n -> Int] /\ Support(d) \in SUBSET (1 .. n)
          /\ \A i \in 1 .. n : i \in Support(d) <=> d[i] # 0
      BY <1>0, <3>1, WholeCoefficients
    <3>3. d \in [1 .. n -> -one .. one]
      BY <3>1 DEF Whole
    <3>4. X \in SUBSET (1 .. n)
      BY <3>1, <3>2
    <3> QED BY <3>1, <3>2, <3>3, <3>4
  <2> DEFINE e == [i \in 1 .. n |-> IF i = t THEN 0 ELSE d[i]]
  <2>7. e \in Whole(n, one) /\ \A i \in 1 .. n : e[i] = IF i = t THEN 0 ELSE d[i]
    BY <2>6 DEF Whole
  <2> HIDE DEF e
  <2>8. e \in [1 .. n -> Int] /\ Support(e) \in SUBSET (1 .. n) /\ \A i \in 1 .. n : i \in Support(e) <=> e[i] # 0
    BY <1>0, <2>7, WholeCoefficients
  <2>9. Support(e) = X \ {t}
    BY <2>6, <2>7, <2>8
  <2>10. PICK R : R = (1 .. n) \ {t} /\ R \in SUBSET (1 .. n) /\ Support(e) \subseteq R
    BY <2>8, <2>9, ZenonT(60)
  <2>11. SupportedBy(e, R, n, one)
    BY <2>7, <2>10 DEF SupportedBy
  <2>12. list[t] \in Scalars /\ list[t] \in Keys /\ list[t] # 0
    BY <1>0, <2>6, RosterConstants
  <2>13. Combination(list, 1 .. n, e) = list[t]
    <3>1. Combination(list, R, e) = Combination(list, 1 .. n, e)
      BY <2>11, PartFromWhole
    <3>2. \A i \in R : e[i] = d[i]
      BY <2>7, <2>10
    <3>3. Combination(list, R, e) = Combination(list, R, d)
      BY <3>2, CombinedAgrees
    <3>4. Combination(list, {t}, d) = Negated(list[t])
      <4>1. Combination(list, {}, d) = 0 /\ \A i \in 1 .. n : Combination(list, {i}, d) = Multiple(d[i], list[i])
        BY <2>6, CombinedOfFew
      <4>2. Multiple(-1, list[t]) = Negated(list[t])
        <5>1. PICK a \in Int : a = 1
          OBVIOUS
        <5>2. Multiple(-1, list[t]) = Negated(list[t])
          BY <2>12, <5>1, MultipleFacts
        <5> QED BY <5>2
      <4> QED BY <2>5, <2>6, <4>1, <4>2
    <3>5. PICK T : T = {t} /\ Apart(R, T, n) /\ R \cup T = 1 .. n
      <4>1. Apart(R, {t}, n) /\ R \cup {t} = 1 .. n
        BY <2>6, <2>10 DEF Apart
      <4> QED BY <4>1
    <3>6. Combination(list, R, d) \in Scalars /\ Combination(list, R \cup T, d) = Plus(Combination(list, R, d), Combination(list, T, d))
      BY ONLY Listed(list, n), <2>6, <3>5, CombinedParts, SMTT(60)
    <3>7. PICK x \in Scalars : x = Combination(list, R, d) /\ Plus(x, Negated(list[t])) = 0
      BY <2>5, <3>4, <3>5, <3>6
    <3>8. PICK y \in Scalars : y = Negated(list[t])
      BY <2>12, SignFacts
    <3>9. x = Negated(y) /\ Negated(y) = list[t]
      <4>1. x = Negated(y)
        BY <3>7, <3>8, PointAlgebra
      <4>2. list[t] = Negated(y)
        BY <2>12, <3>8, PointAlgebra
      <4> QED BY <4>1, <4>2
    <3> QED BY <3>1, <3>3, <3>7, <3>9
  <2>14. Support(e) # {}
    <3>1. SUFFICES ASSUME Support(e) = {} PROVE FALSE
      OBVIOUS
    <3>2. Combination(list, {}, e) = 0
      BY <2>8, CombinedOfFew
    <3>3. Confined(e, 1 .. n, {}, n)
      BY <2>8, <3>1 DEF Confined
    <3>4. Combination(list, 1 .. n, e) = Combination(list, {}, e)
      BY <2>8, <3>3, CombinedSupport
    <3> QED BY <2>12, <2>13, <3>2, <3>4
  <2>15. TargetOf(list, n, t, 1, e, one)
    <3>1. Multiple(1, list[t]) = list[t]
      <4>1. PICK a \in Int : a = 1
        OBVIOUS
      <4> QED BY <2>12, <4>1, MultipleFacts
    <3> QED BY <2>10, <2>11, <2>13, <2>14, <3>1 DEF TargetOf
  <2>16. SomeSet(list, n, {t} \cup Support(e), 1 .. MixedWindow, one)
    <3>1. PICK k \in 1 .. MixedWindow : k = 1
      BY RosterConstants
    <3>2. t \in 1 .. n /\ one \in Nat /\ TargetOf(list, n, t, k, e, one)
      BY <2>6, <2>15, <3>1
    <3> QED BY <3>2, TargetsRelate
  <2>17. {t} \cup Support(e) = X
    BY <2>4, <2>9
  <2> QED BY <2>1, <2>16, <2>17
<1> QED BY <1>4

\* The first answers are some component's, and there are any if some has any.
LEMMA FirstAnswersAre ==
  ASSUME NEW n \in Nat, NEW answers, DOMAIN answers = 1 .. n
  PROVE  /\ \A r \in FirstAnswers(answers) : \E t \in 1 .. n : r \in answers[t]
         /\ \A t \in 1 .. n : answers[t] # {} => FirstAnswers(answers) # {}
<1> DEFINE some == {t \in 1 .. n : answers[t] # {}}
           first == CHOOSE t \in some : \A u \in some : t <= u
<1>1. FirstAnswers(answers) = IF some = {} THEN {} ELSE answers[first]
  BY DEF FirstAnswers
<1>2. CASE some = {}
  BY <1>1, <1>2
<1>3. CASE some # {}
  <2>1. \E t \in some : \A u \in some : t <= u
    <3>1. some \subseteq Nat
      OBVIOUS
    <3> HIDE DEF some
    <3> QED BY <1>3, <3>1, NatLeast
  <2>2. first \in some
    BY <2>1
  <2> HIDE DEF first
  <2> QED BY <1>1, <1>3, <2>2
<1> QED BY <1>2, <1>3

\* The first pair is one of the pairs.
LEMMA FirstOfIs ==
  ASSUME NEW n \in Nat, NEW pairs, pairs \subseteq (1 .. n) \X (1 .. n), pairs # {}
  PROVE  FirstOf(pairs) \in pairs
<1> DEFINE firsts == {p[1] : p \in pairs}
<1>1. PICK a \in firsts : \A b \in firsts : a <= b
  <2>1. firsts \subseteq Nat /\ firsts # {}
    OBVIOUS
  <2> HIDE DEF firsts
  <2> QED BY <2>1, NatLeast
<1> DEFINE seconds == {p[2] : p \in {q \in pairs : q[1] = a}}
<1>2. PICK c \in seconds : \A b \in seconds : c <= b
  <2>1. seconds \subseteq Nat /\ seconds # {}
    OBVIOUS
  <2> HIDE DEF seconds
  <2> QED BY <2>1, NatLeast
<1>3. PICK p \in pairs : p[1] = a /\ p[2] = c
  BY <1>2
<1>4. ASSUME NEW q \in pairs PROVE p[1] < q[1] \/ (p[1] = q[1] /\ p[2] <= q[2])
  <2>1. p[1] \in Int /\ q[1] \in Int /\ p[2] \in Int /\ q[2] \in Int
    OBVIOUS
  <2>2. a <= q[1]
    BY <1>1
  <2>3. q[1] = a => c <= q[2]
    BY <1>2
  <2> QED BY <1>3, <2>1, <2>2, <2>3
<1> QED BY <1>4 DEF FirstOf

\* The screens tell the truth, and miss nothing.
OtherSet(list, n, S) ==
  \/ LinearSet(list, n, S)
  \/ SomeSet(list, n, S, 1 .. MixedWindow, MixedWindow)
  \/ SomeSet(list, n, S, 1 .. TargetWindow, 1)

LEMMA AnswersOfAll ==
  ASSUME NEW list, NEW n, Roster(list, n), Len(list) = n
  PROVE  /\ \A r \in FirstAnswers([t \in 1 .. n |-> MixedAnswers(list, t)]) :
              \E S : SomeSet(list, n, S, 1 .. MixedWindow, MixedWindow) /\ Who(S) = r
         /\ \A S : SomeSet(list, n, S, 1 .. MixedWindow, MixedWindow) =>
              FirstAnswers([t \in 1 .. n |-> MixedAnswers(list, t)]) # {}
         /\ \A r \in FirstAnswers([t \in 1 .. n |-> LowSubsetAnswers(list, t)]) :
              \E S : SomeSet(list, n, S, 1 .. TargetWindow, 1) /\ Who(S) = r
         /\ \A S : SomeSet(list, n, S, 1 .. TargetWindow, 1) =>
              FirstAnswers([t \in 1 .. n |-> LowSubsetAnswers(list, t)]) # {}
         /\ \A r \in UnitSubsetAnswers(list) :
              \E S : SomeSet(list, n, S, 1 .. MixedWindow, MixedWindow) /\ Who(S) = r
<1> Listed(list, n)
  BY RosterListed
<1> DEFINE mixed == [t \in 1 .. n |-> MixedAnswers(list, t)]
           low == [t \in 1 .. n |-> LowSubsetAnswers(list, t)]
<1>0. n \in Nat
  BY DEF Roster
<1>1. /\ DOMAIN mixed = 1 .. n /\ \A t \in 1 .. n : mixed[t] = MixedAnswers(list, t)
      /\ DOMAIN low = 1 .. n /\ \A t \in 1 .. n : low[t] = LowSubsetAnswers(list, t)
  OBVIOUS
<1> HIDE DEF mixed, low
<1>2. /\ \A r \in FirstAnswers(mixed) : \E t \in 1 .. n : r \in mixed[t]
      /\ \A t \in 1 .. n : mixed[t] # {} => FirstAnswers(mixed) # {}
  BY <1>0, <1>1, FirstAnswersAre
<1>3. /\ \A r \in FirstAnswers(low) : \E t \in 1 .. n : r \in low[t]
      /\ \A t \in 1 .. n : low[t] # {} => FirstAnswers(low) # {}
  BY <1>0, <1>1, FirstAnswersAre
<1>4. ASSUME NEW r \in FirstAnswers(mixed)
      PROVE  \E S : SomeSet(list, n, S, 1 .. MixedWindow, MixedWindow) /\ Who(S) = r
  <2>1. PICK t \in 1 .. n : r \in MixedAnswers(list, t)
    BY <1>1, <1>2
  <2> QED BY <2>1, MixedExact
<1>5. ASSUME NEW S, SomeSet(list, n, S, 1 .. MixedWindow, MixedWindow)
      PROVE  FirstAnswers(mixed) # {}
  <2>1. S \in SUBSET (1 .. n) /\ Cardinality(S) >= 2 /\ RelatedAmong(list, S, 1 .. MixedWindow, NonZero(MixedWindow))
    BY <1>5 DEF SomeSet
  <2>2. PICK t \in S : TargetAmong(list, S, t, 1 .. MixedWindow, NonZero(MixedWindow))
    BY <2>1 DEF RelatedAmong
  <2>3. t \in 1 .. n
    BY <2>1
  <2>4. MixedAnswers(list, t) # {}
    BY <2>1, <2>2, <2>3, MixedExact
  <2> QED BY <1>1, <1>2, <2>3, <2>4
<1>6. PICK one \in Nat : one = 1
  OBVIOUS
<1>7. ASSUME NEW r \in FirstAnswers(low)
      PROVE  \E S : SomeSet(list, n, S, 1 .. TargetWindow, one) /\ Who(S) = r
  <2>1. PICK t \in 1 .. n : r \in LowSubsetAnswers(list, t)
    BY <1>1, <1>3
  <2> QED BY <1>6, <2>1, LowSubsetExact
<1>8. ASSUME NEW S, SomeSet(list, n, S, 1 .. TargetWindow, one)
      PROVE  FirstAnswers(low) # {}
  <2>1. S \in SUBSET (1 .. n) /\ Cardinality(S) >= 2 /\ RelatedAmong(list, S, 1 .. TargetWindow, NonZero(one))
    BY <1>8 DEF SomeSet
  <2>2. PICK t \in S : TargetAmong(list, S, t, 1 .. TargetWindow, NonZero(one))
    BY <2>1 DEF RelatedAmong
  <2>3. t \in 1 .. n
    BY <2>1
  <2>4. LowSubsetAnswers(list, t) # {}
    BY <1>6, <2>1, <2>2, <2>3, LowSubsetExact
  <2> QED BY <1>1, <1>3, <2>3, <2>4
<1>9. ASSUME NEW r \in UnitSubsetAnswers(list)
      PROVE  \E S : SomeSet(list, n, S, 1 .. MixedWindow, MixedWindow) /\ Who(S) = r
  <2>1. PICK S : SomeSet(list, n, S, 1 .. MixedWindow, one) /\ Who(S) = r
    BY <1>6, UnitSubsetExact
  <2>2. NonZero(one) \subseteq NonZero(MixedWindow) /\ 1 .. MixedWindow \subseteq 1 .. MixedWindow
    BY <1>6, RosterConstants DEF NonZero
  <2>3. RelatedAmong(list, S, 1 .. MixedWindow, NonZero(one))
    BY <2>1 DEF SomeSet
  <2>4. RelatedAmong(list, S, 1 .. MixedWindow, NonZero(MixedWindow))
    BY <2>2, <2>3, MoreRelated
  <2> QED BY <2>1, <2>4 DEF SomeSet
<1> QED BY <1>4, <1>5, <1>6, <1>7, <1>8, <1>9 DEF mixed, low

\* Between two components every relation is a scalar relation.
LEMMA TwoComponents ==
  ASSUME NEW list, NEW n, Listed(list, n), n <= 2, NEW S, OtherSet(list, n, S)
  PROVE  ScalarSet(list, n, S)
<1>0. n \in Nat
  BY DEF Listed
<1>1. ~LinearSet(list, n, S)
  <2>1. S \in kSubset(3, 1 .. n) => FALSE
    <3>1. ASSUME S \in SUBSET (1 .. n) PROVE Cardinality(S) \in Nat /\ Cardinality(S) <= n
      BY <1>0, <3>1, SetsOfFew
    <3> QED BY <1>0, <3>1 DEF kSubset
  <2> QED BY <2>1 DEF LinearSet
<1>2. ASSUME NEW ks, ks \subseteq 1 .. ScalarWindow, NEW width, NonZero(width) \subseteq NonZero(ScalarWindow),
             SomeSet(list, n, S, ks, width)
      PROVE  ScalarSet(list, n, S)
  <2>1. S \in SUBSET (1 .. n) /\ Cardinality(S) >= 2 /\ RelatedAmong(list, S, ks, NonZero(width))
    BY <1>2 DEF SomeSet
  <2>2. Cardinality(S) \in Nat /\ Cardinality(S) <= n
    BY <1>0, <2>1, SetsOfFew
  <2>3. S \in kSubset(2, 1 .. n)
    BY <1>0, <2>1, <2>2 DEF kSubset
  <2>4. RelatedAmong(list, S, 1 .. ScalarWindow, NonZero(ScalarWindow))
    BY <1>2, <2>1, MoreRelated
  <2> QED BY <2>3, <2>4 DEF ScalarSet
<1>3. /\ 1 .. MixedWindow \subseteq 1 .. ScalarWindow /\ NonZero(MixedWindow) \subseteq NonZero(ScalarWindow)
      /\ 1 .. TargetWindow \subseteq 1 .. ScalarWindow /\ NonZero(1) \subseteq NonZero(ScalarWindow)
  BY RosterConstants DEF NonZero
<1>4. CASE SomeSet(list, n, S, 1 .. MixedWindow, MixedWindow)
  BY <1>2, <1>3, <1>4
<1>5. CASE SomeSet(list, n, S, 1 .. TargetWindow, 1)
  BY <1>2, <1>3, <1>5
<1> QED BY <1>1, <1>4, <1>5 DEF OtherSet

LEMMA RejectionsTell ==
  ASSUME NEW list, NEW n, Roster(list, n), Len(list) = n
  PROVE  /\ \A r \in Rejections(list) :
              \E S : (IF r[1] = "scalar" THEN ScalarSet(list, n, S) ELSE OtherSet(list, n, S)) /\ Who(S) = r[2]
         /\ \A S : ScalarSet(list, n, S) \/ OtherSet(list, n, S) => Rejections(list) # {}
<1> Listed(list, n)
  BY RosterListed
<1> DEFINE scalar == {p \in Pairs(list) : ScalarRelated(list[p[1]], list[p[2]])}
           linear == {p \in Pairs(list) : PairAnswer(list, p) # {}}
           mixed == FirstAnswers([t \in 1 .. n |-> MixedAnswers(list, t)])
           low == FirstAnswers([t \in 1 .. n |-> LowSubsetAnswers(list, t)])
           about(answers) == {"linear"} \X answers
<1>0. n \in Nat /\ DOMAIN list = 1 .. n
  BY DEF Roster
<1>1. Rejections(list) = IF scalar # {} THEN {<<"scalar", Who(ToSet(FirstOf(scalar)))>>}
                         ELSE IF n <= 2 THEN {}
                         ELSE IF linear # {} THEN about(PairAnswer(list, FirstOf(linear)))
                         ELSE IF mixed # {} THEN about(mixed)
                         ELSE IF low # {} THEN about(low)
                         ELSE about(UnitSubsetAnswers(list))
  BY <1>0 DEF Rejections
<1>2. ASSUME NEW pairs, pairs \subseteq Pairs(list), pairs # {}
      PROVE  /\ FirstOf(pairs) \in pairs
             /\ ToSet(FirstOf(pairs)) = {FirstOf(pairs)[1], FirstOf(pairs)[2]}
  <2>1. pairs \subseteq (1 .. n) \X (1 .. n)
    BY <1>0, <1>2 DEF Pairs
  <2>2. FirstOf(pairs) \in pairs
    BY <1>0, <1>2, <2>1, FirstOfIs
  <2>3. PICK i \in 1 .. n, j \in 1 .. n : FirstOf(pairs) = <<i, j>>
    BY <2>1, <2>2
  <2>4. ToSet(<<i, j>>) = {i, j}
    BY DEF ToSet
  <2> QED BY <2>2, <2>3, <2>4
<1>3. scalar \subseteq Pairs(list) /\ linear \subseteq Pairs(list)
  OBVIOUS
<1>4. scalar # {} => \E S : ScalarSet(list, n, S) /\ Who(S) = Who(ToSet(FirstOf(scalar)))
  <2>1. SUFFICES ASSUME scalar # {} PROVE \E S : ScalarSet(list, n, S) /\ Who(S) = Who(ToSet(FirstOf(scalar)))
    OBVIOUS
  <2>2. PICK p : p \in scalar /\ ToSet(FirstOf(scalar)) = {p[1], p[2]}
    BY <1>2, <1>3, <2>1
  <2>3. ScalarSet(list, n, {p[1], p[2]})
    BY <2>2, ScalarExact
  <2> QED BY <2>2, <2>3
<1>5. \A S : ScalarSet(list, n, S) => scalar # {}
  <2>1. \A S : ScalarSet(list, n, S) => \E p \in Pairs(list) : ScalarRelated(list[p[1]], list[p[2]])
    BY ScalarExact
  <2> QED BY <2>1
<1>6. linear # {} => /\ PairAnswer(list, FirstOf(linear)) # {}
                     /\ \A r \in PairAnswer(list, FirstOf(linear)) : \E S : OtherSet(list, n, S) /\ Who(S) = r
  <2>1. SUFFICES ASSUME linear # {}
                 PROVE  /\ PairAnswer(list, FirstOf(linear)) # {}
                        /\ \A r \in PairAnswer(list, FirstOf(linear)) : \E S : OtherSet(list, n, S) /\ Who(S) = r
    OBVIOUS
  <2>2. PICK p : p = FirstOf(linear) /\ p \in Pairs(list) /\ PairAnswer(list, p) # {}
    <3>1. FirstOf(linear) \in linear
      <4> HIDE DEF linear
      <4> QED BY <1>2, <1>3, <2>1
    <3> DEFINE p == FirstOf(linear)
    <3>2. p \in linear
      BY <3>1
    <3> HIDE DEF p
    <3>3. p \in Pairs(list) /\ PairAnswer(list, p) # {}
      BY <3>2
    <3> QED BY <3>3 DEF p
  <2>3. \A r \in PairAnswer(list, p) : \E S : LinearSet(list, n, S) /\ Who(S) = r
    BY <2>2, LinearExact
  <2> QED BY <2>2, <2>3 DEF OtherSet
<1>7. \A S : LinearSet(list, n, S) => linear # {}
  <2>1. \A S : LinearSet(list, n, S) => \E p \in Pairs(list) : PairAnswer(list, p) # {}
    BY LinearExact
  <2> QED BY <2>1
<1>8. /\ \A r \in mixed : \E S : OtherSet(list, n, S) /\ Who(S) = r
      /\ \A r \in low : \E S : OtherSet(list, n, S) /\ Who(S) = r
      /\ \A r \in UnitSubsetAnswers(list) : \E S : OtherSet(list, n, S) /\ Who(S) = r
  <2>1. \A r \in mixed : \E S : SomeSet(list, n, S, 1 .. MixedWindow, MixedWindow) /\ Who(S) = r
    BY AnswersOfAll
  <2>2. \A r \in low : \E S : SomeSet(list, n, S, 1 .. TargetWindow, 1) /\ Who(S) = r
    BY AnswersOfAll
  <2>3. \A r \in UnitSubsetAnswers(list) : \E S : SomeSet(list, n, S, 1 .. MixedWindow, MixedWindow) /\ Who(S) = r
    BY AnswersOfAll
  <2> HIDE DEF mixed, low
  <2> QED BY <2>1, <2>2, <2>3 DEF OtherSet
<1>9. \A S : OtherSet(list, n, S) => linear # {} \/ mixed # {} \/ low # {}
  <2>1. \A S : SomeSet(list, n, S, 1 .. MixedWindow, MixedWindow) => mixed # {}
    BY AnswersOfAll
  <2>2. \A S : SomeSet(list, n, S, 1 .. TargetWindow, 1) => low # {}
    BY AnswersOfAll
  <2> HIDE DEF mixed, low, linear
  <2> QED BY <1>7, <2>1, <2>2 DEF OtherSet
<1> HIDE DEF scalar, linear, mixed, low
<1>10. ASSUME NEW answers, \A r \in answers : \E S : OtherSet(list, n, S) /\ Who(S) = r, NEW r \in about(answers)
       PROVE  r[1] # "scalar" /\ \E S : OtherSet(list, n, S) /\ Who(S) = r[2]
  BY <1>10
<1>11. ASSUME NEW r \in Rejections(list)
       PROVE  \E S : (IF r[1] = "scalar" THEN ScalarSet(list, n, S) ELSE OtherSet(list, n, S)) /\ Who(S) = r[2]
  <2>1. CASE scalar # {}
    <3>1. r[1] = "scalar" /\ r[2] = Who(ToSet(FirstOf(scalar)))
      BY <1>1, <1>11, <2>1
    <3> QED BY <1>4, <2>1, <3>1
  <2>2. CASE scalar = {}
    <3>1. \/ linear # {} /\ r \in about(PairAnswer(list, FirstOf(linear)))
          \/ r \in about(mixed) \/ r \in about(low) \/ r \in about(UnitSubsetAnswers(list))
      BY <1>1, <1>11, <2>2
    <3>2. r[1] # "scalar" /\ \E S : OtherSet(list, n, S) /\ Who(S) = r[2]
      <4> HIDE DEF about
      <4> QED BY <1>6, <1>8, <1>10, <3>1
    <3> QED BY <3>2
  <2> QED BY <2>1, <2>2
<1>12. ASSUME NEW S, ScalarSet(list, n, S) \/ OtherSet(list, n, S) PROVE Rejections(list) # {}
  <2>1. CASE scalar # {}
    BY <1>1, <2>1
  <2>2. CASE scalar = {}
    <3>1. OtherSet(list, n, S) /\ ~(n <= 2)
      BY <1>0, <1>5, <1>12, <2>2, TwoComponents
    <3>2. linear # {} \/ mixed # {} \/ low # {}
      BY <1>9, <3>1
    <3>3. ASSUME NEW answers, answers # {} PROVE about(answers) # {}
      <4>1. PICK a : a \in answers
        BY <3>3
      <4>2. <<"linear", a>> \in about(answers)
        BY <4>1
      <4> QED BY <4>2
    <3> HIDE DEF about
    <3> QED BY <1>1, <1>6, <2>2, <3>1, <3>2, <3>3
  <2> QED BY <2>1, <2>2
<1> QED BY <1>11, <1>12

\* The sets that the properties speak of.
LEMMA RelationsAre ==
  ASSUME NEW n, n = Len(components), components \in Seq(Keys)
  PROVE  /\ Roster(components, n)
         /\ \A S : S \in ScalarRelations <=> ScalarSet(components, n, S)
         /\ \A S : S \in Relations <=> ScalarSet(components, n, S) \/ OtherSet(components, n, S)
<1>0. /\ n \in Nat /\ DOMAIN components = 1 .. n
      /\ Roster(components, n)
  BY RosterConstants DEF Roster
<1>1. {-1, 1} = NonZero(1)
  BY DEF NonZero
<1>2. \A S : S \in ScalarRelations <=> ScalarSet(components, n, S)
  BY <1>0, TargetsAre DEF ScalarRelations, ScalarSet, kSubset
<1>3. \A S : S \in UnitTargetRelations \cup LowRelations <=> LinearSet(components, n, S)
  BY <1>0, TargetsAre DEF UnitTargetRelations, LowRelations, LinearSet, kSubset
<1>4. \A S : S \in MixedRelations <=> SomeSet(components, n, S, 1 .. MixedWindow, MixedWindow)
  BY <1>0, TargetsAre DEF MixedRelations, SomeSet, Several
<1>5. \A S : S \in LowSubsetRelations <=> SomeSet(components, n, S, 1 .. TargetWindow, 1)
  BY <1>0, <1>1, TargetsAre DEF LowSubsetRelations, SomeSet, Several
<1> QED BY <1>0, <1>2, <1>3, <1>4, <1>5 DEF Relations, OtherSet

RosterInv == components \in Seq(Keys)

\* A roster is refused when, and only when, one of the relations of its screens
\* holds among its components, and the error says which components it is about
\* (composite.rs:754-902).
THEOREM RosterScreenAnswers == RosterSpec => []RosterScreenIsExact
<1>1. RosterInit => RosterInv
  BY DEF RosterInit, RosterInv
<1>2. RosterInv /\ [RosterNext]_components => RosterInv'
  BY DEF RosterInv, RosterNext, AddGate
<1>3. RosterInv => RosterScreenIsExact
  <2> SUFFICES ASSUME RosterInv PROVE RosterScreenIsExact
    OBVIOUS
  <2>1. PICK n : n = Len(components) /\ components \in Seq(Keys)
    BY DEF RosterInv
  <2>2. /\ Roster(components, n)
        /\ \A S : S \in ScalarRelations <=> ScalarSet(components, n, S)
        /\ \A S : S \in Relations <=> ScalarSet(components, n, S) \/ OtherSet(components, n, S)
    BY <2>1, RelationsAre
  <2>3. /\ \A r \in Rejections(components) :
             \E S : (IF r[1] = "scalar" THEN ScalarSet(components, n, S) ELSE OtherSet(components, n, S))
                    /\ Who(S) = r[2]
        /\ \A S : ScalarSet(components, n, S) \/ OtherSet(components, n, S) => Rejections(components) # {}
    BY <2>1, <2>2, RejectionsTell
  <2>4. ErrorsAreTruthful
    BY <2>2, <2>3 DEF ErrorsAreTruthful
  <2>5. RefusesExactly
    <3>1. ASSUME Rejections(components) # {} PROVE Relations # {}
      BY <2>2, <2>3, <3>1
    <3>2. ASSUME Relations # {} PROVE Rejections(components) # {}
      BY <2>2, <2>3, <3>2
    <3> QED BY <3>1, <3>2 DEF RefusesExactly
  <2> QED BY <2>4, <2>5 DEF RosterScreenIsExact
<1> QED BY <1>1, <1>2, <1>3, PTL DEF RosterSpec

----------------------------------------------------------------------------
(* The screen of commitments.                                              *)

\* A difference of points.
LEMMA MinusIs ==
  ASSUME NEW x \in Scalars, NEW p \in Scalars
  PROVE  Minus(x, p) = Plus(x, Negated(p)) /\ Minus(x, p) \in Scalars
<1>1. x \in 0 .. Order - 1 /\ p \in 0 .. Order - 1 /\ Order \in Nat /\ Scalars = 0 .. Order - 1
  BY RosterConstants DEF Scalars
<1>2. PICK y \in Scalars : y = Negated(p) /\ y = IF p = 0 THEN 0 ELSE Order - p
  BY SignFacts
<1>3. Minus(x, p) = IF p <= x THEN x - p ELSE x - p + Order
  BY ByParts
<1>4. Plus(x, y) = IF x + y < Order THEN x + y ELSE x + y - Order
  BY ByParts
<1>5. y \in 0 .. Order - 1
  BY <1>1, <1>2
<1> HIDE DEF Scalars
<1>6. Minus(x, p) = Plus(x, y)
  BY <1>1, <1>2, <1>3, <1>4, <1>5
<1>7. Plus(x, y) \in Scalars
  BY PointAlgebra
<1> QED BY <1>2, <1>6, <1>7

\* One coefficient more.
Adds(c, d, i, n) ==
  /\ n \in Nat /\ c \in Whole(n, 1) /\ d \in Whole(n, 1) /\ i \in 1 .. n
  /\ c[i] = 0 /\ d[i] # 0 /\ \A k \in 1 .. n : k # i => d[k] = c[k]

LEMMA OneMore ==
  ASSUME NEW list, NEW n, Listed(list, n), NEW c, NEW d, NEW i, Adds(c, d, i, n)
  PROVE  /\ Combination(list, 1 .. n, c) \in Scalars
         /\ Combination(list, 1 .. n, d) = Plus(Combination(list, 1 .. n, c), Multiple(d[i], list[i]))
         /\ Cardinality(Support(c)) \in Nat /\ Cardinality(Support(d)) = Cardinality(Support(c)) + 1
<1>0. /\ n \in Nat /\ c \in Whole(n, 1) /\ d \in Whole(n, 1) /\ i \in 1 .. n
      /\ c[i] = 0 /\ d[i] # 0 /\ \A k \in 1 .. n : k # i => d[k] = c[k]
  BY DEF Adds
<1>1. /\ c \in [1 .. n -> Int] /\ d \in [1 .. n -> Int]
      /\ Support(c) \in SUBSET (1 .. n) /\ Support(d) \in SUBSET (1 .. n)
      /\ \A k \in 1 .. n : (k \in Support(c) <=> c[k] # 0) /\ (k \in Support(d) <=> d[k] # 0)
  <2>1. PICK one \in Nat : one = 1
    OBVIOUS
  <2>2. c \in Whole(n, one) /\ d \in Whole(n, one)
    BY <1>0, <2>1
  <2>3. /\ c \in [1 .. n -> Int] /\ DOMAIN c = 1 .. n /\ Support(c) \in SUBSET (1 .. n)
        /\ \A k \in 1 .. n : (k \in Support(c) <=> c[k] # 0) /\ -one <= c[k] /\ c[k] <= one
    BY <1>0, <2>2, WholeCoefficients
  <2>4. /\ d \in [1 .. n -> Int] /\ DOMAIN d = 1 .. n /\ Support(d) \in SUBSET (1 .. n)
        /\ \A k \in 1 .. n : (k \in Support(d) <=> d[k] # 0) /\ -one <= d[k] /\ d[k] <= one
    BY <1>0, <2>2, WholeCoefficients
  <2> QED BY <2>3, <2>4
<1>2. Support(d) = Support(c) \cup {i} /\ i \notin Support(c)
  BY <1>0, <1>1
<1>3. IsFiniteSet(Support(c))
  <2>1. IsFiniteSet(1 .. n)
    BY <1>0, FS_Interval
  <2> QED BY <1>1, <2>1, FS_Subset
<1>4. Cardinality(Support(c)) \in Nat /\ Cardinality(Support(d)) = Cardinality(Support(c)) + 1
  BY <1>2, <1>3, FS_AddElement, FS_CardinalityType
<1>5. PICK R, T : /\ R = (1 .. n) \ {i} /\ T = {i} /\ R \cup T = 1 .. n
                  /\ Apart(R, T, n) /\ Confined(c, 1 .. n, R, n)
  <2>1. Apart((1 .. n) \ {i}, {i}, n)
    BY <1>0 DEF Apart
  <2>2. Confined(c, 1 .. n, (1 .. n) \ {i}, n)
    BY <1>0 DEF Confined
  <2> QED BY <1>0, <2>1, <2>2
<1>6. Combination(list, R, d) \in Scalars /\ Combination(list, R \cup T, d) = Plus(Combination(list, R, d), Combination(list, T, d))
  <2>1. d \in [1 .. n -> Int]
    BY <1>1
  <2> QED BY ONLY Listed(list, n), <2>1, <1>5, CombinedParts
<1>7. Combination(list, {}, d) = 0 /\ \A k \in 1 .. n : Combination(list, {k}, d) = Multiple(d[k], list[k])
  BY <1>1, CombinedOfFew
<1>8. Combination(list, 1 .. n, c) = Combination(list, R, c)
  BY <1>1, <1>5, CombinedSupport
<1>9. Combination(list, R, d) = Combination(list, R, c)
  <2>1. \A k \in R : d[k] = c[k]
    BY <1>0, <1>5
  <2> QED BY <2>1, CombinedAgrees
<1> QED BY <1>0, <1>4, <1>5, <1>6, <1>7, <1>8, <1>9

\* The first term is positive.
Leads(c, n) == \A k \in 1 .. n : c[k] = -1 => \E h \in 1 .. k - 1 : c[h] # 0

Walk(list, n, c) == <<Combination(list, 1 .. n, c), Cardinality(Support(c))>>
WalksBy(n, i) == {c \in Whole(n, 1) : SupportedBy(c, 1 .. i, n, 1) /\ Leads(c, n)}
WalksUpTo(list, n, i) == {Walk(list, n, c) : c \in WalksBy(n, i)}

\* The walks over one point more.
Longer(walks, p) ==
  walks \cup {<<Plus(w[1], p), w[2] + 1>> : w \in walks}
        \cup {<<Minus(w[1], p), w[2] + 1>> : w \in {v \in walks : v[2] > 0}}

\* What the coefficients of a walk are.
LEMMA WalkBy ==
  ASSUME NEW n \in Nat, NEW i \in 0 .. n, NEW c
  PROVE  /\ c \in WalksBy(n, i) <=>
              /\ c \in [1 .. n -> -1 .. 1] /\ \A k \in 1 .. n : k > i => c[k] = 0
              /\ Leads(c, n)
         /\ c \in WalksBy(n, i) => c \in Whole(n, 1)
<1>1. Whole(n, 1) = [1 .. n -> -1 .. 1]
  BY DEF Whole
<1>2. 1 .. i \in SUBSET (1 .. n) /\ 1 \in Nat
  OBVIOUS
<1>3. ASSUME c \in Whole(n, 1) PROVE Support(c) \subseteq 1 .. i <=> \A k \in 1 .. n : k > i => c[k] = 0
  BY <1>1, <1>3 DEF Support
<1> QED BY <1>1, <1>2, <1>3 DEF WalksBy, SupportedBy

\* The walk before a step to i, and after it.
LEMMA WalkStepTo ==
  ASSUME NEW list, NEW n, Listed(list, n), NEW c, NEW d, NEW i, Adds(c, d, i, n)
  PROVE  /\ Walk(list, n, c)[2] \in Nat
         /\ d[i] = 1 => Walk(list, n, d) = <<Plus(Walk(list, n, c)[1], list[i]), Walk(list, n, c)[2] + 1>>
         /\ d[i] = -1 => Walk(list, n, d) = <<Minus(Walk(list, n, c)[1], list[i]), Walk(list, n, c)[2] + 1>>
<1>1. PICK x \in Scalars, m \in Nat :
        /\ x = Combination(list, 1 .. n, c) /\ m = Cardinality(Support(c))
        /\ Combination(list, 1 .. n, d) = Plus(x, Multiple(d[i], list[i]))
        /\ Cardinality(Support(d)) = m + 1
  <2>1. /\ Combination(list, 1 .. n, c) \in Scalars
        /\ Combination(list, 1 .. n, d) = Plus(Combination(list, 1 .. n, c), Multiple(d[i], list[i]))
        /\ Cardinality(Support(c)) \in Nat /\ Cardinality(Support(d)) = Cardinality(Support(c)) + 1
    BY OneMore
  <2> QED BY <2>1
<1>2. PICK p \in Scalars : p = list[i]
  BY DEF Adds, Listed
<1>3. Multiple(1, p) = p /\ Multiple(-1, p) = Negated(p)
  <2>1. PICK a \in Int : a = 1
    OBVIOUS
  <2>2. /\ Multiple(a, p) \in Scalars /\ Multiple(-a, p) = Negated(Multiple(a, p))
        /\ Multiple(0, p) = 0 /\ Multiple(1, p) = p /\ Multiple(-1, p) = Negated(p)
    BY MultipleFacts
  <2> QED BY <2>2
<1>4. Minus(x, p) = Plus(x, Negated(p))
  BY MinusIs
<1>5. d[i] = 1 => Multiple(d[i], p) = p
  BY <1>3
<1>6. d[i] = -1 => Multiple(d[i], p) = Negated(p)
  BY <1>3
<1> QED BY <1>1, <1>2, <1>4, <1>5, <1>6 DEF Walk

LEMMA WalksGrow ==
  ASSUME NEW list, NEW n, Listed(list, n), NEW i \in 1 .. n
  PROVE  WalksUpTo(list, n, i) = Longer(WalksUpTo(list, n, i - 1), list[i])
<1>0. n \in Nat /\ i - 1 \in 0 .. n /\ i \in 0 .. n /\ i - 1 < i /\ i \in Int
  BY DEF Listed
<1> DEFINE before == WalksBy(n, i - 1)
           after == WalksBy(n, i)
<1>1. ASSUME NEW c
      PROVE  /\ c \in before <=> /\ c \in [1 .. n -> -1 .. 1] /\ \A k \in 1 .. n : k > i - 1 => c[k] = 0
                                 /\ Leads(c, n)
             /\ c \in after <=> /\ c \in [1 .. n -> -1 .. 1] /\ \A k \in 1 .. n : k > i => c[k] = 0
                                /\ Leads(c, n)
             /\ (c \in before => c \in Whole(n, 1)) /\ (c \in after => c \in Whole(n, 1))
  BY <1>0, WalkBy
<1> HIDE DEF before, after
<1>2. before \subseteq after
  BY <1>0, <1>1
<1>3. ASSUME NEW c \in before, NEW a \in {-1, 1}, a = 1 \/ Cardinality(Support(c)) > 0
      PROVE  \E d \in after : Adds(c, d, i, n) /\ d[i] = a
  <2> DEFINE d == [c EXCEPT ![i] = a]
  <2>1. c \in [1 .. n -> -1 .. 1] /\ c[i] = 0 /\ Leads(c, n) /\ \A k \in 1 .. n : k > i - 1 => c[k] = 0
    BY <1>0, <1>1
  <2>2. d \in [1 .. n -> -1 .. 1] /\ d[i] = a /\ \A k \in 1 .. n : k # i => d[k] = c[k]
    BY <2>1
  <2> HIDE DEF d
  <2>3. Adds(c, d, i, n)
    BY <1>0, <2>1, <2>2 DEF Adds, Whole
  <2>4. ASSUME NEW k \in 1 .. n, d[k] = -1 PROVE \E h \in 1 .. k - 1 : d[h] # 0
    <3>1. CASE k = i
      <4>1. a = -1 /\ Cardinality(Support(c)) > 0
        BY <1>3, <2>2, <2>4, <3>1
      <4>2. Support(c) # {}
        BY <4>1, FS_EmptySet
      <4>3. PICK h \in 1 .. n : c[h] # 0
        BY <2>1, <4>2 DEF Support
      <4>4. h \in 1 .. i - 1 /\ h # i
        BY <1>0, <2>1, <4>3
      <4> QED BY <2>2, <3>1, <4>3, <4>4
    <3>2. CASE k # i
      <4>1. c[k] = -1 /\ k < i
        BY <1>0, <2>1, <2>2, <2>4, <3>2
      <4>2. PICK h \in 1 .. k - 1 : c[h] # 0
        BY <2>1, <4>1 DEF Leads
      <4>3. h \in 1 .. n /\ h # i
        BY <1>0, <4>1
      <4> QED BY <2>2, <4>2, <4>3
    <3> QED BY <3>1, <3>2
  <2>5. d \in after
    <3>1. \A k \in 1 .. n : k > i => d[k] = 0
      BY <1>0, <2>1, <2>2
    <3>2. Leads(d, n)
      BY <2>4 DEF Leads
    <3> QED BY <1>1, <2>2, <3>1, <3>2
  <2> QED BY <2>2, <2>3, <2>5
<1>4. ASSUME NEW d \in after, d \notin before
      PROVE  \E c \in before : /\ Adds(c, d, i, n)
                               /\ d[i] = 1 \/ (d[i] = -1 /\ Cardinality(Support(c)) > 0)
  <2> DEFINE c == [d EXCEPT ![i] = 0]
  <2>1. d \in [1 .. n -> -1 .. 1] /\ Leads(d, n) /\ \A k \in 1 .. n : k > i => d[k] = 0
    BY <1>1
  <2>2. d[i] # 0
    <3>1. ASSUME d[i] = 0 PROVE \A k \in 1 .. n : k > i - 1 => d[k] = 0
      BY <1>0, <2>1, <3>1
    <3> QED BY <1>1, <1>4, <2>1, <3>1
  <2>3. c \in [1 .. n -> -1 .. 1] /\ c[i] = 0 /\ \A k \in 1 .. n : k # i => d[k] = c[k]
    BY <2>1
  <2> HIDE DEF c
  <2>4. Adds(c, d, i, n)
    BY <1>0, <2>1, <2>2, <2>3 DEF Adds, Whole
  <2>5. c \in before
    <3>1. \A k \in 1 .. n : k > i - 1 => c[k] = 0
      BY <1>0, <2>1, <2>3
    <3>2. ASSUME NEW k \in 1 .. n, c[k] = -1 PROVE \E h \in 1 .. k - 1 : c[h] # 0
      <4>1. d[k] = -1 /\ k < i
        BY <1>0, <2>3, <3>1, <3>2
      <4>2. PICK h \in 1 .. k - 1 : d[h] # 0
        BY <2>1, <4>1 DEF Leads
      <4>3. h \in 1 .. n /\ h # i
        BY <1>0, <4>1
      <4> QED BY <2>3, <4>2, <4>3
    <3>3. Leads(c, n)
      BY <3>2 DEF Leads
    <3> QED BY <1>1, <2>3, <3>1, <3>3
  <2>6. ASSUME d[i] = -1 PROVE Cardinality(Support(c)) > 0
    <3>1. PICK h \in 1 .. i - 1 : d[h] # 0
      BY <2>1, <2>6 DEF Leads
    <3>2. h \in 1 .. n /\ h # i /\ c[h] # 0
      BY <1>0, <2>3, <3>1
    <3>3. h \in Support(c) /\ Support(c) \subseteq 1 .. n
      BY <2>3, <3>2 DEF Support
    <3>4. IsFiniteSet(Support(c))
      <4>1. IsFiniteSet(1 .. n)
        BY <1>0, FS_Interval
      <4> QED BY <3>3, <4>1, FS_Subset
    <3> QED BY <3>3, <3>4, FS_EmptySet, FS_CardinalityType
  <2>7. d[i] = 1 \/ d[i] = -1
    BY <2>1, <2>2
  <2> QED BY <2>4, <2>5, <2>6, <2>7
<1> DEFINE walks == WalksUpTo(list, n, i - 1)
<1>5. walks = {Walk(list, n, c) : c \in before} /\ WalksUpTo(list, n, i) = {Walk(list, n, c) : c \in after}
  BY DEF WalksUpTo, before, after
<1> HIDE DEF walks
<1>6. ASSUME NEW w \in WalksUpTo(list, n, i) PROVE w \in Longer(walks, list[i])
  <2>1. PICK d \in after : w = Walk(list, n, d)
    BY <1>5
  <2>2. CASE d \in before
    <3>1. w \in walks
      BY <1>5, <2>1, <2>2
    <3> QED BY <3>1 DEF Longer
  <2>3. CASE d \notin before
    <3>1. PICK c \in before : /\ Adds(c, d, i, n)
                              /\ d[i] = 1 \/ (d[i] = -1 /\ Cardinality(Support(c)) > 0)
      BY <1>4, <2>3
    <3>2. PICK v \in walks : v = Walk(list, n, c)
      BY <1>5
    <3>3. v[2] = Cardinality(Support(c))
      BY <3>2 DEF Walk
    <3>4. /\ d[i] = 1 => w = <<Plus(v[1], list[i]), v[2] + 1>>
          /\ d[i] = -1 => w = <<Minus(v[1], list[i]), v[2] + 1>>
      BY <2>1, <3>1, <3>2, WalkStepTo
    <3> QED BY <3>1, <3>3, <3>4 DEF Longer
  <2> QED BY <2>2, <2>3
<1>7. ASSUME NEW v \in walks, NEW a \in {-1, 1}, a = 1 \/ v[2] > 0
      PROVE  <<IF a = 1 THEN Plus(v[1], list[i]) ELSE Minus(v[1], list[i]), v[2] + 1>> \in WalksUpTo(list, n, i)
  <2>1. PICK c \in before : v = Walk(list, n, c)
    BY <1>5
  <2>2. a = 1 \/ Cardinality(Support(c)) > 0
    BY <1>7, <2>1 DEF Walk
  <2>3. PICK d \in after : Adds(c, d, i, n) /\ d[i] = a
    BY <1>3, <2>2
  <2>4. /\ d[i] = 1 => Walk(list, n, d) = <<Plus(v[1], list[i]), v[2] + 1>>
        /\ d[i] = -1 => Walk(list, n, d) = <<Minus(v[1], list[i]), v[2] + 1>>
    BY <2>1, <2>3, WalkStepTo
  <2>5. Walk(list, n, d) \in WalksUpTo(list, n, i)
    BY <1>5, <2>3
  <2> QED BY <2>3, <2>4, <2>5
<1>8. walks \subseteq WalksUpTo(list, n, i)
  BY <1>2, <1>5
<1>9. ASSUME NEW w \in Longer(walks, list[i]) PROVE w \in WalksUpTo(list, n, i)
  <2>1. CASE w \in walks
    BY <1>8, <2>1
  <2>2. ASSUME NEW v \in walks, w = <<Plus(v[1], list[i]), v[2] + 1>> PROVE w \in WalksUpTo(list, n, i)
    <3>1. PICK a \in {-1, 1} : a = 1
      OBVIOUS
    <3> QED BY <1>7, <2>2, <3>1
  <2>3. ASSUME NEW v \in walks, v[2] > 0, w = <<Minus(v[1], list[i]), v[2] + 1>> PROVE w \in WalksUpTo(list, n, i)
    <3>1. PICK a \in {-1, 1} : a # 1
      OBVIOUS
    <3> QED BY <1>7, <2>3, <3>1
  <2> QED BY <1>9, <2>1, <2>2, <2>3 DEF Longer
<1> QED BY <1>6, <1>9 DEF walks

\* The walk of the screen finds the signed sums whose first term is positive.
LEMMA SlotWalksAre ==
  ASSUME NEW list, NEW n, Listed(list, n), Len(list) = n
  PROVE  SlotWalks(list) = WalksUpTo(list, n, n)
<1>0. n \in Nat /\ list \in [1 .. n -> Scalars]
  BY DEF Listed
<1> DEFINE Eq(h) == h = [i \in 0 .. n |->
                           IF i = 0 THEN {<<Identity, 0>>}
                           ELSE Longer(h[i - 1], list[i])]
           g == [i \in 0 .. n |-> WalksUpTo(list, n, i)]
<1>1. WalksUpTo(list, n, 0) = {<<Identity, 0>>}
  <2> DEFINE zero == [k \in 1 .. n |-> 0]
  <2>1. PICK i \in 0 .. n : i = 0
    BY <1>0
  <2>2. ASSUME NEW c PROVE c \in WalksBy(n, i) <=> c = zero
    <3>1. c \in WalksBy(n, i) <=> /\ c \in [1 .. n -> -1 .. 1] /\ \A k \in 1 .. n : k > i => c[k] = 0
                                  /\ Leads(c, n)
      BY <1>0, WalkBy
    <3>2. Leads(zero, n)
      BY DEF Leads
    <3>3. zero \in [1 .. n -> -1 .. 1] /\ \A k \in 1 .. n : k > i => zero[k] = 0
      OBVIOUS
    <3>4. ASSUME c \in [1 .. n -> -1 .. 1], \A k \in 1 .. n : k > i => c[k] = 0 PROVE c = zero
      <4>1. \A k \in 1 .. n : c[k] = 0
        BY <1>0, <2>1, <3>4
      <4> QED BY <3>4, <4>1
    <3> HIDE DEF zero
    <3> QED BY <3>1, <3>2, <3>3, <3>4
  <2>3. zero \in [1 .. n -> Int] /\ Support(zero) = {}
    BY DEF Support
  <2>4. Confined(zero, 1 .. n, {}, n)
    BY DEF Confined
  <2> HIDE DEF zero
  <2>5. Combination(list, 1 .. n, zero) = Combination(list, {}, zero)
    BY <2>3, <2>4, CombinedSupport
  <2>6. Combination(list, {}, zero) = 0 /\ \A k \in 1 .. n : Combination(list, {k}, zero) = Multiple(zero[k], list[k])
    BY <2>3, CombinedOfFew
  <2>7. Walk(list, n, zero) = <<0, 0>>
    BY <2>3, <2>5, <2>6, FS_EmptySet DEF Walk
  <2>8. WalksBy(n, 0) = {zero}
    BY <2>1, <2>2
  <2> QED BY <2>7, <2>8 DEF WalksUpTo, Identity
<1>2. ASSUME NEW i \in 1 .. n PROVE WalksUpTo(list, n, i) = Longer(WalksUpTo(list, n, i - 1), list[i])
  BY WalksGrow
<1>3. Eq(g)
  <2>1. \A i \in 0 .. n : i # 0 => i \in 1 .. n /\ i - 1 \in 0 .. n
    BY <1>0
  <2> QED BY <1>1, <1>2, <2>1
<1>4. PICK h : Eq(h) /\ SlotWalks(list) = h[n]
  <2>1. SlotWalks(list) = (CHOOSE h : Eq(h))[n]
    BY DEF SlotWalks, Longer
  <2>2. Eq(CHOOSE h : Eq(h))
    <3> HIDE DEF Eq
    <3> QED BY <1>3
  <2> HIDE DEF Eq
  <2> QED BY <2>1, <2>2
<1>5. h[0] = {<<Identity, 0>>}
  BY <1>0, <1>4
<1>6. ASSUME NEW i \in 1 .. n PROVE h[i] = Longer(h[i - 1], list[i])
  <2>1. i \in 0 .. n /\ i # 0
    BY <1>0
  <2> QED BY <1>4, <2>1
<1> HIDE DEF Eq, g
<1> DEFINE T == {i \in Nat : h[i] = WalksUpTo(list, n, i)}
<1>7. 0 \in T
  BY <1>1, <1>5
<1>8. ASSUME NEW i \in 0 .. n - 1, i \in T PROVE i + 1 \in T
  <2>1. PICK k \in 1 .. n : k = i + 1 /\ k - 1 = i
    BY <1>0
  <2>2. h[k - 1] = WalksUpTo(list, n, k - 1)
    BY <1>8, <2>1
  <2>3. h[k] = WalksUpTo(list, n, k)
    BY <1>2, <1>6, <2>2
  <2> QED BY <1>0, <2>1, <2>3
<1>9. \A i \in 0 .. n : i \in T
  <2> HIDE DEF T
  <2> QED BY <1>0, <1>7, <1>8, AllUpTo
<1> QED BY <1>0, <1>4, <1>9

\* What is committed to: a value, which may be negative, under a blinding.
Opened(value, blinding) == Plus(value % Order, Times(blinding, H))

LEMMA OpenedSame ==
  ASSUME NEW a \in Int, NEW r \in Scalars
  PROVE  /\ Opened(a, r) \in Scalars /\ Same(Opened(a, r), a + r * H)
         /\ \A x \in Scalars : Same(x, a + r * H) => x = Opened(a, r)
<1>1. /\ H \in Int /\ r \in Int /\ Scalars \subseteq Int /\ r * H \in Int /\ a + r * H \in Int
  <2>1. H \in Scalars /\ Scalars \subseteq Int
    BY PedersenAssumption, RosterConstants
  <2>2. PICK h \in Int : h = H
    BY <2>1
  <2>3. PICK s \in Int : s = r
    BY <2>1
  <2>4. s * h \in Int /\ a + s * h \in Int
    OBVIOUS
  <2> QED BY <2>1, <2>2, <2>3, <2>4
<1>2. PICK t \in Scalars : t = Times(r, H) /\ Same(t, r * H)
  BY <1>1, SameOperations
<1>3. PICK b \in Scalars : b = a % Order /\ Same(b, a)
  BY SameReduces
<1>4. PICK x \in Scalars : x = Plus(b, t) /\ Same(x, a + r * H)
  <2>1. b \in Int /\ t \in Int /\ r * H \in Int /\ Same(b, a) /\ Same(t, r * H)
    BY <1>1, <1>2, <1>3
  <2>2. Same(Plus(b, t), a + r * H)
    BY <2>1, SameThrough
  <2>3. Plus(b, t) \in Scalars
    BY <2>1, SameOperations
  <2> QED BY <2>2, <2>3
<1>5. Opened(a, r) = x
  BY <1>2, <1>3, <1>4 DEF Opened
<1>6. ASSUME NEW y \in Scalars, Same(y, a + r * H) PROVE y = x
  <2>1. PICK s \in Int : s = a + r * H
    BY <1>1
  <2>2. x \in Int /\ y \in Int /\ Same(x, s) /\ Same(y, s)
    BY <1>1, <1>4, <1>6, <2>1
  <2>3. Same(s, x)
    BY <2>2, SameIsEquivalence
  <2>4. Same(y, x)
    BY <2>2, <2>3, SameIsEquivalence
  <2> QED BY <1>6, <2>4, SameScalars
<1> QED BY <1>4, <1>5, <1>6

\* Openings add up, and have opposites.
LEMMA OpenedAdds ==
  ASSUME NEW a \in Int, NEW b \in Int, NEW r \in Scalars, NEW s \in Scalars
  PROVE  /\ Plus(Opened(a, r), Opened(b, s)) = Opened(a + b, Plus(r, s))
         /\ Negated(Opened(a, r)) = Opened(-a, Negated(r))
         /\ Opened(a, 0) = a % Order
<1>1. PICK h \in Int : h = H
  BY PedersenAssumption, RosterConstants
<1>2. r \in Int /\ s \in Int /\ Scalars \subseteq Int /\ 0 \in Scalars
  BY RosterConstants
<1>3. PICK x \in Scalars : x = Opened(a, r) /\ Same(x, a + r * h)
  BY <1>1, OpenedSame
<1>4. PICK y \in Scalars : y = Opened(b, s) /\ Same(y, b + s * h)
  BY <1>1, OpenedSame
<1>5. PICK u \in Int : u = a + r * h /\ Same(x, u)
  <2>1. a + r * h \in Int
    BY <1>2
  <2> QED BY <1>3, <2>1
<1>6. PICK v \in Int : v = b + s * h /\ Same(y, v)
  <2>1. b + s * h \in Int
    BY <1>2
  <2> QED BY <1>4, <2>1
<1>7. x \in Int /\ y \in Int /\ Same(h, h)
  BY <1>2, SameIsEquivalence
<1>8. Plus(x, y) = Opened(a + b, Plus(r, s))
  <2>1. PICK c \in Int : c = a + b
    OBVIOUS
  <2>2. PICK t \in Scalars : t = Plus(r, s) /\ Same(t, r + s)
    BY <1>2, SameOperations
  <2>3. t \in Int /\ r + s \in Int
    BY <1>2
  <2>4. Same(t * h, (r + s) * h)
    BY <1>7, <2>2, <2>3, SameArithmetic
  <2>5. t * h \in Int /\ (r + s) * h \in Int /\ Same(c, c)
    BY <2>3, SameIsEquivalence
  <2>6. Same(c + t * h, c + (r + s) * h)
    BY <2>4, <2>5, SameArithmetic
  <2>7. Plus(x, y) \in Scalars /\ Same(Plus(x, y), u + v)
    BY <1>5, <1>6, <1>7, SameOperations, SameThrough
  <2>8. u + v = c + (r + s) * h
    BY <1>2, <1>5, <1>6, <2>1
  <2>9. PICK p \in Int, q \in Int : p = c + (r + s) * h /\ q = c + t * h
    BY <2>5
  <2>10. PICK z \in Scalars : z = Plus(x, y) /\ Same(z, p)
    BY <2>7, <2>8, <2>9
  <2>11. Same(p, q)
    BY <2>6, <2>9, SameIsEquivalence
  <2>12. Same(z, q)
    BY <1>2, <2>10, <2>11, SameIsEquivalence
  <2>13. z = Opened(c, t)
    BY <1>1, <2>9, <2>12, OpenedSame
  <2> QED BY <2>1, <2>2, <2>10, <2>13
<1>9. Negated(x) = Opened(-a, Negated(r))
  <2>1. PICK c \in Int : c = -a
    OBVIOUS
  <2>2. PICK t \in Scalars : t = Negated(r) /\ Same(t, 0 - r)
    <3>1. Minus(0, r) \in Scalars /\ Same(Minus(0, r), 0 - r)
      BY <1>2, SameOperations
    <3> QED BY <3>1 DEF Negated
  <2>3. t \in Int /\ 0 - r \in Int
    BY <1>2
  <2>4. Same(t * h, (0 - r) * h)
    BY <1>7, <2>2, <2>3, SameArithmetic
  <2>5. t * h \in Int /\ (0 - r) * h \in Int /\ Same(c, c)
    BY <2>3, SameIsEquivalence
  <2>6. Same(c + t * h, c + (0 - r) * h)
    BY <2>4, <2>5, SameArithmetic
  <2>7. PICK z \in Scalars : z = Negated(x) /\ Same(z, 0 - u)
    <3>1. Minus(0, x) \in Scalars
      BY <1>2, SameOperations
    <3>2. 0 \in Int /\ Same(0, 0)
      BY SameIsEquivalence
    <3>3. Same(Minus(0, x), 0 - u)
      BY <1>5, <1>7, <3>2, SameThrough
    <3> QED BY <3>1, <3>3 DEF Negated
  <2>8. 0 - u = c + (0 - r) * h
    BY <1>2, <1>5, <2>1
  <2>9. PICK p \in Int, q \in Int : p = c + (0 - r) * h /\ q = c + t * h
    BY <2>5
  <2>10. Same(z, p)
    BY <2>7, <2>8, <2>9
  <2>11. Same(p, q)
    BY <2>6, <2>9, SameIsEquivalence
  <2>12. Same(z, q)
    BY <1>2, <2>10, <2>11, SameIsEquivalence
  <2>13. z = Opened(c, t)
    BY <1>1, <2>9, <2>12, OpenedSame
  <2> QED BY <2>1, <2>2, <2>7, <2>13
<1>10. Opened(a, 0) = a % Order
  <2>1. PICK b0 \in Scalars : b0 = a % Order /\ Same(b0, a)
    BY SameReduces
  <2>2. 0 * h = 0 /\ a + 0 * h = a
    BY <1>1
  <2>3. Same(b0, a + 0 * h)
    BY <2>1, <2>2
  <2> QED BY <1>1, <1>2, <2>1, <2>3, OpenedSame
<1> QED BY <1>3, <1>4, <1>8, <1>9, <1>10

\* Commitments to values below m + 1.
Openings(list, value, blinding, n, m) ==
  /\ Listed(list, n) /\ Listed(blinding, n) /\ m \in Nat /\ value \in [1 .. n -> 0 .. m]
  /\ \A i \in 1 .. n : list[i] = Opened(value[i], blinding[i])

\* A combination opens to a value of at most m for every term.
OpensWithin(list, blinding, S, c, reach) ==
  \E v \in Int : -reach <= v /\ v <= reach /\ Combination(list, S, c) = Opened(v, Combination(blinding, S, c))

LEMMA CombinationOpens ==
  ASSUME NEW list, NEW value, NEW blinding, NEW n, NEW m, Openings(list, value, blinding, n, m),
         NEW c \in Whole(n, 1)
  PROVE  /\ Cardinality(Support(c)) \in 0 .. n
         /\ OpensWithin(list, blinding, 1 .. n, c, Cardinality(Support(c)) * m)
<1> DEFINE D == Support(c)
           Q == {u \in SUBSET D : OpensWithin(list, blinding, u, c, Cardinality(u) * m)}
<1>0. /\ n \in Nat /\ m \in Nat /\ Listed(list, n) /\ Listed(blinding, n)
      /\ list \in [1 .. n -> Scalars] /\ blinding \in [1 .. n -> Scalars] /\ value \in [1 .. n -> 0 .. m]
      /\ \A i \in 1 .. n : list[i] = Opened(value[i], blinding[i])
  BY DEF Openings, Listed
<1>1. /\ c \in [1 .. n -> Int] /\ D \in SUBSET (1 .. n)
      /\ \A k \in 1 .. n : (k \in D <=> c[k] # 0) /\ c[k] \in {-1, 0, 1}
  BY DEF Whole, Support
<1> HIDE DEF D
<1>2. IsFiniteSet(D) /\ \A u \in SUBSET D : IsFiniteSet(u)
  <2>1. IsFiniteSet(1 .. n)
    BY <1>0, FS_Interval
  <2> QED BY <1>1, <2>1, FS_Subset
<1>3. {} \in Q
  <2>1. Combination(list, {}, c) = 0 /\ \A i \in 1 .. n : Combination(list, {i}, c) = Multiple(c[i], list[i])
    BY <1>0, <1>1, CombinedOfFew
  <2>2. Combination(blinding, {}, c) = 0 /\ \A i \in 1 .. n : Combination(blinding, {i}, c) = Multiple(c[i], blinding[i])
    BY <1>0, <1>1, CombinedOfFew
  <2>3. PICK z \in Int : z = 0
    OBVIOUS
  <2>4. z % Order = z /\ z \in Scalars
    BY <2>3, RosterConstants, SameReduces
  <2>5. Opened(z, 0) = z % Order
    BY <2>3, <2>4, OpenedAdds
  <2>6. Cardinality({}) * m = 0
    BY <1>0, FS_EmptySet
  <2> QED BY <2>1, <2>2, <2>3, <2>4, <2>5, <2>6 DEF OpensWithin
<1>4. ASSUME NEW u \in SUBSET D, NEW x \in u, u \ {x} \in Q PROVE u \in Q
  <2>1. PICK w, t : w = u \ {x} /\ t = {x} /\ w \cup t = u /\ Apart(w, t, n)
    <3>1. (u \ {x}) \cup {x} = u
      BY <1>4
    <3>2. Apart(u \ {x}, {x}, n)
      BY <1>1, <1>4 DEF Apart
    <3> QED BY <3>1, <3>2
  <2>2. PICK k \in Nat : k = Cardinality(w) /\ Cardinality(u) = k + 1
    <3>1. IsFiniteSet(w) /\ x \notin w /\ w \cup {x} = u
      BY <1>2, <1>4, <2>1
    <3> QED BY <3>1, FS_AddElement, FS_CardinalityType
  <2>3. PICK v \in Int : /\ -(k * m) <= v /\ v <= k * m
                         /\ Combination(list, w, c) = Opened(v, Combination(blinding, w, c))
    BY <1>4, <2>1, <2>2 DEF OpensWithin
  <2>4. /\ Combination(list, w, c) \in Scalars
        /\ Combination(list, w \cup t, c) = Plus(Combination(list, w, c), Combination(list, t, c))
    <3>1. Listed(list, n) /\ c \in [1 .. n -> Int] /\ Apart(w, t, n)
      BY <1>0, <1>1, <2>1
    <3> QED BY ONLY <3>1, CombinedParts
  <2>5. /\ Combination(blinding, w, c) \in Scalars
        /\ Combination(blinding, w \cup t, c) = Plus(Combination(blinding, w, c), Combination(blinding, t, c))
    <3>1. Listed(blinding, n) /\ c \in [1 .. n -> Int] /\ Apart(w, t, n)
      BY <1>0, <1>1, <2>1
    <3> QED BY ONLY <3>1, CombinedParts
  <2>6. /\ x \in 1 .. n /\ c[x] \in {-1, 1}
        /\ Combination(list, t, c) = Multiple(c[x], list[x])
        /\ Combination(blinding, t, c) = Multiple(c[x], blinding[x])
    <3>1. Combination(list, {}, c) = 0 /\ \A i \in 1 .. n : Combination(list, {i}, c) = Multiple(c[i], list[i])
      BY <1>0, <1>1, CombinedOfFew
    <3>2. Combination(blinding, {}, c) = 0 /\ \A i \in 1 .. n : Combination(blinding, {i}, c) = Multiple(c[i], blinding[i])
      BY <1>0, <1>1, CombinedOfFew
    <3>3. x \in 1 .. n /\ c[x] # 0
      BY <1>1, <1>4
    <3> QED BY <1>1, <2>1, <3>1, <3>2, <3>3
  <2>7. PICK p \in Scalars, r \in Scalars, a \in 0 .. m :
          p = list[x] /\ r = blinding[x] /\ a = value[x] /\ p = Opened(a, r)
    BY <1>0, <2>6
  <2>8. PICK b \in Int, s \in Scalars : /\ -m <= b /\ b <= m /\ Multiple(c[x], p) = Opened(b, s)
                                        /\ Multiple(c[x], r) = s
    <3>1. PICK one \in Int : one = 1
      OBVIOUS
    <3>2. /\ Multiple(one, p) \in Scalars /\ Multiple(-one, p) = Negated(Multiple(one, p))
          /\ Multiple(0, p) = 0 /\ Multiple(1, p) = p /\ Multiple(-1, p) = Negated(p)
      BY MultipleFacts
    <3>3. /\ Multiple(one, r) \in Scalars /\ Multiple(-one, r) = Negated(Multiple(one, r))
          /\ Multiple(0, r) = 0 /\ Multiple(1, r) = r /\ Multiple(-1, r) = Negated(r)
      BY MultipleFacts
    <3>4. CASE c[x] = 1
      <4>1. a \in Int /\ -m <= a /\ a <= m
        BY <1>0, <2>7
      <4> QED BY <2>7, <3>2, <3>3, <3>4, <4>1
    <3>5. CASE c[x] = -1
      <4>1. a \in Int /\ -a \in Int /\ -m <= -a /\ -a <= m
        BY <1>0, <2>7
      <4>2. Negated(Opened(a, r)) = Opened(-a, Negated(r))
        BY <4>1, OpenedAdds
      <4>3. Negated(r) \in Scalars
        BY SignFacts
      <4> QED BY <2>7, <3>2, <3>3, <3>5, <4>1, <4>2, <4>3
    <3> QED BY <2>6, <3>4, <3>5
  <2>9. PICK q \in Scalars : q = Combination(blinding, w, c)
    BY <2>5
  <2>10. Plus(Opened(v, q), Opened(b, s)) = Opened(v + b, Plus(q, s))
    BY OpenedAdds
  <2>11. Combination(list, u, c) = Opened(v + b, Combination(blinding, u, c))
    BY <2>1, <2>3, <2>4, <2>5, <2>6, <2>7, <2>8, <2>9, <2>10
  <2>12. v + b \in Int /\ -((k + 1) * m) <= v + b /\ v + b <= (k + 1) * m
    <3>1. PICK e \in Int : e = k * m /\ (k + 1) * m = e + m
      BY <1>0
    <3> QED BY <1>0, <2>3, <2>8, <3>1
  <2> QED BY <1>4, <2>2, <2>11, <2>12 DEF OpensWithin
<1>5. D \in Q
  <2> HIDE DEF Q
  <2>1. SUBSET D \subseteq Q
    BY <1>2, <1>3, <1>4, AllSubsets
  <2> QED BY <2>1
<1>6. Combination(list, 1 .. n, c) = Combination(list, D, c) /\ Combination(blinding, 1 .. n, c) = Combination(blinding, D, c)
  <2>1. Confined(c, 1 .. n, D, n)
    BY <1>1 DEF Confined
  <2> QED BY <1>0, <1>1, <2>1, CombinedSupport
<1>7. Cardinality(D) \in 0 .. n
  <2>1. IsFiniteSet(1 .. n) /\ Cardinality(1 .. n) = n
    BY <1>0, FS_Interval
  <2>2. Cardinality(D) <= Cardinality(1 .. n) /\ Cardinality(D) \in Nat
    BY <1>1, <1>2, <2>1, FS_Subset, FS_CardinalityType
  <2> QED BY <1>0, <2>1, <2>2
<1>8. OpensWithin(list, blinding, D, c, Cardinality(D) * m)
  BY <1>5
<1> QED BY <1>6, <1>7, <1>8 DEF OpensWithin, D

----------------------------------------------------------------------------
\* A value below the bound is found, and so is whatever a smaller bound finds.
LEMMA ProbesSmall ==
  ASSUME NEW v \in Int, NEW b \in Int, -b < v, v < b
  PROVE  ProbedBelow(v % Order, b)
<1>1. Order \in Nat \ {0, 1} /\ Scalars = 0 .. Order - 1 /\ 0 \in Scalars
  BY RosterConstants DEF Scalars
<1>2. ASSUME NEW a \in Nat PROVE a % Order \in Int /\ a % Order <= a
  <2>1. PICK r \in Scalars : r = a % Order /\ (a \in Scalars => r = a)
    BY SameReduces
  <2> QED BY <1>1, <2>1
<1>3. PICK x \in Scalars : x = v % Order
  BY SameReduces
<1>4. CASE v >= 0
  <2>1. x < b
    <3>1. v \in Nat /\ v % Order \in Int /\ v % Order <= v
      BY <1>2, <1>4
    <3> QED BY <1>3, <3>1
  <2> QED BY <1>3, <2>1 DEF ProbedBelow, UpToSign
<1>5. CASE v < 0
  <2>1. PICK a \in Nat : a = -v
    BY <1>5
  <2>2. Opened(v, 0) = v % Order /\ Negated(Opened(v, 0)) = Opened(-v, Negated(0)) /\ Negated(0) = 0
    <3>1. 0 \in Scalars /\ Negated(0) = 0
      BY <1>1, SignFacts
    <3>2. /\ Plus(Opened(v, 0), Opened(v, 0)) = Opened(v + v, Plus(0, 0))
          /\ Negated(Opened(v, 0)) = Opened(-v, Negated(0))
          /\ Opened(v, 0) = v % Order
      BY <3>1, OpenedAdds
    <3> QED BY <3>1, <3>2
  <2>3. Opened(a, 0) = a % Order
    <3>1. PICK y \in Int : y = a
      OBVIOUS
    <3>2. /\ Plus(Opened(y, 0), Opened(y, 0)) = Opened(y + y, Plus(0, 0))
          /\ Negated(Opened(y, 0)) = Opened(-y, Negated(0))
          /\ Opened(y, 0) = y % Order
      BY <1>1, OpenedAdds
    <3> QED BY <3>1, <3>2
  <2>4. Negated(x) = a % Order
    BY <1>3, <2>1, <2>2, <2>3
  <2>5. Negated(x) < b
    <3>1. a % Order \in Int /\ a % Order <= a
      BY <1>2
    <3> QED BY <2>1, <2>4, <3>1
  <2> QED BY <1>3, <2>5 DEF ProbedBelow, UpToSign
<1> QED BY <1>4, <1>5

LEMMA ProbedMore ==
  ASSUME NEW p \in Scalars, NEW a \in Nat, NEW b \in Nat, a <= b, ProbedBelow(p, a)
  PROVE  ProbedBelow(p, b)
<1>1. RowWidth \in Nat \ {0} /\ \A x \in Scalars : x \in Nat
  BY ScreenAssumption, RosterConstants DEF RowWidth, Scalars
<1>2. PICK w \in Nat \ {0} : w = RowWidth
  BY <1>1
<1>3. PICK x \in UpToSign(p) : \/ x < a
                               \/ /\ x \div w \in 1 .. (a + w - 1) \div w
                                  /\ x % w \in 1 .. PublicBabySteps
                                  /\ w * (x \div w) - (x % w) < a
  BY <1>2 DEF ProbedBelow
<1>4. x \in Nat
  BY <1>1, SignFacts
<1>5. PICK q \in Int, r \in Int, g \in Int, h \in Int :
        /\ q = x \div w /\ r = x % w /\ g = (a + w - 1) \div w /\ h = (b + w - 1) \div w
        /\ w * g <= a + w - 1 /\ b + w - 1 < w * h + w
  <2>1. \A y \in Nat : y \div w \in Int /\ y % w \in 0 .. w - 1 /\ y = w * (y \div w) + (y % w)
    OBVIOUS
  <2>2. a + w - 1 \in Nat /\ b + w - 1 \in Nat
    OBVIOUS
  <2>3. PICK g \in Int, s \in 0 .. w - 1 : g = (a + w - 1) \div w /\ a + w - 1 = w * g + s
    BY <2>1, <2>2
  <2>4. PICK h \in Int, t \in 0 .. w - 1 : h = (b + w - 1) \div w /\ b + w - 1 = w * h + t
    BY <2>1, <2>2
  <2>5. PICK q \in Int, r \in Int : q = x \div w /\ r = x % w
    BY <1>4, <2>1
  <2>6. PICK e \in Int, f \in Int : e = w * g /\ f = w * h
    OBVIOUS
  <2>7. e <= a + w - 1 /\ b + w - 1 < f + w
    BY <2>3, <2>4, <2>6
  <2> QED BY <2>3, <2>4, <2>5, <2>6, <2>7
<1>6. g <= h
  <2>1. SUFFICES ASSUME h + 1 <= g PROVE FALSE
    OBVIOUS
  <2>2. w * (h + 1) <= w * g
    BY <2>1
  <2>3. PICK e \in Int, f \in Int : e = w * g /\ f = w * h /\ w * (h + 1) = f + w
    OBVIOUS
  <2> QED BY <1>5, <2>2, <2>3
<1>7. PICK d \in Int : d = w * q - r
  OBVIOUS
<1>8. CASE x < a
  <2>1. x < b
    BY <1>4, <1>8
  <2> QED BY <2>1 DEF ProbedBelow
<1>9. CASE q \in 1 .. g /\ r \in 1 .. PublicBabySteps /\ d < a
  <2>1. q \in 1 .. h /\ d < b
    BY <1>6, <1>9
  <2>2. /\ x \div RowWidth \in 1 .. (b + RowWidth - 1) \div RowWidth
        /\ x % RowWidth \in 1 .. PublicBabySteps
        /\ RowWidth * (x \div RowWidth) - (x % RowWidth) < b
    BY <1>2, <1>5, <1>7, <1>9, <2>1
  <2> QED BY <2>2 DEF ProbedBelow
<1> QED BY <1>3, <1>5, <1>7, <1>8, <1>9

\* One of two opposite combinations has a positive first term.
LEMMA OneLeads ==
  ASSUME NEW n \in Nat, NEW c \in Whole(n, 1), NEW e \in Whole(n, 1), \A i \in 1 .. n : e[i] = -c[i]
  PROVE  Leads(c, n) \/ Leads(e, n)
<1>0. /\ c \in [1 .. n -> -1 .. 1] /\ e \in [1 .. n -> -1 .. 1]
  BY DEF Whole
<1> DEFINE T == {i \in 1 .. n : c[i] # 0}
<1>1. CASE T = {}
  <2>1. \A k \in 1 .. n : c[k] # -1
    BY <1>1
  <2> QED BY <2>1 DEF Leads
<1>2. CASE T # {}
  <2>1. PICK i \in T : \A k \in T : i <= k
    <3>1. T \subseteq Nat
      OBVIOUS
    <3> HIDE DEF T
    <3> QED BY <1>2, <3>1, NatLeast
  <2>2. i \in 1 .. n /\ c[i] \in {-1, 1} /\ e[i] = -c[i]
    BY <1>0
  <2>3. ASSUME NEW k \in 1 .. n, c[k] # 0, k # i PROVE i \in 1 .. k - 1 /\ c[i] # 0 /\ e[i] # 0
    <3>1. i <= k
      BY <2>1, <2>3
    <3> QED BY <2>2, <2>3, <3>1
  <2>4. CASE c[i] = 1
    <3>1. ASSUME NEW k \in 1 .. n, c[k] = -1 PROVE \E h \in 1 .. k - 1 : c[h] # 0
      BY <2>3, <2>4, <3>1
    <3> QED BY <3>1 DEF Leads
  <2>5. CASE c[i] = -1
    <3>1. ASSUME NEW k \in 1 .. n, e[k] = -1 PROVE \E h \in 1 .. k - 1 : e[h] # 0
      <4>1. c[k] # 0 /\ k # i
        BY <1>0, <2>2, <2>5, <3>1
      <4> QED BY <2>3, <4>1
    <3> QED BY <3>1 DEF Leads
  <2> QED BY <2>2, <2>4, <2>5
<1> QED BY <1>1, <1>2

\* Blindings of a list that cancel.
Cancels(blinding, n, c) ==
  c \in Whole(n, 1) /\ Cardinality(Support(c)) >= 2 /\ Combination(blinding, 1 .. n, c) = 0

\* Where they do, a walk leaves a small value.
LEMMA CancelledIsWalked ==
  ASSUME NEW list, NEW value, NEW blinding, NEW n, NEW m, Openings(list, value, blinding, n, m), Len(list) = n,
         NEW c, Cancels(blinding, n, c)
  PROVE  \E w \in SlotWalks(list) : w[2] >= 2 /\ ProbedBelow(w[1], w[2] * (m + 1))
<1>0. n \in Nat /\ m \in Nat /\ Listed(list, n) /\ Listed(blinding, n)
  BY DEF Openings, Listed
<1>1. c \in Whole(n, 1) /\ Cardinality(Support(c)) >= 2 /\ Combination(blinding, 1 .. n, c) = 0
  BY DEF Cancels
<1>2. PICK D \in SUBSET (1 .. n), one \in Nat : D = 1 .. n /\ one = 1 /\ SupportedBy(c, D, n, one)
  <2>1. PICK one \in Nat : one = 1
    OBVIOUS
  <2>2. SupportedBy(c, 1 .. n, n, one)
    BY <1>1, <2>1 DEF SupportedBy, Whole, Support
  <2> QED BY <2>1, <2>2
<1>3. PICK e : /\ SupportedBy(e, D, n, one) /\ Support(e) = Support(c)
               /\ Combination(blinding, 1 .. n, e) = Negated(Combination(blinding, 1 .. n, c))
               /\ \A i \in 1 .. n : e[i] = -c[i]
  BY <1>0, <1>2, Opposite
<1>4. e \in Whole(n, 1) /\ Combination(blinding, 1 .. n, e) = 0
  <2>1. Negated(0) = 0
    BY RosterConstants, SignFacts
  <2> QED BY <1>1, <1>2, <1>3, <2>1 DEF SupportedBy
<1>5. PICK d \in Whole(n, 1) : /\ Leads(d, n) /\ Support(d) = Support(c) /\ Combination(blinding, 1 .. n, d) = 0
  BY <1>0, <1>1, <1>3, <1>4, OneLeads
<1>6. Walk(list, n, d) \in SlotWalks(list)
  <2>1. SlotWalks(list) = WalksUpTo(list, n, n)
    BY <1>0, SlotWalksAre
  <2>2. PICK i \in 0 .. n : i = n
    BY <1>0
  <2>3. d \in WalksBy(n, i) <=> /\ d \in [1 .. n -> -1 .. 1] /\ \A k \in 1 .. n : k > i => d[k] = 0
                                /\ Leads(d, n)
    BY <1>0, WalkBy
  <2>4. d \in WalksBy(n, n)
    BY <1>0, <1>5, <2>2, <2>3 DEF Whole
  <2> QED BY <2>1, <2>4 DEF WalksUpTo
<1>7. PICK k \in Nat : k = Cardinality(Support(d)) /\ k >= 2
  <2>1. Cardinality(Support(d)) \in 0 .. n /\ OpensWithin(list, blinding, 1 .. n, d, Cardinality(Support(d)) * m)
    BY CombinationOpens
  <2> QED BY <1>0, <1>1, <1>5, <2>1
<1>8. PICK v \in Int : -(k * m) <= v /\ v <= k * m /\ Combination(list, 1 .. n, d) = Opened(v, 0)
  <2>1. Cardinality(Support(d)) \in 0 .. n /\ OpensWithin(list, blinding, 1 .. n, d, Cardinality(Support(d)) * m)
    BY CombinationOpens
  <2> QED BY <1>5, <1>7, <2>1 DEF OpensWithin
<1>9. Opened(v, 0) = v % Order
  <2>1. 0 \in Scalars
    BY RosterConstants
  <2>2. /\ Plus(Opened(v, 0), Opened(v, 0)) = Opened(v + v, Plus(0, 0))
        /\ Negated(Opened(v, 0)) = Opened(-v, Negated(0))
        /\ Opened(v, 0) = v % Order
    BY <2>1, OpenedAdds
  <2> QED BY <2>2
<1>10. ProbedBelow(v % Order, k * (m + 1))
  <2>1. PICK a \in Int, b \in Int : a = k * m /\ b = k * (m + 1) /\ b = a + k
    BY <1>0
  <2>2. -b < v /\ v < b
    BY <1>7, <1>8, <2>1
  <2> QED BY <2>1, <2>2, ProbesSmall
<1>11. Walk(list, n, d)[1] = v % Order /\ Walk(list, n, d)[2] = k
  BY <1>7, <1>8, <1>9 DEF Walk
<1> QED BY <1>6, <1>7, <1>10, <1>11

\* And where none does, the blindings have no such relation.
LEMMA WalkIsCancelled ==
  ASSUME NEW list, NEW value, NEW blinding, NEW n, NEW m, Openings(list, value, blinding, n, m), Len(list) = n,
         blinding \in [1 .. n -> Blindings], n <= PedersenPieceBound, m < LimbModulus,
         NEW w \in SlotWalks(list), w[2] >= 2, ProbedBelow(w[1], w[2] * (m + 1))
  PROVE  \E c : Cancels(blinding, n, c)
<1>0. n \in Nat /\ m \in Nat /\ Listed(list, n) /\ Listed(blinding, n)
  BY DEF Openings, Listed
<1>1. PICK c \in Whole(n, 1) : w = Walk(list, n, c)
  BY <1>0, SlotWalksAre DEF WalksUpTo, WalksBy
<1>2. Cardinality(Support(c)) \in 0 .. n /\ OpensWithin(list, blinding, 1 .. n, c, Cardinality(Support(c)) * m)
  BY CombinationOpens
<1>3. PICK k \in 0 .. n : k = Cardinality(Support(c)) /\ w[2] = k /\ k >= 2
  BY <1>1, <1>2 DEF Walk
<1>4. PICK r \in Scalars : r = Combination(blinding, 1 .. n, c)
  <2>1. Apart(1 .. n, {}, n) /\ c \in [1 .. n -> Int]
    BY DEF Apart, Whole
  <2> QED BY <1>0, <2>1, CombinedParts
<1>5. PICK v \in Int : -(k * m) <= v /\ v <= k * m /\ w[1] = Opened(v, r)
  BY <1>1, <1>2, <1>3, <1>4 DEF OpensWithin, Walk
<1>6. SUFFICES ASSUME r # 0 PROVE FALSE
  BY <1>1, <1>3, <1>4 DEF Cancels
<1>7. PICK b \in Nat, a \in Nat : a = k * (m + 1) /\ b = n * LimbModulus /\ a <= b /\ -b <= v /\ v <= b
  <2>1. PICK l \in Nat : l = LimbModulus /\ m + 1 <= l
    BY <1>0, AlgebraAssumption
  <2>2. k * (m + 1) <= n * (m + 1) /\ n * (m + 1) <= n * l /\ k * (m + 1) \in Nat /\ n * l \in Nat /\ n * (m + 1) \in Nat
    BY <1>0, <2>1
  <2>3. PICK d \in Int : d = k * m /\ k * (m + 1) = d + k
    BY <1>0
  <2> QED BY <1>3, <1>5, <2>1, <2>2, <2>3
<1>8. ProbedBelow(Opened(v, r), b)
  <2>1. Opened(v, r) \in Scalars
    BY OpenedSame
  <2>2. ProbedBelow(Opened(v, r), a)
    BY <1>3, <1>5, <1>7
  <2> QED BY <1>7, <2>1, <2>2, ProbedMore
<1>9. n \in 2 .. PedersenPieceBound /\ c \in [1 .. n -> -1 .. 1] /\ v \in -(n * LimbModulus) .. n * LimbModulus
  BY <1>0, <1>3, <1>7, PedersenAssumption DEF Whole
<1>10. ~ProbedBelow(Plus(v % Order, Times(r, H)), n * LimbModulus)
  BY <1>4, <1>6, <1>9, BlindingsUnrelated
<1> QED BY <1>7, <1>8, <1>10 DEF Opened

\* Two commitments, added or subtracted.
LEMMA PairOpens ==
  ASSUME NEW u \in Int, NEW v \in Int, NEW r \in Scalars, NEW s \in Scalars
  PROVE  /\ Plus(Opened(u, r), Opened(v, s)) = Opened(u + v, Plus(r, s))
         /\ Minus(Opened(u, r), Opened(v, s)) = Opened(u - v, Plus(r, Negated(s)))
         /\ Opened(u, 0) = u % Order
<1>1. PICK w \in Int, t \in Scalars : w = -v /\ t = Negated(s) /\ u + w = u - v
  <2>1. Negated(s) \in Scalars
    BY SignFacts
  <2> QED BY <2>1
<1>2. PICK x \in Scalars, y \in Scalars : x = Opened(u, r) /\ y = Opened(v, s)
  BY OpenedSame
<1>3. Plus(x, y) = Opened(u + v, Plus(r, s)) /\ Opened(u, 0) = u % Order
  BY <1>2, OpenedAdds
<1>4. Negated(y) = Opened(w, t)
  BY <1>1, <1>2, OpenedAdds
<1>5. Plus(x, Opened(w, t)) = Opened(u + w, Plus(r, t))
  BY <1>1, <1>2, OpenedAdds
<1>6. Minus(x, y) = Plus(x, Negated(y))
  BY MinusIs
<1> QED BY <1>1, <1>2, <1>3, <1>4, <1>5, <1>6

\* The bound of a pair covers the values that the slots can leave.
LEMMA PairBoundCovers ==
  ASSUME NEW a \in 1 .. Slots, NEW b \in 1 .. Slots, NEW difference \in BOOLEAN
  PROVE  /\ PairBound(a, b, difference) \in Nat /\ PairBound(a, b, difference) <= 2 * LimbModulus
         /\ \A u, v \in Nat :
              u < ValueBound(a) /\ v < ValueBound(b) =>
                /\ difference => -PairBound(a, b, difference) < u - v /\ u - v < PairBound(a, b, difference)
                /\ ~difference => u + v < PairBound(a, b, difference)
<1>1. /\ LimbModulus \in Nat /\ LimbModulus >= 2
      /\ ValueBound(a) \in 2 .. LimbModulus /\ ValueBound(b) \in 2 .. LimbModulus
  BY AlgebraAssumption DEF ValueBound
<1>2. PICK x \in 2 .. LimbModulus, y \in 2 .. LimbModulus : x = ValueBound(a) /\ y = ValueBound(b)
  BY <1>1
<1>3. PICK z \in 2 .. LimbModulus : z = Max({x, y}) /\ z >= x /\ z >= y
  <2>1. {x, y} \subseteq 0 .. LimbModulus /\ {x, y} # {}
    BY <1>1
  <2>2. Max({x, y}) \in {x, y} /\ \A t \in {x, y} : Max({x, y}) >= t
    <3> DEFINE T == {x, y}
    <3>1. T \subseteq 0 .. LimbModulus /\ T # {}
      BY <2>1
    <3> HIDE DEF T
    <3>2. Max(T) \in T /\ \A t \in T : Max(T) >= t
      BY <1>1, <3>1, MaxIsGreatest
    <3> QED BY <3>2 DEF T
  <2> QED BY <2>2
<1>4. PairBound(a, b, difference) = IF difference THEN z ELSE x + y
  BY <1>2, <1>3 DEF PairBound
<1> QED BY <1>1, <1>2, <1>3, <1>4

\* A combination of two points.
LEMMA CombinationOfTwo ==
  ASSUME NEW x \in Scalars, NEW y \in Scalars, NEW a \in {-1, 1}
  PROVE  Combination(<<x, y>>, 1 .. 2, <<1, a>>) = Plus(x, IF a = 1 THEN y ELSE Negated(y))
<1>1. PICK n \in Nat : n = 2
  OBVIOUS
<1>2. PICK list, c : list = <<x, y>> /\ c = <<1, a>> /\ Listed(list, n) /\ c \in [1 .. n -> Int]
  <2>1. <<x, y>> \in [1 .. n -> Scalars] /\ <<1, a>> \in [1 .. n -> Int]
    BY <1>1
  <2> QED BY <2>1 DEF Listed
<1>3. PICK S, T : S = {1} /\ T = {2} /\ S \cup T = 1 .. n /\ Apart(S, T, n)
  <2>1. {1} \cup {2} = 1 .. n
    BY <1>1
  <2>2. Apart({1}, {2}, n)
    BY <1>1 DEF Apart
  <2> QED BY <2>1, <2>2
<1>4. Combination(list, S \cup T, c) = Plus(Combination(list, S, c), Combination(list, T, c))
  <2>1. /\ Combination(list, S, c) \in Scalars
        /\ Combination(list, S \cup T, c) = Plus(Combination(list, S, c), Combination(list, T, c))
    <3>1. Listed(list, n) /\ c \in [1 .. n -> Int] /\ Apart(S, T, n)
      BY <1>2, <1>3
    <3> QED BY ONLY <3>1, CombinedParts
  <2> QED BY <2>1
<1>5. Combination(list, {}, c) = 0 /\ \A i \in 1 .. n : Combination(list, {i}, c) = Multiple(c[i], list[i])
  BY <1>2, CombinedOfFew
<1>6. Combination(list, S, c) = Multiple(1, x) /\ Combination(list, T, c) = Multiple(a, y)
  <2>1. 1 \in 1 .. n /\ 2 \in 1 .. n /\ c[1] = 1 /\ c[2] = a /\ list[1] = x /\ list[2] = y
    BY <1>1, <1>2
  <2> QED BY <1>3, <1>5, <2>1
<1>7. PICK one \in Int : one = 1
  OBVIOUS
<1>8. /\ Multiple(one, x) \in Scalars /\ Multiple(-one, x) = Negated(Multiple(one, x))
      /\ Multiple(0, x) = 0 /\ Multiple(1, x) = x /\ Multiple(-1, x) = Negated(x)
  BY MultipleFacts
<1>9. /\ Multiple(one, y) \in Scalars /\ Multiple(-one, y) = Negated(Multiple(one, y))
      /\ Multiple(0, y) = 0 /\ Multiple(1, y) = y /\ Multiple(-1, y) = Negated(y)
  BY MultipleFacts
<1> QED BY <1>1, <1>2, <1>3, <1>4, <1>6, <1>8, <1>9

\* A slot of one piece and one of another.
Slot(value, blinding, slot) ==
  slot \in 1 .. Slots /\ value \in Nat /\ value < ValueBound(slot) /\ blinding \in Blindings

\* A shared blinding leaves a small value.
LEMMA SharedIsProbed ==
  ASSUME NEW u, NEW r, NEW a, Slot(u, r, a), NEW v, NEW s, NEW b, Slot(v, s, b), s \in UpToSign(r)
  PROVE  \E difference \in BOOLEAN :
           ProbedBelow(IF difference THEN Minus(Opened(u, r), Opened(v, s)) ELSE Plus(Opened(u, r), Opened(v, s)),
                       PairBound(a, b, difference))
<1>1. /\ a \in 1 .. Slots /\ b \in 1 .. Slots /\ u \in Nat /\ v \in Nat /\ u < ValueBound(a) /\ v < ValueBound(b)
      /\ r \in Scalars /\ s \in Scalars /\ u \in Int /\ v \in Int
  BY PedersenAssumption DEF Slot
<1>2. /\ Plus(Opened(u, r), Opened(v, s)) = Opened(u + v, Plus(r, s))
      /\ Minus(Opened(u, r), Opened(v, s)) = Opened(u - v, Plus(r, Negated(s)))
      /\ Opened(u, 0) = u % Order
  BY <1>1, PairOpens
<1>3. ASSUME NEW w \in Int PROVE Opened(w, 0) = w % Order
  <2>1. /\ Plus(Opened(w, r), Opened(w, s)) = Opened(w + w, Plus(r, s))
        /\ Minus(Opened(w, r), Opened(w, s)) = Opened(w - w, Plus(r, Negated(s)))
        /\ Opened(w, 0) = w % Order
    BY <1>1, PairOpens
  <2> QED BY <2>1
<1>4. CASE s = r
  <2>1. PICK d \in BOOLEAN : d = TRUE
    OBVIOUS
  <2>2. PICK t \in Scalars : t = Negated(r) /\ r = Negated(t)
    BY <1>1, SignFacts
  <2>3. Plus(r, t) = 0
    <3>1. /\ Plus(r, t) \in Scalars /\ Plus(r, t) = Plus(t, r) /\ Plus(r, 0) = r
          /\ Plus(r, t) = t <=> r = Plus(Negated(t), t)
          /\ Negated(Plus(r, t)) = Plus(Negated(r), Negated(t))
          /\ Plus(r, t) = 0 <=> r = Negated(t)
          /\ r = Negated(t) <=> Negated(r) = t
      BY <1>1, PointAlgebra
    <3> QED BY <2>2, <3>1
  <2>4. PICK w \in Int : w = u - v /\ Minus(Opened(u, r), Opened(v, s)) = w % Order
    <3>1. u - v \in Int
      BY <1>1
    <3> QED BY <1>2, <1>3, <1>4, <2>2, <2>3, <3>1
  <2>5. PICK e \in Int : e = PairBound(a, b, d) /\ -e < w /\ w < e
    <3>1. /\ PairBound(a, b, d) \in Nat /\ PairBound(a, b, d) <= 2 * LimbModulus
          /\ \A x, y \in Nat :
               x < ValueBound(a) /\ y < ValueBound(b) =>
                 /\ d => -PairBound(a, b, d) < x - y /\ x - y < PairBound(a, b, d)
                 /\ ~d => x + y < PairBound(a, b, d)
      BY <1>1, PairBoundCovers
    <3>2. -PairBound(a, b, d) < u - v /\ u - v < PairBound(a, b, d)
      BY <1>1, <2>1, <3>1
    <3> QED BY <2>4, <3>1, <3>2
  <2>6. ProbedBelow(w % Order, e)
    BY <2>5, ProbesSmall
  <2> QED BY <2>1, <2>4, <2>5, <2>6
<1>5. CASE s = Negated(r)
  <2>1. PICK d \in BOOLEAN : d = FALSE
    OBVIOUS
  <2>2. Plus(r, s) = 0
    <3>1. /\ Plus(r, s) \in Scalars /\ Plus(r, s) = Plus(s, r) /\ Plus(r, 0) = r
          /\ Plus(r, s) = s <=> r = Plus(Negated(s), s)
          /\ Negated(Plus(r, s)) = Plus(Negated(r), Negated(s))
          /\ Plus(r, s) = 0 <=> r = Negated(s)
          /\ r = Negated(s) <=> Negated(r) = s
      BY <1>1, PointAlgebra
    <3> QED BY <1>5, <3>1
  <2>3. PICK w \in Int : w = u + v /\ Plus(Opened(u, r), Opened(v, s)) = w % Order
    <3>1. u + v \in Int
      BY <1>1
    <3> QED BY <1>2, <1>3, <2>2, <3>1
  <2>4. PICK e \in Int : e = PairBound(a, b, d) /\ w < e /\ w >= 0
    BY <1>1, <2>1, <2>3, PairBoundCovers
  <2>5. -e < w
    BY <2>4
  <2>6. ProbedBelow(w % Order, e)
    BY <2>4, <2>5, ProbesSmall
  <2> QED BY <2>1, <2>3, <2>4, <2>6
<1> QED BY <1>4, <1>5 DEF UpToSign

\* And a probe that succeeds tells of one.
LEMMA ProbedIsShared ==
  ASSUME NEW u, NEW r, NEW a, Slot(u, r, a), NEW v, NEW s, NEW b, Slot(v, s, b),
         2 <= PedersenPieceBound, NEW difference \in BOOLEAN,
         ProbedBelow(IF difference THEN Minus(Opened(u, r), Opened(v, s)) ELSE Plus(Opened(u, r), Opened(v, s)),
                     PairBound(a, b, difference))
  PROVE  s \in UpToSign(r)
<1>1. /\ a \in 1 .. Slots /\ b \in 1 .. Slots /\ u \in Nat /\ v \in Nat /\ u < ValueBound(a) /\ v < ValueBound(b)
      /\ r \in Scalars /\ s \in Scalars /\ r \in Blindings /\ s \in Blindings
      /\ ValueBound(a) <= LimbModulus /\ ValueBound(b) <= LimbModulus /\ LimbModulus \in Nat
      /\ ValueBound(a) \in Nat /\ ValueBound(b) \in Nat
  BY PedersenAssumption, AlgebraAssumption DEF Slot, ValueBound
<1>2. PICK e \in {-1, 1} : e = IF difference THEN -1 ELSE 1
  OBVIOUS
<1>3. PICK t \in Scalars : t = (IF e = 1 THEN s ELSE Negated(s)) /\ Plus(r, t) \in Scalars
                           /\ (Plus(r, t) = 0 <=> r = Negated(t)) /\ Negated(Negated(s)) = s
  <2>1. PICK t \in Scalars : t = (IF e = 1 THEN s ELSE Negated(s)) /\ Negated(Negated(s)) = s
    BY <1>1, SignFacts
  <2>2. /\ Plus(r, t) \in Scalars /\ Plus(r, t) = Plus(t, r) /\ Plus(r, 0) = r
        /\ Plus(r, t) = t <=> r = Plus(Negated(t), t)
        /\ Negated(Plus(r, t)) = Plus(Negated(r), Negated(t))
        /\ Plus(r, t) = 0 <=> r = Negated(t)
        /\ r = Negated(t) <=> Negated(r) = t
    BY <1>1, PointAlgebra
  <2> QED BY <2>1, <2>2
<1>4. PICK w \in Int : /\ -(2 * LimbModulus) <= w /\ w <= 2 * LimbModulus
                       /\ ProbedBelow(Opened(w, Plus(r, t)), PairBound(a, b, difference))
  <2>1. /\ Plus(Opened(u, r), Opened(v, s)) = Opened(u + v, Plus(r, s))
        /\ Minus(Opened(u, r), Opened(v, s)) = Opened(u - v, Plus(r, Negated(s)))
        /\ Opened(u, 0) = u % Order
    BY <1>1, PairOpens
  <2>2. CASE difference
    <3>1. u - v \in Int /\ -(2 * LimbModulus) <= u - v /\ u - v <= 2 * LimbModulus
      BY <1>1
    <3>2. e # 1 /\ t = Negated(s)
      BY <1>2, <1>3, <2>2
    <3>3. ProbedBelow(Opened(u - v, Plus(r, t)), PairBound(a, b, difference))
      BY <2>1, <2>2, <3>2
    <3> QED BY <3>1, <3>3
  <2>3. CASE ~difference
    <3>1. u + v \in Int /\ -(2 * LimbModulus) <= u + v /\ u + v <= 2 * LimbModulus
      BY <1>1
    <3>2. e = 1 /\ t = s
      BY <1>2, <1>3, <2>3
    <3>3. ProbedBelow(Opened(u + v, Plus(r, t)), PairBound(a, b, difference))
      BY <2>1, <2>3, <3>2
    <3> QED BY <3>1, <3>3
  <2> QED BY <2>2, <2>3
<1>5. ProbedBelow(Opened(w, Plus(r, t)), 2 * LimbModulus)
  <2>1. PICK p \in Scalars : p = Opened(w, Plus(r, t))
    BY <1>3, OpenedSame
  <2>2. PICK x \in Nat, y \in Nat : x = PairBound(a, b, difference) /\ y = 2 * LimbModulus /\ x <= y
    <3>1. PairBound(a, b, difference) \in Nat /\ PairBound(a, b, difference) <= 2 * LimbModulus
      BY <1>1, PairBoundCovers
    <3> QED BY <1>1, <3>1
  <2>3. ProbedBelow(p, x)
    BY <1>4, <2>1, <2>2
  <2>4. ProbedBelow(p, y)
    BY <2>2, <2>3, ProbedMore
  <2> QED BY <2>1, <2>2, <2>4
<1>6. Plus(r, t) = 0
  <2> SUFFICES ASSUME Plus(r, t) # 0 PROVE FALSE
    OBVIOUS
  <2>1. PICK n \in 2 .. PedersenPieceBound : n = 2
    BY PedersenAssumption
  <2>2. PICK list \in [1 .. n -> Blindings], c \in [1 .. n -> -1 .. 1] : list = <<r, s>> /\ c = <<1, e>>
    <3>1. <<r, s>> \in [1 .. n -> Blindings] /\ <<1, e>> \in [1 .. n -> -1 .. 1]
      BY <1>1, <2>1
    <3> QED BY <3>1
  <2>3. Combination(list, 1 .. n, c) = Plus(r, t)
    <3>1. Combination(<<r, s>>, 1 .. 2, <<1, e>>) = Plus(r, IF e = 1 THEN s ELSE Negated(s))
      BY <1>1, CombinationOfTwo
    <3> QED BY <1>3, <2>1, <2>2, <3>1
  <2>4. w \in -(n * LimbModulus) .. n * LimbModulus
    BY <1>1, <1>4, <2>1
  <2>5. ~ProbedBelow(Plus(w % Order, Times(Plus(r, t), H)), n * LimbModulus)
    BY <2>2, <2>3, <2>4, BlindingsUnrelated
  <2> QED BY <1>5, <2>1, <2>5 DEF Opened
<1> QED BY <1>1, <1>3, <1>6, SignFacts DEF UpToSign

----------------------------------------------------------------------------
\* The pieces that are screened.
SoundPieces == {p \in [1 .. Slots -> Nat \X Blindings] :
                  ~DegeneratePedersen(p) /\ \A slot \in 1 .. Slots : p[slot][1] < ValueBound(slot)}
PedersenInv == committed \in Seq(SoundPieces)

Screened == [i \in DOMAIN committed |-> Commitments(committed[i])]

LEMMA PiecesOpen ==
  ASSUME PedersenInv, NEW i \in DOMAIN committed, NEW slot \in 1 .. Slots
  PROVE  /\ Slot(committed[i][slot][1], committed[i][slot][2], slot)
         /\ Screened[i][slot] = Opened(committed[i][slot][1], committed[i][slot][2])
         /\ Screened[i][slot] \in Scalars /\ Screened[i][slot] # Identity
<1>1. PICK p \in SoundPieces : p = committed[i]
  BY DEF PedersenInv
<1>2. PICK u \in Nat, r \in Blindings : p[slot] = <<u, r>> /\ u < ValueBound(slot)
  BY DEF SoundPieces
<1>3. Slot(u, r, slot)
  BY <1>2 DEF Slot
<1>4. u \in Scalars /\ u \in Int /\ u % Order = u
  <2>1. u < LimbModulus /\ LimbModulus <= Order /\ Order \in Nat /\ LimbModulus \in Nat
    BY <1>2, AlgebraAssumption DEF ValueBound
  <2>2. u \in Scalars /\ u \in Int
    BY <1>2, <2>1 DEF Scalars
  <2> QED BY <2>2, SameReduces
<1>5. Screened[i][slot] = Commit(u, r)
  BY <1>1, <1>2 DEF Screened, Commitments
<1>6. Screened[i][slot] = Opened(u, r)
  BY <1>4, <1>5 DEF Commit, Opened
<1>7. Opened(u, r) \in Scalars
  BY <1>4, PedersenAssumption, OpenedSame
<1>8. Screened[i][slot] # Identity
  <2>1. ~SignedBelow(Commitments(p)[slot], LimbModulus)
    BY <1>1 DEF SoundPieces, DegeneratePedersen
  <2>2. SignedBelow(0, LimbModulus)
    BY AlgebraAssumption DEF SignedBelow, UpToSign
  <2>3. Screened[i][slot] = Commitments(p)[slot]
    BY <1>1 DEF Screened
  <2> QED BY <2>1, <2>2, <2>3 DEF Identity
<1> QED BY <1>1, <1>2, <1>3, <1>6, <1>7, <1>8

\* One slot of all pieces.
Column(slot) == [i \in DOMAIN committed |-> Screened[i][slot]]
ColumnValues(slot) == [i \in DOMAIN committed |-> committed[i][slot][1]]
ColumnBlindings(slot) == [i \in DOMAIN committed |-> committed[i][slot][2]]

LEMMA ColumnsOpen ==
  ASSUME PedersenInv, NEW slot \in 1 .. Slots, NEW n, n = Len(committed)
  PROVE  /\ n \in Nat /\ DOMAIN committed = 1 .. n /\ Len(Column(slot)) = n
         /\ Openings(Column(slot), ColumnValues(slot), ColumnBlindings(slot), n, ValueBound(slot) - 1)
         /\ ColumnBlindings(slot) \in [1 .. n -> Blindings]
         /\ ValueBound(slot) - 1 < LimbModulus /\ ValueBound(slot) \in Nat
<1>1. n \in Nat /\ DOMAIN committed = 1 .. n
  BY DEF PedersenInv
<1>2. LimbModulus \in Nat /\ ValueBound(slot) \in 2 .. LimbModulus
  BY AlgebraAssumption DEF ValueBound
<1>3. PICK m \in Nat : m = ValueBound(slot) - 1
  BY <1>2
<1>4. ASSUME NEW i \in 1 .. n
      PROVE  /\ committed[i][slot][1] \in 0 .. m /\ committed[i][slot][2] \in Blindings
             /\ committed[i][slot][2] \in Scalars
             /\ Screened[i][slot] = Opened(committed[i][slot][1], committed[i][slot][2])
             /\ Screened[i][slot] \in Scalars
  <2>1. /\ Slot(committed[i][slot][1], committed[i][slot][2], slot)
        /\ Screened[i][slot] = Opened(committed[i][slot][1], committed[i][slot][2])
        /\ Screened[i][slot] \in Scalars /\ Screened[i][slot] # Identity
    BY <1>1, PiecesOpen
  <2>2. committed[i][slot][1] \in Nat /\ committed[i][slot][1] < ValueBound(slot) /\ committed[i][slot][2] \in Blindings
    BY <2>1 DEF Slot
  <2>3. committed[i][slot][1] \in 0 .. m
    BY <1>2, <1>3, <2>2
  <2> QED BY <2>1, <2>2, <2>3, PedersenAssumption
<1>5. /\ Column(slot) \in [1 .. n -> Scalars] /\ ColumnValues(slot) \in [1 .. n -> 0 .. m]
      /\ ColumnBlindings(slot) \in [1 .. n -> Scalars] /\ ColumnBlindings(slot) \in [1 .. n -> Blindings]
  BY <1>1, <1>4 DEF Column, ColumnValues, ColumnBlindings
<1>6. \A i \in 1 .. n : Column(slot)[i] = Opened(ColumnValues(slot)[i], ColumnBlindings(slot)[i])
  BY <1>1, <1>4 DEF Column, ColumnValues, ColumnBlindings
<1>7. Len(Column(slot)) = n
  BY <1>1, <1>5
<1>8. Openings(Column(slot), ColumnValues(slot), ColumnBlindings(slot), n, m)
  BY <1>1, <1>5, <1>6 DEF Openings, Listed
<1> QED BY <1>1, <1>2, <1>3, <1>5, <1>7, <1>8

\* The relations of the screen.
LEMMA ScreenIs ==
  /\ CommitmentRelation(committed) <=>
       Len(committed) > PedersenPieceBound \/ PairRelation(Screened) \/ \E slot \in 1 .. Slots : SlotRelation(Screened, slot)
  /\ \A slot : SlotRelation(Screened, slot) <=>
                 \E w \in SlotWalks(Column(slot)) : w[2] >= 2 /\ ProbedBelow(w[1], w[2] * ValueBound(slot))
  /\ PairRelation(Screened) <=>
       \/ \E i \in DOMAIN committed, slot \in 1 .. Slots : Screened[i][slot] = Identity
       \/ \E i, k \in DOMAIN committed, a, b \in 1 .. Slots, difference \in BOOLEAN :
            i < k /\ PairCandidate(Screened, i, k, a, b, difference)
<1>1. DOMAIN Screened = DOMAIN committed
  BY DEF Screened
<1>2. \A slot : [i \in DOMAIN Screened |-> Screened[i][slot]] = Column(slot)
  BY <1>1 DEF Column
<1>3. ASSUME NEW slot
      PROVE  SlotRelation(Screened, slot) <=>
               \E w \in SlotWalks(Column(slot)) : w[2] >= 2 /\ ProbedBelow(w[1], w[2] * ValueBound(slot))
  BY <1>2 DEF SlotRelation
<1>4. CommitmentRelation(committed) <=>
        Len(committed) > PedersenPieceBound \/ PairRelation(Screened) \/ \E slot \in 1 .. Slots : SlotRelation(Screened, slot)
  BY DEF CommitmentRelation, Screened
<1>5. PairRelation(Screened) <=>
        \/ \E i \in DOMAIN committed, slot \in 1 .. Slots : Screened[i][slot] = Identity
        \/ \E i, k \in DOMAIN committed, a, b \in 1 .. Slots, difference \in BOOLEAN :
             i < k /\ PairCandidate(Screened, i, k, a, b, difference)
  BY <1>1 DEF PairRelation
<1> QED BY <1>3, <1>4, <1>5

LEMMA CancellingIs ==
  ASSUME PedersenInv, NEW n, n = Len(committed)
  PROVE  Cancelling <=> \E slot \in 1 .. Slots : \E c : Cancels(ColumnBlindings(slot), n, c)
<1>1. DOMAIN committed = 1 .. n
  BY DEF PedersenInv
<1>2. \A slot : [i \in DOMAIN committed |-> committed[i][slot][2]] = ColumnBlindings(slot)
  BY DEF ColumnBlindings
<1>3. Signs = Whole(n, 1)
  BY <1>1 DEF Signs, Whole
<1> QED BY <1>1, <1>2, <1>3 DEF Cancelling, Cancels

LEMMA CancelledAreRefused == PedersenInv => CancelledBlindingsRefused
<1> SUFFICES ASSUME PedersenInv, Cancelling PROVE CommitmentRelation(committed)
  BY DEF CancelledBlindingsRefused
<1>1. PICK n : n = Len(committed)
  OBVIOUS
<1>2. PICK slot \in 1 .. Slots : \E c : Cancels(ColumnBlindings(slot), n, c)
  BY <1>1, CancellingIs
<1>5. PICK c : Cancels(ColumnBlindings(slot), n, c)
  BY <1>2
<1>3. PICK m : /\ m = ValueBound(slot) - 1 /\ m + 1 = ValueBound(slot)
               /\ Openings(Column(slot), ColumnValues(slot), ColumnBlindings(slot), n, m)
               /\ Len(Column(slot)) = n
  BY <1>1, ColumnsOpen
<1>4. \E w \in SlotWalks(Column(slot)) : w[2] >= 2 /\ ProbedBelow(w[1], w[2] * (m + 1))
  BY <1>5, <1>3, CancelledIsWalked
<1> QED BY <1>3, <1>4, ScreenIs

\* What a pair of slots is probed for.
LEMMA PairProbe ==
  ASSUME PedersenInv, NEW i \in DOMAIN committed, NEW k \in DOMAIN committed,
         NEW a \in 1 .. Slots, NEW b \in 1 .. Slots, NEW difference \in BOOLEAN
  PROVE  PairCandidate(Screened, i, k, a, b, difference) <=>
           ProbedBelow(IF difference
                       THEN Minus(Opened(committed[i][a][1], committed[i][a][2]),
                                  Opened(committed[k][b][1], committed[k][b][2]))
                       ELSE Plus(Opened(committed[i][a][1], committed[i][a][2]),
                                 Opened(committed[k][b][1], committed[k][b][2])),
                       PairBound(a, b, difference))
<1>1. Screened[i][a] = Opened(committed[i][a][1], committed[i][a][2])
  BY PiecesOpen
<1>2. Screened[k][b] = Opened(committed[k][b][1], committed[k][b][2])
  BY PiecesOpen
<1> QED BY <1>1, <1>2 DEF PairCandidate

LEMMA SharedAreRefused == PedersenInv => SharedBlindingRefused
<1> SUFFICES ASSUME PedersenInv, Sharing PROVE CommitmentRelation(committed)
  BY DEF SharedBlindingRefused
<1>1. PICK i \in DOMAIN committed, k \in DOMAIN committed, a \in 1 .. Slots, b \in 1 .. Slots :
        i < k /\ committed[k][b][2] \in UpToSign(committed[i][a][2])
  <2>1. PICK i \in DOMAIN committed, k \in DOMAIN committed, a \in 1 .. Slots, b \in 1 .. Slots :
          i # k /\ committed[k][b][2] \in UpToSign(committed[i][a][2])
    BY DEF Sharing
  <2>2. i \in Int /\ k \in Int
    BY DEF PedersenInv
  <2>3. PICK r \in Scalars, s \in Scalars : r = committed[i][a][2] /\ s = committed[k][b][2]
    <3>1. Slot(committed[i][a][1], committed[i][a][2], a)
      BY PiecesOpen
    <3>2. Slot(committed[k][b][1], committed[k][b][2], b)
      BY PiecesOpen
    <3> QED BY <3>1, <3>2, PedersenAssumption DEF Slot
  <2>4. r \in UpToSign(s)
    BY <2>1, <2>3, SignFacts DEF UpToSign
  <2> QED BY <2>1, <2>2, <2>3, <2>4
<1>2. Slot(committed[i][a][1], committed[i][a][2], a) /\ Slot(committed[k][b][1], committed[k][b][2], b)
  <2>1. Slot(committed[i][a][1], committed[i][a][2], a)
    BY PiecesOpen
  <2>2. Slot(committed[k][b][1], committed[k][b][2], b)
    BY PiecesOpen
  <2> QED BY <2>1, <2>2
<1>3. PICK difference \in BOOLEAN :
        ProbedBelow(IF difference
                    THEN Minus(Opened(committed[i][a][1], committed[i][a][2]),
                               Opened(committed[k][b][1], committed[k][b][2]))
                    ELSE Plus(Opened(committed[i][a][1], committed[i][a][2]),
                              Opened(committed[k][b][1], committed[k][b][2])),
                    PairBound(a, b, difference))
  BY <1>1, <1>2, SharedIsProbed
<1>4. PairCandidate(Screened, i, k, a, b, difference)
  BY <1>3, PairProbe
<1> QED BY <1>1, <1>4, ScreenIs

LEMMA OthersAreAccepted == PedersenInv => OnlyRelationsRefused
<1> SUFFICES ASSUME PedersenInv, CommitmentRelation(committed), Len(committed) <= PedersenPieceBound
             PROVE  Cancelling \/ Sharing
  <2>1. Len(committed) \in Nat /\ PedersenPieceBound \in Nat
    BY PedersenAssumption DEF PedersenInv
  <2> QED BY <2>1 DEF OnlyRelationsRefused
<1>1. PICK n \in Nat : n = Len(committed) /\ DOMAIN committed = 1 .. n
  BY DEF PedersenInv
<1>2. PairRelation(Screened) \/ \E slot \in 1 .. Slots : SlotRelation(Screened, slot)
  <2>1. PedersenPieceBound \in Nat
    BY PedersenAssumption
  <2> QED BY <1>1, <2>1, ScreenIs
<1>3. ASSUME NEW slot \in 1 .. Slots, SlotRelation(Screened, slot) PROVE Cancelling
  <2>1. PICK w \in SlotWalks(Column(slot)) : w[2] >= 2 /\ ProbedBelow(w[1], w[2] * ValueBound(slot))
    BY <1>3, ScreenIs
  <2>2. PICK m : /\ m = ValueBound(slot) - 1 /\ m + 1 = ValueBound(slot) /\ m < LimbModulus
                 /\ Openings(Column(slot), ColumnValues(slot), ColumnBlindings(slot), n, m)
                 /\ Len(Column(slot)) = n /\ ColumnBlindings(slot) \in [1 .. n -> Blindings]
    BY <1>1, ColumnsOpen
  <2>3. ProbedBelow(w[1], w[2] * (m + 1))
    BY <2>1, <2>2
  <2>4. \E c : Cancels(ColumnBlindings(slot), n, c)
    BY <1>1, <2>1, <2>2, <2>3, WalkIsCancelled
  <2> QED BY <1>1, <2>4, CancellingIs
<1>4. ASSUME PairRelation(Screened) PROVE Sharing
  <2>1. ASSUME NEW i \in DOMAIN committed, NEW slot \in 1 .. Slots PROVE Screened[i][slot] # Identity
    BY PiecesOpen
  <2>2. PICK i \in DOMAIN committed, k \in DOMAIN committed, a \in 1 .. Slots, b \in 1 .. Slots,
             difference \in BOOLEAN : i < k /\ PairCandidate(Screened, i, k, a, b, difference)
    BY <1>4, <2>1, ScreenIs
  <2>3. 2 <= PedersenPieceBound /\ i # k
    BY <1>1, <2>2, PedersenAssumption
  <2>4. Slot(committed[i][a][1], committed[i][a][2], a)
    BY PiecesOpen
  <2>5. Slot(committed[k][b][1], committed[k][b][2], b)
    BY PiecesOpen
  <2>6. ProbedBelow(IF difference
                    THEN Minus(Opened(committed[i][a][1], committed[i][a][2]),
                               Opened(committed[k][b][1], committed[k][b][2]))
                    ELSE Plus(Opened(committed[i][a][1], committed[i][a][2]),
                              Opened(committed[k][b][1], committed[k][b][2])),
                    PairBound(a, b, difference))
    BY <2>2, PairProbe
  <2>7. committed[k][b][2] \in UpToSign(committed[i][a][2])
    BY <2>3, <2>4, <2>5, <2>6, ProbedIsShared
  <2> QED BY <2>3, <2>7 DEF Sharing
<1> QED BY <1>2, <1>3, <1>4

LEMMA PedersenStep == PedersenInv /\ [PedersenNext]_committed => PedersenInv'
<1> SUFFICES ASSUME PedersenInv, AddCommitted PROVE PedersenInv'
  BY DEF PedersenNext, PedersenInv
<1> DEFINE pieceOf(value, blinding) == [slot \in 1 .. Slots |-> <<value[slot], blinding[slot]>>]
<1>0. PICK value \in [1 .. Slots -> Values], blinding \in [1 .. Slots -> Blindings] :
        /\ \A slot \in 1 .. Slots : value[slot] < ValueBound(slot)
        /\ ~DegeneratePedersen(pieceOf(value, blinding))
        /\ committed' = Append(committed, pieceOf(value, blinding))
  BY DEF AddCommitted
<1>1. PICK piece : piece = pieceOf(value, blinding)
  OBVIOUS
<1>2. piece \in SoundPieces
  <2>1. \A slot \in 1 .. Slots : piece[slot] \in Nat \X Blindings /\ piece[slot][1] < ValueBound(slot)
    BY <1>0, <1>1, PedersenAssumption
  <2> QED BY <1>0, <1>1, <2>1 DEF SoundPieces
<1>3. committed' = Append(committed, piece)
  BY <1>0, <1>1
<1> HIDE DEF pieceOf
<1> QED BY <1>2, <1>3 DEF PedersenInv

\* The screen of the commitments of several pieces refuses every case in which
\* blindings cancel or are shared, whatever the values, and unless blindings
\* meet by coincidence nothing else (assembly.rs,
\* cross_piece_pedersen_commitment_relation).
THEOREM PedersenScreenAnswers == PedersenSpec => []PedersenScreenIsExact
<1>1. PedersenInit => PedersenInv
  BY DEF PedersenInit, PedersenInv
<1>2. PedersenInv => PedersenScreenIsExact
  BY CancelledAreRefused, SharedAreRefused, OthersAreAccepted DEF PedersenScreenIsExact
<1> QED BY <1>1, <1>2, PedersenStep, PTL DEF PedersenSpec
=============================================================================
