----------------------------- MODULE BatchAffine -----------------------------
(***************************************************************************)
(* The affine kernels of batch_affine.rs: many sums of points at the price *)
(* of one field inversion, in buffers that are reused from call to call.   *)
(* A visitor that returns true ends a call early.                          *)
(*                                                                         *)
(* The curve is y^2 = x^3 + 7 over a small field; a point is <<x, y>> and  *)
(* the identity, which has no coordinates, is AtInfinity.                  *)
(***************************************************************************)
EXTENDS PrimeField

CONSTANTS
  Multiples,      \* k*G, for k from zero up
  Batches,        \* the lists of pairs of logarithms that are added
  MaxCalls        \* bound on the calls of a behaviour

VARIABLES
  scratch,        \* BatchAddScratch
  call,           \* the kernel called last and its input
  visited,        \* what its visitor was shown
  calls

batchVars == <<scratch, call, visited, calls>>

GroupOrder == Len(Multiples)

AtInfinity == <<>>
Field == 0 .. Order - 1
OnCurve(p) == Times(p[2], p[2]) = Plus(Power(p[1], 3), 7)
CurvePoints == {p \in Field \X Field : OnCurve(p)}
NegatedPoint(p) == IF p = AtInfinity THEN AtInfinity ELSE <<p[1], Minus(0, p[2])>>

----------------------------------------------------------------------------
(* The group law by its definition: three points sum to the identity when  *)
(* a line meets the curve in them, with their multiplicities.              *)

OnOneLine(p, q, r) ==
  \E slope \in Field :
    LET at(x) == Plus(p[2], Times(slope, Minus(x, p[1])))
    IN  /\ at(q[1]) = q[2] /\ at(r[1]) = r[2]
        /\ \A x \in Field :
             Minus(Plus(Power(x, 3), 7), Times(at(x), at(x)))
               = Times(Minus(x, p[1]), Times(Minus(x, q[1]), Minus(x, r[1])))

Sum(p, q) ==
  IF p = AtInfinity THEN q ELSE IF q = AtInfinity THEN p
  ELSE IF q = NegatedPoint(p) THEN AtInfinity
  ELSE CHOOSE s \in CurvePoints : OnOneLine(p, q, NegatedPoint(s))

PointAt(k) == Multiples[(k % GroupOrder) + 1]

ASSUME CurveAssumption ==
  /\ Order \in Nat /\ Order > 2
  /\ GroupOrder % 2 = 1                 \* no point is its own negation
  /\ Multiples \in Seq({AtInfinity} \cup CurvePoints)
  /\ Multiples[1] = AtInfinity /\ \A k \in 2 .. GroupOrder : Multiples[k] \in CurvePoints
  /\ \A j, k \in 0 .. GroupOrder - 1 : PointAt(j + k) = Sum(PointAt(j), PointAt(k))
  /\ \A b \in Batches : b \in Seq((1 .. GroupOrder - 1) \X (1 .. GroupOrder - 1))
  /\ MaxCalls \in Nat

----------------------------------------------------------------------------
(* batch_invert_into: the prefix products, one inversion, and the way back *)

PrefixProducts(elements) ==
  LET product[i \in 0 .. Len(elements)] == IF i = 0 THEN 1 ELSE Times(product[i - 1], elements[i])
  IN  [i \in 1 .. Len(elements) |-> product[i]]

\* Slip: the running inverse is not carried over the element just done.
BatchInvertedStill(elements, prefix) ==
  LET total == Inverted(IF elements = <<>> THEN 1 ELSE prefix[Len(elements)])
  IN  [i \in 1 .. Len(elements) |-> IF i = 1 THEN total ELSE Times(total, prefix[i - 1])]

BatchInverted(elements, prefix) ==
  LET last == Len(elements)
      running[i \in 1 .. last + 1] ==   \* when the elements from i on are done
        IF i = last + 1 THEN Inverted(IF last = 0 THEN 1 ELSE prefix[last])
                        ELSE Times(running[i + 1], elements[i])
  IN  [i \in 1 .. last |-> IF i = 1 THEN running[2] ELSE Times(running[i + 1], prefix[i - 1])]

----------------------------------------------------------------------------
(* One addition.                                                           *)

Kind(lhs, rhs) ==
  IF rhs[1] # lhs[1] THEN "chord" ELSE IF Plus(lhs[2], rhs[2]) = 0 THEN "identity" ELSE "tangent"

Denominator(kind, lhs, rhs) ==
  CASE kind = "chord" -> Minus(rhs[1], lhs[1])
    [] kind = "identity" -> 1
    [] OTHER -> Times(2, lhs[2])

Slope(kind, lhs, rhs, inverse) ==
  IF kind = "chord" THEN Times(Minus(rhs[2], lhs[2]), inverse)
                    ELSE Times(Times(3, Times(lhs[1], lhs[1])), inverse)
XSum(slope, lhs, rhs) == Minus(Minus(Times(slope, slope), lhs[1]), rhs[1])
YSum(slope, lhs, x) == Minus(Times(slope, Minus(lhs[1], x)), lhs[2])

SumX(kind, lhs, rhs, inverse) ==
  IF kind = "identity" THEN AtInfinity ELSE <<XSum(Slope(kind, lhs, rhs, inverse), lhs, rhs)>>
SumPoint(kind, lhs, rhs, inverse) ==
  LET slope == Slope(kind, lhs, rhs, inverse)
      x == XSum(slope, lhs, rhs)
  IN  IF kind = "identity" THEN AtInfinity ELSE <<x, YSum(slope, lhs, x)>>

\* direction - stride and direction + stride over one inverse.
StrideKind(lhs, negatedStride) ==
  CASE Kind(lhs, negatedStride) = "chord" -> "chord"
    [] Kind(lhs, negatedStride) = "identity" -> "first identity"
    [] OTHER -> "second identity"

\* Slip: both branches of the vertical case double.
StrideXsDoubled(kind, lhs, negatedStride, inverse) ==
  LET double == SumX("tangent", lhs, lhs, inverse)
      chord(rhs) == SumX("chord", lhs, rhs, inverse)
  IN  IF kind = "chord" THEN <<chord(negatedStride), chord(NegatedPoint(negatedStride))>>
      ELSE <<double, double>>

StrideXs(kind, lhs, negatedStride, inverse) ==
  LET double == SumX("tangent", lhs, lhs, inverse)
      chord(rhs) == SumX("chord", lhs, rhs, inverse)
  IN  CASE kind = "chord" -> <<chord(negatedStride), chord(NegatedPoint(negatedStride))>>
        [] kind = "first identity" -> <<AtInfinity, double>>
        [] OTHER -> <<double, AtInfinity>>

----------------------------------------------------------------------------
(* The kernels.  A call shows its visitor the results up to the stop-th,   *)
(* where the visitor returns true, or all of them.                         *)

EmptyScratch ==
  [kinds |-> <<>>, strideKinds |-> <<>>, denominators |-> <<>>, prefix |-> <<>>, inverses |-> <<>>]

Shown(results, stop) == SubSeq(results, 1, Min({stop, Len(results)}))

\* The buffers when the denominators are inverted.
Inverting(kinds, strideKinds, denominators) ==
  LET prefix == PrefixProducts(denominators)
  IN  [kinds |-> kinds, strideKinds |-> strideKinds,
       denominators |-> denominators, prefix |-> prefix, inverses |-> BatchInverted(denominators, prefix)]

PairsOf(batch) == [i \in DOMAIN batch |-> <<PointAt(batch[i][1]), PointAt(batch[i][2])>>]

\* batch_add_x_keys_visit and batch_add_points_visit
AddPairs(kernel, batch, stop) ==
  LET pairs == PairsOf(batch)
      kinds == [i \in DOMAIN pairs |-> Kind(pairs[i][1], pairs[i][2])]
      filled == Inverting(kinds, scratch.strideKinds,
                  [i \in DOMAIN pairs |-> Denominator(kinds[i], pairs[i][1], pairs[i][2])])
  IN  /\ scratch' = filled
      /\ visited' = Shown([i \in DOMAIN pairs |->
             IF kernel = "x keys" THEN SumX(kinds[i], pairs[i][1], pairs[i][2], filled.inverses[i])
                                  ELSE SumPoint(kinds[i], pairs[i][1], pairs[i][2], filled.inverses[i])], stop)
      /\ call' = [kernel |-> kernel, batch |-> batch, stop |-> stop]

AddXKeys(batch, stop) == AddPairs("x keys", batch, stop)
AddPoints(batch, stop) == AddPairs("points", batch, stop)

\* batch_add_signed_stride_x_keys_visit; the stride is that of the first pair.
AddSignedStride(batch, stop) ==
  LET lhs == [i \in DOMAIN batch |-> PointAt(batch[i][1])]
      stride == NegatedPoint(PointAt(batch[1][2]))
      kinds == [i \in DOMAIN batch |-> StrideKind(lhs[i], stride)]
      filled == Inverting(scratch.kinds, kinds, [i \in DOMAIN batch |->
                  Denominator(IF kinds[i] = "chord" THEN "chord" ELSE "tangent", lhs[i], stride)])
  IN  /\ batch # <<>>
      /\ scratch' = filled
      /\ visited' = Shown([i \in DOMAIN batch |->
                             StrideXs(kinds[i], lhs[i], stride, filled.inverses[i])], stop)
      /\ call' = [kernel |-> "signed stride", batch |-> batch, stop |-> stop]

BatchInit ==
  /\ scratch = EmptyScratch /\ visited = <<>> /\ calls = 0
  /\ call = [kernel |-> "none", batch |-> <<>>, stop |-> 0]

BatchNext ==
  /\ calls < MaxCalls /\ calls' = calls + 1
  /\ \E batch \in Batches : \E stop \in 1 .. Len(batch) + 1 :
       AddXKeys(batch, stop) \/ AddPoints(batch, stop) \/ AddSignedStride(batch, stop)

BatchSpec == BatchInit /\ [][BatchNext]_batchVars

----------------------------------------------------------------------------
XOf(point) == IF point = AtInfinity THEN AtInfinity ELSE <<point[1]>>

Expected(i) ==
  LET lhs == call.batch[i][1]
      rhs == call.batch[i][2]
      stride == call.batch[1][2]
  IN  CASE call.kernel = "x keys" -> XOf(PointAt(lhs + rhs))
        [] call.kernel = "points" -> PointAt(lhs + rhs)
        [] OTHER -> <<XOf(PointAt(lhs - stride)), XOf(PointAt(lhs + stride))>>

SumsAre == \A i \in DOMAIN visited : visited[i] = Expected(i)

\* No denominator is zero: the assertion of batch_invert_into never fires.
InversesInvert ==
  \A i \in DOMAIN scratch.denominators :
    Times(scratch.denominators[i], scratch.inverses[i]) = 1

\* Every result is that of the group law, for different, equal and opposite
\* points anywhere in a batch and whatever an earlier call left in the
\* buffers, and one inversion yields the inverse of every denominator
\* (batch_affine.rs:138-332).
SumsAreTheGroupLaw == SumsAre /\ InversesInvert
=============================================================================
