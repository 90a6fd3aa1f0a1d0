--------------------------- MODULE CapsuleAlgebra ---------------------------
(***************************************************************************)
(* The group arithmetic of a sealed capsule: limbs.rs, elgamal.rs and the  *)
(* aggregate key of composite.rs.                                          *)
(*                                                                         *)
(* A point of the curve is represented by its discrete logarithm in base G *)
(* (0 is the identity), so scalar multiplication by w is multiplication by *)
(* w modulo the group order.  The order, the limb width and the number of  *)
(* limbs are parameters: the code's frozen profile is secp256k1's order,   *)
(* 2^24 and 11.                                                            *)
(***************************************************************************)
EXTENDS PrimeField

CONSTANTS
  LimbModulus,    \* 2^l, the exclusive bound of one limb
  LimbCount,      \* L, the number of limbs of a secret
  AggregationCoefficient(_, _, _)  \* (recipient, gates, component) -> weight

\* The powers of the limb modulus, B^k.
LimbPower[k \in 0 .. LimbCount] == IF k = 0 THEN 1 ELSE LimbModulus * LimbPower[k - 1]

ASSUME AlgebraAssumption ==
  /\ Order \in Nat \ {0, 1}
  /\ LimbModulus \in Nat \ {0, 1}
  /\ LimbCount \in Nat \ {0}
  /\ LimbPower[LimbCount] >= Order      \* L limbs cover a scalar: params.rs is_valid
  /\ LimbModulus <= Order               \* a limb is determined by its point

Scalars == 0 .. Order - 1
Limbs == 1 .. LimbCount
Identity == 0                     \* the point at infinity
Failed == -1                      \* an Err where a scalar is expected

----------------------------------------------------------------------------
(* limbs.rs *)

Decompose(m) == [k \in Limbs |-> (m \div LimbPower[k - 1]) % LimbModulus]

\* Horner from the most significant limb, reducing modulo the order: what the
\* k most significant limbs come to.
Recompose(limbs) ==
  LET horner[k \in 0 .. LimbCount] ==
        IF k = 0 THEN 0
        ELSE Plus(Times(horner[k - 1], LimbModulus % Order), limbs[LimbCount + 1 - k])
  IN  horner[LimbCount]

\* The integer that limbs stand for, not reduced.
Integer(limbs) ==
  LET lowest[k \in 0 .. LimbCount] ==
        IF k = 0 THEN 0 ELSE lowest[k - 1] + LimbPower[k - 1] * limbs[k]
  IN  lowest[LimbCount]

----------------------------------------------------------------------------
(* composite.rs: the deterministic opening binding of a roster.  A sorted  *)
(* list of gates without duplicates is the set of them.                    *)

RecipientWeight(recipient, gates) ==
  IF gates = {} THEN 1 ELSE AggregationCoefficient(recipient, gates, recipient)

GateWeight(recipient, gates, gate) == AggregationCoefficient(recipient, gates, gate)

AccessSum(gates) == SumOver(LAMBDA k : k, gates)
WeightedAccessSum(recipient, gates) ==
  SumOver(LAMBDA k : Times(GateWeight(recipient, gates, k), k), gates)

\* composite_key and the fields opening_binding_from_canonical assembles.
OpeningBinding(recipient, gates) ==
  [ recipient       |-> recipient,
    gates           |-> gates,
    recipientWeight |-> RecipientWeight(recipient, gates),
    yStar |-> Plus(Times(RecipientWeight(recipient, gates), recipient),
                   WeightedAccessSum(recipient, gates)) ]

----------------------------------------------------------------------------
(* elgamal.rs: E = r*G and D = v*G + r*Y* for every limb, and C = m*G.      *)

SealCore(m, nonces, binding) ==
  [ e |-> [j \in Limbs |-> nonces[j]],
    d |-> [j \in Limbs |-> Plus(Decompose(m)[j], Times(nonces[j], binding.yStar))],
    c |-> m ]

\* The bounded discrete logarithm: the v below bound with v*G = point, if any.
RecoverBounded(point, bound) == IF point < bound THEN point ELSE Failed

\* open_core_with_access_masks: strip every limb, recover it below the bound,
\* recompose, and recheck the commitment.  A missing limb is not reported on
\* its own; it only makes the opening fail.
OpenWithAccessMasks(core, binding, secret, accessMasks, bound) ==
  LET weighted == Times(secret, binding.recipientWeight)
      limb == [j \in Limbs |->
                RecoverBounded(Minus(core.d[j], Plus(accessMasks[j], Times(core.e[j], weighted))),
                               bound)]
      missing == \E j \in Limbs : limb[j] = Failed
      m == Recompose([j \in Limbs |-> IF limb[j] = Failed THEN 0 ELSE limb[j]])
  IN  IF missing \/ m # core.c THEN Failed ELSE m
=============================================================================
