---------------------------- MODULE RangeCircuit ----------------------------
(***************************************************************************)
(* The reciprocal range argument of range_circuit.rs: every committed      *)
(* value is a limb below Base^DigitsPerLimb or a carry below two.  The     *)
(* prover commits to the digits and to how often each occurs, learns       *)
(* alpha, commits to the reciprocals 1/(alpha + digit), learns the         *)
(* weights, commits to a vector that cancels every power of T but the      *)
(* third, learns tau, and opens one folded commitment by the norm          *)
(* argument, which is taken here at its word (see NormArg).                *)
(*                                                                         *)
(* A point is its logarithm in base G; HVec[1] is the base of blindings.   *)
(***************************************************************************)
EXTENDS PrimeField

CONSTANTS
  Limbs, Carries, \* how many values of either kind (22 and 10)
  DigitsPerLimb, Base,    \* 6 digits in base 16
  GVec, HVec,     \* the generators
  CrPowers,       \* CR_POWS: the power of T that a blinding slot feeds
  Statements,     \* the pairs <<values, blindings>> that are committed to
  DigitSlips, CountSlips, \* how the vectors of a false witness are off
  Masks,          \* records [o, l, r, ls, ns]: what the prover draws
  Alphas, Weights, Taus   \* the challenges; a weight is <<rho, lambda, beta, delta>>

K == Limbs + Carries
LimbDigits == Limbs * DigitsPerLimb
Digits == LimbDigits + Carries
Counts == Base      \* Base - 1 symbols of a limb digit, one of a carry
Slots == DOMAIN CrPowers

\* What the parameters satisfy.
RangeCircuitAssumption ==
  /\ {Limbs, Carries, DigitsPerLimb} \subseteq Nat \ {0} /\ Base \in Nat /\ Base >= 2
  /\ Len(GVec) = Digits /\ Len(HVec) = Len(CrPowers) - 1 + Base
  /\ \A s \in Statements : Len(s[1]) = K /\ Len(s[2]) = K
  /\ \A d \in DigitSlips : Len(d) = Digits
  /\ \A m \in CountSlips : Len(m) = Counts
  /\ Alphas \cup Taus \subseteq 0 .. Order - 1

VARIABLES
  stage,          \* "seal", "digits", "recips", "masked", "folded" or "failed"
  values, blindings, honest,
  nL, lL, mask,   \* digits, multiplicities, randomness
  alpha, nR,      \* the reciprocals
  rho, lambda, beta, delta, cons, rS,
  tau

vars == <<stage, values, blindings, honest, nL, lL, mask, alpha, nR,
          rho, lambda, beta, delta, cons, rS, tau>>

----------------------------------------------------------------------------
(* Digits and multiplicities.                                              *)

Limit(w) == IF w <= Limbs THEN Base ^ DigitsPerLimb ELSE 2
InRange(vs) == \A w \in 1 .. K : vs[w] < Limit(w)

ValueOf(i) == IF i <= LimbDigits THEN (i - 1) \div DigitsPerLimb + 1
                                 ELSE Limbs + (i - LimbDigits)
PlaceOf(i) == IF i <= LimbDigits THEN Base ^ ((i - 1) % DigitsPerLimb) ELSE 1

DigitVector(vs) ==
  [i \in 1 .. Digits |-> IF i <= LimbDigits THEN (vs[ValueOf(i)] \div PlaceOf(i)) % Base
                                            ELSE vs[ValueOf(i)]]

Multiplicities(ds) ==
  [t \in 1 .. Counts |->
    IF t < Counts THEN Cardinality({ i \in 1 .. LimbDigits : ds[i] = t })
                  ELSE Cardinality({ i \in LimbDigits + 1 .. Digits : ds[i] > 0 })]

----------------------------------------------------------------------------
(* Polynomials in T: a function from powers to scalars or to vectors.      *)

\* wnla_c and folded_commitment read the inverse of a zero tau as zero.
Raised(t, p) == IF p >= 0 THEN Power(t, p) ELSE Power(Inverted(t), -p)

CoefficientOf(a, b, w, p) ==
  SumOver(LAMBDA q : IF p - q \in DOMAIN b THEN WeightedInner(a[q], b[p - q], w) ELSE 0, DOMAIN a)

At(a, t, width) ==
  [i \in 1 .. width |-> SumOver(LAMBDA p : Times(Raised(t, p), ZeroExtended(a[p], i)), DOMAIN a)]

----------------------------------------------------------------------------
(* The closed forms of the constraint vectors.                             *)

\* Slip: both groups share a pole row.
PoleRowShared(group) == K * Base

PoleRow(group) == K * Base + group      \* 0 the limb digits, 1 the carries
HitsPole(a) == \E s \in 0 .. Base - 1 : Plus(a, s) = 0

CountTerm(a, lam, t) ==
  Times(Power(lam, PoleRow(IF t < Counts THEN 0 ELSE 1)),
        Minus(Inverted(a), Inverted(Plus(a, IF t < Counts THEN t ELSE 1))))

Constraints(a, lam, mu) ==
  [cnL |-> [i \in 1 .. Digits |->
              Times(Times(Power(lam, Base * (ValueOf(i) - 1)), PlaceOf(i)), Inverted(Power(mu, i)))],
   cnR |-> [i \in 1 .. Digits |->
              Plus(Times(Power(lam, PoleRow(IF i <= LimbDigits THEN 0 ELSE 1)),
                         Inverted(Power(mu, i))), a)],
   clL |-> [t \in 1 .. Counts |-> CountTerm(a, lam, t)],
   lambdaAl |-> Times(Plus(Times(Power(lam, PoleRow(0)), LimbDigits),
                           Times(Power(lam, PoleRow(1)), Carries)), Inverted(a)),
   muAm |-> SumOver(LAMBDA i : Power(mu, i), 1 .. Digits)]

PN(c) == (1 :> c.cnR) @@ (2 :> c.cnL)
PSCoefficient(c, mu, p) ==
  Plus(CoefficientOf(PN(c), PN(c), mu, p),
       IF p = 3 THEN Times(2, Plus(c.lambdaAl, c.muAm)) ELSE 0)
CL(c, lam) ==
  (0 :> [t \in 1 .. Base |-> IF t < Base THEN Minus(0, Power(lam, t)) ELSE 0])
  @@ (2 :> Scaled(2, c.clL))

WnlaC(c, lam, b, t) ==
  [s \in 1 .. Len(CrPowers) - 1 |-> Times(b, Raised(t, CrPowers[s + 1]))] \o At(CL(c, lam), t, Base)

----------------------------------------------------------------------------
(* The prover's vectors; of the first three flights some slots are zero.   *)

ZeroSlots == [o |-> {5, 8}, l |-> {4, 7, 8}, r |-> {3, 6, 7, 8}]

\* Slip: no slot is left out.
BlindingEverywhere(flight) == [s \in Slots |-> mask[flight][s]]

Blinding(flight) ==
  [s \in Slots |-> IF s \in ZeroSlots[flight] THEN 0 ELSE mask[flight][s]]

\* Twice the sum of lambda^(Base*i) over values, blindings or commitments.
Aggregate(lam, vs) ==
  Times(2, SumOver(LAMBDA i : Times(Power(lam, Base * (i - 1)), vs[i]), 1 .. K))

LHat == (-1 :> mask.ls) @@ (1 :> lL)
NPoly(c) == (-1 :> mask.ns) @@ (1 :> Combined(nL, 1, c.cnR, 1)) @@ (2 :> Combined(nR, 1, c.cnL, 1))

FHat(c, lam, mu, p) ==
  Minus(Plus(PSCoefficient(c, mu, p), IF p = 3 THEN Aggregate(lam, values) ELSE 0),
        Plus(CoefficientOf(CL(c, lam), LHat, 1, p), CoefficientOf(NPoly(c), NPoly(c), mu, p)))

SlotWeight(b, s) == IF s = 1 THEN Minus(0, 1) ELSE b
Shifted(d, lam) ==
  (0 :> Scaled(d, Blinding("o"))) @@ (1 :> Blinding("l")) @@ (2 :> Blinding("r"))
  @@ (3 :> [s \in Slots |-> IF s = 2 THEN Aggregate(lam, blindings) ELSE 0])
Rest(b, d, lam, p) ==
  SumOver(LAMBDA s : IF p - CrPowers[s] \in 0 .. 3
                    THEN Times(SlotWeight(b, s), Shifted(d, lam)[p - CrPowers[s]][s]) ELSE 0, Slots)

\* Slip: the reciprocal of beta is taken for slot 0 as well.
SolvedEveryBeta(c, mu, lam, b, d) ==
  [s \in Slots |-> Times(Inverted(b), Minus(FHat(c, lam, mu, CrPowers[s] - 1), Rest(b, d, lam, CrPowers[s] - 1)))]

Solved(c, mu, lam, b, d) ==
  [s \in Slots |-> Times(Inverted(SlotWeight(b, s)),
                         Minus(FHat(c, lam, mu, CrPowers[s] - 1), Rest(b, d, lam, CrPowers[s] - 1)))]

Flight(r, l, n) == Plus(r[1], Plus(Inner(HVec, Tail(r) \o l), Inner(GVec, n)))
CLPoint == Flight(Blinding("l"), lL, nL)
COPoint == Flight(Blinding("o"), <<>>, <<>>)
CRPoint == Flight(Blinding("r"), <<>>, nR)
CSPoint == Flight(rS, mask.ls, mask.ns)

----------------------------------------------------------------------------
Mu == Times(rho, rho)

VHatPoint ==
  Aggregate(lambda, [w \in 1 .. K |-> Plus(values[w], Times(blindings[w], HVec[1]))])

FoldedCommitment ==
  LET scalar == SumOver(LAMBDA p : Times(Raised(tau, p), PSCoefficient(cons, Mu, p)), 2 .. 4)
      vector == Inner(GVec, At(PN(cons), tau, Digits))
      flights == Plus(Plus(Times(Inverted(tau), CSPoint), Times(delta, COPoint)),
                      Plus(Times(tau, CLPoint), Times(Power(tau, 2), CRPoint)))
  IN  Plus(Plus(scalar, vector), Plus(flights, Times(Power(tau, 3), VHatPoint)))

\* What the prover opens it with.
FoldedN == At(NPoly(cons), tau, Digits)
FoldedL == Tail(At((-1 :> rS) @@ Shifted(delta, lambda), tau, Len(CrPowers))) \o At(LHat, tau, Base)

\* NormArg::commit, where NormArg says when the argument is accepted.
Opens ==
  LET c == WnlaC(cons, lambda, beta, tau)
  IN  FoldedCommitment = Plus(Plus(Inner(c, FoldedL), WeightedInner(FoldedN, FoldedN, Mu)),
                              Plus(Inner(HVec, FoldedL), Inner(GVec, FoldedN)))

Verifies ==
  /\ stage = "folded"
  /\ 0 \notin {CLPoint, COPoint, CRPoint, CSPoint, tau, beta}
  /\ Opens

----------------------------------------------------------------------------
Init ==
  /\ \E s \in Statements : values = s[1] /\ blindings = s[2]
  /\ mask \in Masks
  /\ stage = "seal" /\ honest = TRUE
  /\ nL = <<>> /\ lL = <<>> /\ nR = <<>> /\ rS = <<>> /\ cons = <<>>
  /\ alpha = 0 /\ rho = 0 /\ lambda = 0 /\ beta = 0 /\ delta = 0 /\ tau = 0

Unweighted == UNCHANGED <<rho, lambda, beta, delta, cons, rS, tau>>
Sealed == UNCHANGED <<values, blindings, mask>>

\* prove refuses a value out of range before anything is drawn.
Refuse ==
  /\ stage = "seal" /\ ~InRange(values)
  /\ stage' = "failed"
  /\ UNCHANGED <<values, blindings, mask, honest, nL, lL, alpha, nR>> /\ Unweighted

Prove ==
  /\ stage = "seal" /\ InRange(values)
  /\ nL' = DigitVector(values) /\ lL' = Multiplicities(DigitVector(values))
  /\ stage' = "digits"
  /\ Sealed /\ UNCHANGED <<honest, alpha, nR>> /\ Unweighted

\* A prover that brings its own digits and multiplicities.
ProveOtherwise(digitSlip, countSlip) ==
  LET ds == Combined(DigitVector(values), 1, digitSlip, 1)
  IN  /\ stage = "seal"
      /\ nL' = ds /\ lL' = Combined(Multiplicities(ds), 1, countSlip, 1)
      /\ stage' = "digits" /\ honest' = FALSE
      /\ Sealed /\ UNCHANGED <<alpha, nR>> /\ Unweighted

Alpha(a) ==
  /\ stage = "digits"
  /\ alpha' = a
  /\ IF \E i \in 1 .. Digits : Plus(a, nL[i]) = 0
     THEN stage' = "failed" /\ UNCHANGED nR
     ELSE stage' = "recips" /\ nR' = [i \in 1 .. Digits |-> Inverted(Plus(a, nL[i]))]
  /\ Sealed /\ UNCHANGED <<honest, nL, lL>> /\ Unweighted

Weigh(w) ==
  LET mu == Times(w[1], w[1])
      c == Constraints(alpha, w[2], mu)
  IN  /\ stage = "recips"
      /\ rho' = w[1] /\ lambda' = w[2] /\ beta' = w[3] /\ delta' = w[4]
      /\ IF HitsPole(alpha) \/ w[1] = 0 \/ w[3] = 0
         THEN stage' = "failed" /\ UNCHANGED <<cons, rS>>
         ELSE stage' = "masked" /\ cons' = c /\ rS' = Solved(c, mu, w[2], w[3], w[4])
      /\ Sealed /\ UNCHANGED <<honest, nL, lL, alpha, nR, tau>>

Fold(t) ==
  /\ stage = "masked"
  /\ tau' = t
  /\ stage' = IF t = 0 THEN "failed" ELSE "folded"
  /\ Sealed /\ UNCHANGED <<honest, nL, lL, alpha, nR, rho, lambda, beta, delta, cons, rS>>

Next ==
  \/ Refuse
  \/ Prove
  \/ \E d \in DigitSlips, m \in CountSlips : ProveOtherwise(d, m)
  \/ \E a \in Alphas : Alpha(a)
  \/ \E w \in Weights : Weigh(w)
  \/ \E t \in Taus : Fold(t)

Spec == Init /\ [][Next]_vars

----------------------------------------------------------------------------
\* The value term: all that no blinding can cancel.
ValueTerm == Minus(FHat(cons, lambda, Mu, 3), Rest(beta, delta, lambda, 3))

TrueWitness ==
  /\ InRange(values)
  /\ nL = DigitVector(values) /\ lL = Multiplicities(nL)

\* An honest prover's folded commitment opens to its folded witness, for all
\* randomness and challenges (the assertions of prove_inner at 746, 779, 829).
HonestOpens == honest /\ stage = "folded" => Opens

\* The folded witness opens the commitment at every tau or at none, and at
\* every one exactly when the value term is zero: the fourth flight cancels
\* all powers of T but the third (range_circuit.rs:751-778).
OnlyValueTermIsLeft == stage = "folded" => (Opens <=> ValueTerm = 0)

\* Digits out of their set, a carry of two, a count moved between symbols or
\* between the two groups: nothing but the digits and counts of values in
\* range verifies (range_circuit.rs:844-892).
OnlyTrueWitnessesVerify == Verifies => TrueWitness
=============================================================================
