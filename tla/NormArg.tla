------------------------------- MODULE NormArg -------------------------------
(***************************************************************************)
(* The weighted norm linear argument of norm_arg.rs: the prover and the    *)
(* verifier halve all vectors under one challenge per round, until the     *)
(* rest is small enough to be sent.                                        *)
(*                                                                         *)
(* A point is its logarithm in base G; GVec and HVec are the logarithms of *)
(* the generators.                                                         *)
(***************************************************************************)
EXTENDS PrimeField

CONSTANTS
  GVec, HVec,     \* the generators of n and of l
  Coefficients,   \* c, the public linear coefficients
  Witnesses,      \* the pairs <<l, n>> to prove about
  Offsets,        \* how far the claimed commitment is from theirs
  Rhos,           \* the weights that occur
  Challenges,     \* the challenges of a round
  SmallEnough     \* 6, the length at which no more is folded

Field == 0 .. Order - 1

ASSUME NormAssumption ==
  /\ Order \in Nat \ {0, 1}
  /\ GVec \in Seq(Field) /\ HVec \in Seq(Field) /\ Coefficients \in Seq(Field)
  /\ Len(Coefficients) = Len(HVec)
  /\ \A w \in Witnesses : w \in Seq(Field) \X Seq(Field)
  /\ Offsets \cup Challenges \subseteq Field
  /\ Rhos \subseteq Field \ {0}         \* range_circuit.rs rejects a zero
  /\ SmallEnough \in Nat /\ SmallEnough >= 4

VARIABLES
  lVec, nVec,     \* the prover's vectors
  gVec, hVec, cVec, normRho, normMu, normCom,  \* the instance, folded alike by both
  flights,        \* the pairs <<X, R>> sent
  offset          \* of the first commitment from its opening

normVars == <<lVec, nVec, gVec, hVec, cVec, normRho, normMu, normCom, flights, offset>>

----------------------------------------------------------------------------
NormCommit(gs, hs, cs, weight, ls, ns) ==
  Plus(Plus(Inner(cs, ls), WeightedInner(ns, ns, weight)), Plus(Inner(hs, ls), Inner(gs, ns)))

\* The cross terms of a round.
FlightX ==
  LET inverse == Inverted(normRho)
      scalar == Plus(Times(2, Times(inverse,
                                    WeightedInner(Evens(nVec), Odds(nVec), Times(normMu, normMu)))),
                     Plus(Inner(Evens(cVec), Odds(lVec)), Inner(Odds(cVec), Evens(lVec))))
      linear == Plus(Inner(Evens(hVec), Odds(lVec)), Inner(Odds(hVec), Evens(lVec)))
      norm == Plus(Inner(Evens(gVec), Scaled(normRho, Odds(nVec))),
                   Inner(Odds(gVec), Scaled(inverse, Evens(nVec))))
  IN  Plus(scalar, Plus(linear, norm))

FlightR ==
  Plus(Plus(WeightedInner(Odds(nVec), Odds(nVec), Times(normMu, normMu)),
            Inner(Odds(cVec), Odds(lVec))),
       Plus(Inner(Odds(hVec), Odds(lVec)), Inner(Odds(gVec), Odds(nVec))))

\* Slip: R enters with the square of the challenge.
NormFoldedSquare(y) ==
  Plus(normCom, Plus(Times(y, FlightX), Times(Times(y, y), FlightR)))

NormFolded(y) ==
  Plus(normCom, Plus(Times(y, FlightX), Times(Minus(Times(y, y), 1), FlightR)))

\* Slip: the last round is left out where one vector is already short.
FoldsShort(ls, ns) == Len(ls) + Len(ns) >= SmallEnough /\ Len(ls) > 1

Folds(ls, ns) == Len(ls) + Len(ns) >= SmallEnough

\* expected_shape: rounds and lengths as the verifier expects them.
Halved(length, rounds) ==
  LET f[i \in 0 .. rounds] == IF i = 0 THEN length ELSE (f[i - 1] + 1) \div 2 IN f[rounds]
ExpectedRounds ==
  CHOOSE r \in 0 .. Len(GVec) + Len(HVec) :
    /\ Halved(Len(HVec), r) + Halved(Len(GVec), r) < SmallEnough
    /\ \A q \in 0 .. r - 1 : Halved(Len(HVec), q) + Halved(Len(GVec), q) >= SmallEnough

----------------------------------------------------------------------------
NormStart(w, weight, delta) ==
  /\ lVec = w[1] /\ nVec = w[2]
  /\ gVec = GVec /\ hVec = HVec /\ cVec = Coefficients
  /\ normRho = weight /\ normMu = Times(weight, weight)
  /\ offset = delta
  /\ normCom = Plus(NormCommit(GVec, HVec, Coefficients, Times(weight, weight), w[1], w[2]), delta)
  /\ flights = <<>>

NormInit ==
  \E w \in Witnesses, weight \in Rhos, delta \in Offsets :
    /\ Len(w[1]) = Len(HVec) /\ Len(w[2]) = Len(GVec)
    /\ NormStart(w, weight, delta)

FoldRound(y) ==
  /\ Folds(lVec, nVec)
  /\ flights' = Append(flights, <<FlightX, FlightR>>)
  /\ normCom' = NormFolded(y)
  /\ hVec' = Combined(Evens(hVec), 1, Odds(hVec), y)
  /\ gVec' = Combined(Evens(gVec), normRho, Odds(gVec), y)
  /\ cVec' = Combined(Evens(cVec), 1, Odds(cVec), y)
  /\ lVec' = Combined(Evens(lVec), 1, Odds(lVec), y)
  /\ nVec' = Combined(Evens(nVec), Inverted(normRho), Odds(nVec), y)
  /\ normRho' = normMu /\ normMu' = Times(normMu, normMu)
  /\ UNCHANGED offset

NormNext == \E y \in Challenges : FoldRound(y)
NormSpec == NormInit /\ [][NormNext]_normVars

Finished == ~Folds(lVec, nVec)

\* verify: the shape, the flights, and the equation of what is left.
NormVerifies ==
  /\ Len(flights) = ExpectedRounds
  /\ Len(lVec) = Halved(Len(HVec), ExpectedRounds) /\ Len(nVec) = Halved(Len(GVec), ExpectedRounds)
  /\ \A i \in DOMAIN flights : flights[i][1] # 0 /\ flights[i][2] # 0
  /\ NormCommit(gVec, hVec, cVec, normMu, lVec, nVec) = normCom

----------------------------------------------------------------------------
\* Every round keeps the commitment opened by the vectors, or exactly as far
\* from it as it was, whatever the challenge and whether the lengths are even
\* (norm_arg.rs, prove and verify).
FoldKeepsOpening ==
  normCom = Plus(NormCommit(gVec, hVec, cVec, normMu, lVec, nVec), offset)

\* The prover stops where the verifier, who has seen no proof, expects it to.
ShapesAgree ==
  /\ Finished <=> Len(flights) = ExpectedRounds
  /\ Len(lVec) = Halved(Len(HVec), Len(flights)) /\ Len(nVec) = Halved(Len(GVec), Len(flights))

\* An honest proof is accepted unless a flight happens to be the identity,
\* and one of a commitment the vectors do not open is not.
AcceptsOpenings ==
  Finished => (NormVerifies <=> /\ offset = 0
                                /\ \A i \in DOMAIN flights : flights[i][1] # 0 /\ flights[i][2] # 0)

\* Folding halves both vectors alike for prover and verifier, keeps the
\* commitment as far from its opening as it was, and what is left is accepted
\* just where the vectors opened what was committed (norm_arg.rs:186-345).
NormArgumentIsExact == FoldKeepsOpening /\ ShapesAgree /\ AcceptsOpenings
=============================================================================
