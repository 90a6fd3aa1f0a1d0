------------------------------ MODULE MCSealing ------------------------------
(***************************************************************************)
(* The seal proof and the arithmetic under it, for TLC.  The six parts share *)
(* nothing but the scalars they pass to each other, so a behaviour         *)
(* exercises one of them, its subject, and leaves the others unused.       *)
(*                                                                         *)
(* The parameters of each are the smallest at which its cases differ: see  *)
(* the README.                                                             *)
(***************************************************************************)
EXTENDS SealProof, ProofNonces, NormArg, Msm, TLC

CONSTANT Unused   \* a model value

VARIABLE subject

VARIABLES stage, values, blindings, honest, nL, lL, mask, alpha, nR,
          rho, lambda, beta, delta, cons, rS, tau

rangeVars == <<stage, values, blindings, honest, nL, lL, mask, alpha, nR,
               rho, lambda, beta, delta, cons, rS, tau>>
allVars == <<subject, vars, normVars, rangeVars, nonceVars, shareProofs, msmVars>>

----------------------------------------------------------------------------
(* SealProof: a group of 13 elements, limbs below 4.                       *)

Coefficient(recipient, gates, component) == 1

KindNumber == [r |-> 3, s |-> 5, sBar |-> 1, g |-> 7, alpha |-> 9, beta |-> 2, gamma |-> 4, rho |-> 11]
Drawn(seed, kind, k) == (seed + k * KindNumber[kind] + k) % 13

----------------------------------------------------------------------------
(* NormArg: vectors of 2 and 11 entries.                                   *)

MCGVec == <<4, 1, 6, 5, 10, 11, 3, 8, 11, 2, 10>>
MCHVec == <<12, 8>>
MCCoefficients == <<9, 12>>
MCWitnesses ==
  { <<3, 8>>, <<0, 0>>, <<11, 1>> }
  \X { <<1, 2, 3, 4, 5, 6, 7, 8, 9, 10, 11>>, <<0, 9, 0, 7, 0, 5, 0, 3, 0, 6, 0>>,
       <<7, 0, 0, 5, 2, 0, 4, 0, 0, 0, 9>>, <<5, 0, 9, 0, 12, 0, 1, 0, 11, 0, 10>> }

----------------------------------------------------------------------------
(* RangeCircuit: two limbs of two digits in base 4, one carry.             *)

RangePrime == 10007

\* The digits as they are, a recomposing digit out of the set, one more, the
\* digits of 16, and a carry more.
FalseDigits ==
  { <<0, 0, 0, 0, 0>>, <<4, RangePrime - 1, 0, 0, 0>>, <<1, 0, 0, 0, 0>>,
    <<0, 0, 0, 4, 0>>, <<0, 0, 0, 0, 1>> }
\* The counts as they are, one more, one less, moved to another symbol and
\* to the other group.
FalseCounts ==
  { <<0, 0, 0, 0>>, <<1, 0, 0, 0>>, <<0, 0, RangePrime - 1, 0>>,
    <<RangePrime - 1, 1, 0, 0>>, <<RangePrime - 1, 0, 0, 1>> }
Randomness ==
  { [o |-> <<11, 222, 3333, 404, 5055, 66, 777, 8088>>,
     l |-> <<9001, 82, 733, 644, 55, 466, 377, 288>>,
     r |-> <<17, 2718, 31, 4142, 59, 6265, 73, 8979>>,
     ls |-> <<101, 2020, 303, 4040>>, ns |-> <<5, 60, 700, 8000, 91>>],
    [o |-> [i \in 1 .. 8 |-> 0], l |-> [i \in 1 .. 8 |-> 1], r |-> [i \in 1 .. 8 |-> 2],
     ls |-> <<3, 0, 0, 1>>, ns |-> <<0, 0, 0, 0, 0>>] }

RangeProof == INSTANCE RangeCircuit WITH
  Order <- RangePrime, Limbs <- 2, Carries <- 1, DigitsPerLimb <- 2, Base <- 4,
  GVec <- <<4711, 1234, 8086, 6502, 9001>>,
  HVec <- <<2718, 3141, 577, 1618, 7071, 1732, 4669, 2502, 8128, 496, 3333>>,
  CrPowers <- <<0, -1, 1, 2, 3, 5, 6, 7>>,
  Statements <- { <<0, 0, 0>>, <<15, 6, 1>>, <<9, 16, 1>>, <<5, 3, 2>> } \X { <<8001, 17, 424>> },
  DigitSlips <- FalseDigits, CountSlips <- FalseCounts, Masks <- Randomness,
  Alphas <- {0, 345, 6789, 10004},
  Weights <- { <<3, 5000, 77, 1>>, <<123, 4567, 89, 1011>>, <<2, 9876, 1, 0>>,
               <<0, 3, 4, 5>>, <<7, 8, 0, 9>> },
  Taus <- {0, 1, 808, 10006}

----------------------------------------------------------------------------
(* ProofNonces: two seals that differ in at most two of their inputs.       *)

Bytes(s) == [i \in DOMAIN s |-> <<s[i]>>]
Secret(v, r, s, blinding) == [v |-> v, r |-> r, s |-> s, sBar |-> <<3, 4>>, g |-> blinding]
RangeMessages(flight, x, response) ==
  [flights |-> <<"cL", "cO", flight, "cS">>, folds |-> <<[x |-> x, r |-> "r"]>>,
   l |-> <<1>>, n |-> <<response>>]

MCContexts ==
  { <<Bytes(<<1>>), Bytes(<<2, 1>>)>>, <<Bytes(<<1, 2>>), Bytes(<<1>>)>>, <<Bytes(<<1, 2, 1>>), <<>>>> }
MCSecrets ==
  { Secret(<<1, 2>>, <<5, 6>>, <<7, 8>>, <<9>>), Secret(<<1, 3>>, <<5, 6>>, <<7, 8>>, <<9>>),
    Secret(<<1, 2>>, <<5, 6>>, <<7, 8>>, <<0>>) }
MCResidualAnnouncements == { <<"rho1", "rho2">>, <<"rho1", "rho3">> }
MCRanges ==
  { RangeMessages("cR1", "x1", 1), RangeMessages("cR2", "x1", 1), RangeMessages("cR1", "x2", 1),
    RangeMessages("cR1", "x1", 2) }

----------------------------------------------------------------------------
(* ProofNonces: two proofs by shares, over cores with one limb and two, a  *)
(* hint with the mask of a core, and contexts and epochs that trade bytes. *)

Core(limbs) == [c |-> "c1", limbs |-> limbs]
Roster(gates) == [yStar |-> "y1", gates |-> gates]
Contribution(limbs, gates, gate, context) ==
  [core |-> Core(limbs), roster |-> Roster(gates), gate |-> gate, context |-> context]
Authorization(eStar, ctx, epoch, idx, gate) ==
  [eStar |-> eStar, roster |-> Roster({"k1", "k2"}), vs |-> "vs", ctx |-> ctx, epoch |-> epoch,
   idx |-> idx, gate |-> gate]

MCContributeCalls ==
  { Contribution(<<<<"e1", "d1">>>>, {"k1", "k2"}, "k1", c) : c \in MCContexts }
  \cup { Contribution(limbs, {"k1"}, "k1", <<Bytes(<<1>>), <<>>>>) :
           limbs \in { <<<<"e1", "d1">>>>, <<<<"e1", "d2">>>>, <<<<"e1", "d1">>, <<"e2", "d2">>>>,
                        <<<<"O", "d1">>>> } }
  \cup { Contribution(<<<<"e1", "d1">>>>, {"k1", "k2"}, gate, <<Bytes(<<1>>), <<>>>>) : gate \in {"k2", "k3"} }
MCAuthorizeCalls ==
  { Authorization("e1", Bytes(c[1]), Bytes(c[2]), 0, "k1") :
      c \in { <<<<1>>, <<2, 1>>>>, <<<<1, 2>>, <<1>>>>, <<<<1, 2, 1>>, <<>>>>, <<<<1, 1, 1, 1>>, <<>>>> } }
  \cup { Authorization("e2", Bytes(<<1>>), Bytes(<<2, 1>>), 0, "k1"),
         Authorization("e1", Bytes(<<1>>), Bytes(<<2, 1>>), 1, "k1"),
         Authorization("e1", Bytes(<<1>>), Bytes(<<2, 1>>), 0, "k2") }

SealsAreAlike == Permutations(Seals)

----------------------------------------------------------------------------
(* Msm: windows of two and of three bits of a four-bit scalar.             *)

MCWidths == << <<2, 2>>, <<3, 3>> >>

----------------------------------------------------------------------------
Is(name) == subject = name

NoProof == Init
NoNorm == NormStart(<<<<0, 0>>, [i \in 1 .. 11 |-> 0]>>, 2, 0)
NoRange ==
  /\ stage = Unused /\ values = Unused /\ blindings = Unused /\ honest = Unused
  /\ nL = Unused /\ lL = Unused /\ mask = Unused /\ alpha = Unused /\ nR = Unused
  /\ rho = Unused /\ lambda = Unused /\ beta = Unused /\ delta = Unused
  /\ cons = Unused /\ rS = Unused /\ tau = Unused
NoNonces == NonceInit
NoShares == ShareInit
NoSum == MsmInit

MCInit ==
  \/ Is("proof") /\ Init /\ NoNorm /\ NoRange /\ NoNonces /\ NoShares /\ NoSum
  \/ Is("norm") /\ NoProof /\ NormInit /\ NoRange /\ NoNonces /\ NoShares /\ NoSum
  \/ Is("range") /\ NoProof /\ NoNorm /\ RangeProof!Init /\ NoNonces /\ NoShares /\ NoSum
  \/ Is("nonces") /\ NoProof /\ NoNorm /\ NoRange /\ NonceInit /\ NoShares /\ NoSum
  \/ Is("shares") /\ NoProof /\ NoNorm /\ NoRange /\ NoNonces /\ ShareInit /\ NoSum
  \/ Is("sum") /\ NoProof /\ NoNorm /\ NoRange /\ NoNonces /\ NoShares /\ MsmInit

MCNext ==
  /\ UNCHANGED subject
  /\ \/ Is("proof") /\ Next /\ UNCHANGED <<normVars, rangeVars, nonceVars, shareProofs, msmVars>>
     \/ Is("norm") /\ NormNext /\ UNCHANGED <<vars, rangeVars, nonceVars, shareProofs, msmVars>>
     \/ Is("range") /\ RangeProof!Next /\ UNCHANGED <<vars, normVars, nonceVars, shareProofs, msmVars>>
     \/ Is("nonces") /\ NonceNext /\ UNCHANGED <<vars, normVars, rangeVars, shareProofs, msmVars>>
     \/ Is("shares") /\ ShareNext /\ UNCHANGED <<vars, normVars, rangeVars, nonceVars, msmVars>>
     \/ Is("sum") /\ MsmNext /\ UNCHANGED <<vars, normVars, rangeVars, nonceVars, shareProofs>>

MCSpec == MCInit /\ [][MCNext]_allVars

ASSUME RangeProof!RangeCircuitAssumption

----------------------------------------------------------------------------
\* Honest range proofs open, and only the digits and counts of values in
\* range verify (range_circuit.rs).
RangeProofIsExact ==
  Is("range") => RangeProof!HonestOpens /\ RangeProof!OnlyValueTermIsLeft /\ RangeProof!OnlyTrueWitnessesVerify
=============================================================================
