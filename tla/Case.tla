-------------------------------- MODULE Case --------------------------------
(***************************************************************************)
(* A case, the additive split of a secret over several sealed cores: what  *)
(* Case::verify (case.rs) and StrippedCase::bind (stripped.rs) accept, and *)
(* how the case is opened afterwards, piece by piece or as one sum.        *)
(***************************************************************************)
EXTENDS Opening, MaskScreens

CONSTANT CasePieceCap   \* the piece count StrippedCase can carry, 255

ASSUME CaseCapAssumption == CasePieceCap \in Nat

Masks(cores) == [h \in DOMAIN cores |-> cores[h].e]
SumOfCommitments(cores) == SumOver(LAMBDA h : cores[h].c, DOMAIN cores)
\* Neither a capsule nor a stripped core with an identity mask decodes.
MasksDecode(core) == \A j \in Limbs : core.e[j] # Identity
DuplicateCores(cores) == \E h, k \in DOMAIN cores : h # k /\ cores[h] = cores[k]

\* Case::verify on pieces whose proofs hold, with commitments that pass the
\* Pedersen screens.  Of the mask screens only the basic one is run on a
\* single piece (verify_case_piece).
CaseVerifies(cores, commitment) ==
  /\ cores # <<>>
  /\ \A h \in DOMAIN cores : ~DegenerateBasic(cores[h].e)
  /\ ~DuplicateCores(cores)
  /\ ~CrossPieceRelation(Masks(cores))
  /\ SumOfCommitments(cores) = commitment

\* Slip: binding screens the pieces one by one only.
BindWithoutCrossScreen(cores, commitment) ==
  /\ \A h \in DOMAIN cores : ~DegenerateMask(cores[h].e)
  /\ ~DuplicateCores(cores)
  /\ SumOfCommitments(cores) = commitment

\* StrippedCase::bind: every piece passes the whole screen.
BindAccepts(cores, commitment) ==
  /\ \A h \in DOMAIN cores : ~DegenerateMask(cores[h].e)
  /\ ~DuplicateCores(cores)
  /\ ~CrossPieceRelation(Masks(cores))
  /\ SumOfCommitments(cores) = commitment

\* VerifiedCase::strip and StrippedCase::from_pieces.
MayStrip(cores) == Len(cores) \in 1 .. CasePieceCap

----------------------------------------------------------------------------
\* VerifiedCase::unseal: every piece picks its partials from the flat list.
CaseUnsealed(cores, commitment, binding, secret, partials, ctx) ==
  LET opened == [h \in DOMAIN cores |->
                   OpenCore(cores[h], binding, secret, partials, ctx, LimbModulus)]
      s == SumOver(LAMBDA h : opened[h], DOMAIN cores)
  IN  IF (\E h \in DOMAIN cores : opened[h] = Failed) \/ s # commitment THEN Failed ELSE s

\* The summed ciphertext, against the certified commitment.
AggregateCore(cores, commitment) ==
  [ e |-> [j \in Limbs |-> SumOver(LAMBDA h : cores[h].e[j], DOMAIN cores)],
    d |-> [j \in Limbs |-> SumOver(LAMBDA h : cores[h].d[j], DOMAIN cores)],
    c |-> commitment ]

\* Slip: a summed limb is sought below the bound of a single one.
SingleLimbBound(cores) == LimbModulus

SummedLimbBound(cores) == Len(cores) * LimbModulus

\* BoundCase::unseal: strict AND per piece, the mask screen on the sum, one
\* opening of the sum.
BoundUnsealed(cores, commitment, binding, secret, partials, ctx) ==
  LET accepted == [h \in DOMAIN cores |-> Accepted(partials, cores[h], binding, ctx)]
      aggregate == AggregateCore(cores, commitment)
      masks == [ j \in Limbs |->
                   SumOver(LAMBDA h : AccessMasks(partials, accepted[h], binding)[j],
                           DOMAIN cores) ]
  IN  IF /\ \A h \in DOMAIN cores : GatesQualify(partials, accepted[h], binding.gates)
         /\ ~DegenerateMask(aggregate.e)
        THEN OpenWithAccessMasks(aggregate, binding, secret, masks, SummedLimbBound(cores))
        ELSE Failed
=============================================================================
