----------------------------- MODULE CaseOpening -----------------------------
(***************************************************************************)
(* Opening a case: a secret split into additive pieces, each sealed on its *)
(* own.  A contribute call makes one partial per piece; the partials travel *)
(* separately.  A verified case opens piece by piece (case.rs); a bound,   *)
(* proof-stripped one opens the sum of its pieces (stripped.rs).           *)
(***************************************************************************)
EXTENDS Case, Parties

CONSTANTS
  PieceOf,         \* PieceOf[h]: the scalar sealed in piece h; its domain is 1 .. number of pieces
  PieceNonces,     \* PieceNonces[h]: the ElGamal nonces of piece h
  TokenCtx,        \* the context of the case's token
  CaseCalls        \* the contribute calls that may be made

Pieces == DOMAIN PieceOf
PieceCore(h) == SealCore(PieceOf[h], PieceNonces[h], Binding)
PieceCores == [h \in Pieces |-> PieceCore(h)]

\* M, the certified commitment, is the sum of the piece commitments.
CaseSecret == SumOver(LAMBDA h : PieceOf[h], Pieces)

\* The case passed Case::verify, and its cores StrippedCase::bind; the masks
\* of its sum are not degenerate.
CaseScreened ==
  /\ CaseVerifies(PieceCores, CaseSecret) /\ BindAccepts(PieceCores, CaseSecret)
  /\ ~DegenerateMask(AggregateCore(PieceCores, CaseSecret).e)

\* What a dealt roster and honest seals satisfy; a summed limb is determined
\* by its point; a contribution is its holder, gate, context and entropy.
CaseAssumption ==
  /\ RosterDealt /\ CaseScreened
  /\ {MaxInbox, MaxCalls} \subseteq Nat
  /\ PieceOf \in Seq(Scalars) /\ PieceNonces \in [Pieces -> [Limbs -> Scalars]]
  /\ Len(PieceOf) * LimbModulus <= Order
  /\ \A c \in CaseCalls : c.holder \in Holders
  /\ \A c, d \in CaseCalls :
       c.holder = d.holder /\ c.gate = d.gate /\ c.ctx = d.ctx /\ c.entropy = d.entropy => c = d

\* What a key that is not the recipient's makes of limb j: of that of piece
\* h, and of that of the sum.
MissOf(x, v, r) ==
  Plus(v, Times(r, Times(RecipientWeight(Recipient, Gates), Minus(Recipient, x))))
PieceMiss(x, h, j) == MissOf(x, Decompose(PieceOf[h])[j], PieceNonces[h][j])
SumMiss(x, j) ==
  MissOf(x, SumOver(LAMBDA h : Decompose(PieceOf[h])[j], Pieces),
            SumOver(LAMBDA h : PieceNonces[h][j], Pieces))

\* No other key that is tried happens to leave every limb below the bounds.
OtherKeysMissCase ==
  \A x \in TriedSecrets \ {Recipient} :
    /\ x \in Scalars
    /\ \E h \in Pieces, j \in Limbs : PieceMiss(x, h, j) >= LimbModulus
    /\ \E j \in Limbs : SumMiss(x, j) >= Len(PieceOf) * LimbModulus

----------------------------------------------------------------------------
PiecePartial(c, h) ==
  Partial(PieceCore(h), Binding, c.gate, ShareOf[c.holder], c.ctx, c.entropy)

CaseOpened(secret) == CaseUnsealed(PieceCores, CaseSecret, Binding, secret, inbox, TokenCtx)
BoundOpened(secret) == BoundUnsealed(PieceCores, CaseSecret, Binding, secret, inbox, TokenCtx)

----------------------------------------------------------------------------
\* contribute_for_gate: all pieces or an error.
ContributeToCase(c) ==
  (\A h \in Pieces : MayContribute(PieceCore(h), Binding, c.gate)) /\ Make(c)

\* One of the partials of a call arrives, again or for the first time.
DeliverPiece(c, h) == Arrive(PiecePartial(c, h))

UnsealCase(secret) == Return(secret, CaseOpened(secret))
UnsealBound(secret) == Return(secret, BoundOpened(secret))

CaseNext ==
  \/ \E c \in CaseCalls : ContributeToCase(c)
  \/ \E c \in made, h \in Pieces : DeliverPiece(c, h)
  \/ \E secret \in TriedSecrets : UnsealCase(secret) \/ UnsealBound(secret)

CaseSpec == Init /\ [][CaseNext]_vars

----------------------------------------------------------------------------
\* The contributions to this case whose partial for piece h is in the list.
ArrivedFor(h) ==
  {c \in made : c.ctx = TokenCtx /\ \E i \in DOMAIN inbox : inbox[i] = PiecePartial(c, h)}

\* A list opens the case exactly when every piece got one contribution of
\* every share holder to its own gate: nothing is shared between pieces, a
\* partial of one piece never fills the place of another's, a repeated one is
\* not summed twice.  The calls that serve one piece need not be those that
\* serve another (case.rs VerifiedCase::unseal).
OpensIffEveryPieceQualifies ==
  CaseOpened(Recipient) # Failed <=> \A h \in Pieces : EveryHolderOnce(ArrivedFor(h))

\* Opening the sum is opening the pieces: with any key and any list the two
\* paths return the same scalar or both fail, although the sum's limbs exceed
\* a limb and its masks were never proved (stripped.rs BoundCase::unseal).
PathsAgree ==
  \A secret \in TriedSecrets : CaseOpened(secret) = BoundOpened(secret)

\* Both paths implement the escrow of the case's secret.
CasePromise == INSTANCE Escrow WITH
  consent <- {c.holder : c \in {d \in made : d.ctx = TokenCtx /\ d.gate = GateOf[d.holder]}},
  Secret <- CaseSecret
CaseImplementsEscrow == CasePromise!Spec
=============================================================================
