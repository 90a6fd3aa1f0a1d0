---------------------------- MODULE CaseLifecycle ----------------------------
(***************************************************************************)
(* The life of a case before it is opened: pieces are sealed, here or by   *)
(* other software, bundled, verified, stripped of their proofs for         *)
(* storage, and bound again from storage (case.rs, stripped.rs).           *)
(***************************************************************************)
EXTENDS Case

CONSTANTS
  Recipient, Gates,
  PieceInputs,   \* the <<secret, nonces>> a piece may be sealed with
  MaxPieces,     \* bound on the pieces of a case
  None           \* no token

ASSUME LifecycleAssumption ==
  /\ \A p \in PieceInputs : p[1] \in Scalars /\ p[2] \in [Limbs -> Scalars]
  /\ MaxPieces \in Nat

Binding == OpeningBinding(Recipient, Gates)
CoreOf(p) == SealCore(p[1], p[2], Binding)

VARIABLES
  cores,       \* the pieces bundled so far
  foreign,     \* whether one of them was not sealed by Capsule::seal
  verified,    \* the token of Case::verify
  stripped,    \* the stored case, empty if nothing is stored
  bound        \* the token of StrippedCase::bind

vars == <<cores, foreign, verified, stripped, bound>>

Token(cs, commitment) == [cores |-> cs, commitment |-> commitment]

\* The commitments a caller may expect: the right one and a wrong one.
Expected(cs) == {SumOfCommitments(cs), Plus(SumOfCommitments(cs), 1)}

----------------------------------------------------------------------------
Init ==
  /\ cores = <<>> /\ foreign = FALSE
  /\ verified = None
  /\ stripped = <<>>
  /\ bound = None

\* Slip: the sealer runs the basic screen only.
SealAcceptsBasic(nonces) == ~DegenerateBasic(nonces)

\* seal_inner checks the masks it drew and errs on degenerate ones.
SealAccepts(nonces) == ~DegenerateMask(nonces)

Bundle(p) ==
  /\ verified = None
  /\ Len(cores) < MaxPieces
  /\ cores' = Append(cores, CoreOf(p))
  /\ UNCHANGED <<verified, stripped, bound>>

BundleSealed(p) == SealAccepts(p[2]) /\ Bundle(p) /\ UNCHANGED foreign

\* A decoded piece with a valid proof, whose sealer did not screen its masks.
BundleForeign(p) == MasksDecode(CoreOf(p)) /\ Bundle(p) /\ foreign' = TRUE

Verify(commitment) ==
  /\ CaseVerifies(cores, commitment)
  /\ verified' = Token(cores, commitment)
  /\ UNCHANGED <<cores, foreign, stripped, bound>>

\* VerifiedCase::strip
Strip ==
  /\ verified # None
  /\ MayStrip(verified.cores)
  /\ stripped' = verified.cores
  /\ UNCHANGED <<cores, foreign, verified, bound>>

\* StrippedCase::from_canonical_bytes: decoded pieces were never verified.
Decode ==
  /\ MayStrip(cores)
  /\ \A h \in DOMAIN cores : MasksDecode(cores[h])
  /\ stripped' = cores
  /\ UNCHANGED <<cores, foreign, verified, bound>>

Bind(commitment) ==
  /\ stripped # <<>>
  /\ BindAccepts(stripped, commitment)
  /\ bound' = Token(stripped, commitment)
  /\ UNCHANGED <<cores, foreign, verified, stripped>>

Next ==
  \/ \E p \in PieceInputs : BundleSealed(p) \/ BundleForeign(p)
  \/ \E commitment \in Expected(cores) : Verify(commitment)
  \/ Strip \/ Decode
  \/ \E commitment \in Expected(stripped) : Bind(commitment)

Spec == Init /\ [][Next]_vars

----------------------------------------------------------------------------
Cores == {CoreOf(p) : p \in PieceInputs}

\* A case is made of sealed pieces, and a token never covers none of them or
\* more than the screens can search.
TypeOK ==
  /\ cores \in Seq(Cores) /\ Len(cores) <= MaxPieces
  /\ foreign \in BOOLEAN
  /\ stripped \in Seq(Cores) /\ Len(stripped) <= CasePieceCap
  /\ \A token \in {verified, bound} \ {None} :
       token.cores \in Seq(Cores) /\ Len(token.cores) \in 1 .. PieceBound

\* Dropping the proofs never widens what is accepted: a case that binds is
\* one that Case::verify takes, from wherever its bytes came.
BoundWouldVerify == bound # None => CaseVerifies(bound.cores, bound.commitment)

\* A verified case whose pieces all came from Capsule::seal can be stored
\* without its proofs and bound again.
SealedCaseBinds ==
  verified # None /\ ~foreign => BindAccepts(verified.cores, verified.commitment)

\* "Re-run the screens each piece's seal proof would enforce ... Mirrors
\* Case::verify minus the (absent) per-piece proofs": what Case::verify takes,
\* StrippedCase::bind takes (stripped.rs, doc of bind).
VerifiedCaseBinds ==
  verified # None => BindAccepts(verified.cores, verified.commitment)

\* The partials of every gate for every piece; one holder owns each gate.
Quorum(cs) ==
  SetToSeq({Partial(cs[h], Binding, k, k, "ctx", 0) : h \in DOMAIN cs, k \in Gates})

\* "Only a verified case can be stripped ... Recover via StrippedCase::bind +
\* the self-securing BoundCase::unseal" (case.rs, doc of strip): a verified
\* case that was stripped and bound opens for its recipient and its quorum.
BoundCaseOpens ==
  bound # None /\ bound = verified =>
    BoundUnsealed(bound.cores, bound.commitment, Binding, Recipient, Quorum(bound.cores), "ctx")
      # Failed
=============================================================================
