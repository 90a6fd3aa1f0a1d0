-------------------------- MODULE AttestedRecovery --------------------------
(***************************************************************************)
(* A capsule or a case from provisioning to recovery (capsule.rs, case.rs, *)
(* stripped.rs, signature.rs): it is verified by its proofs, the quorum    *)
(* signs its attestation message, the proofs are dropped, storage keeps or *)
(* replaces the cores, a reader binds what it finds, promotes it with a    *)
(* signature, and share holders contribute to what is verified.            *)
(*                                                                         *)
(* A seal proof is the statement it was made for, a signature the key and  *)
(* the statement it was made with; a digest is what it digests.  The       *)
(* signature equation itself is the subject of Schnorr.                    *)
(***************************************************************************)
EXTENDS Case

BindingOf(roster) == OpeningBinding(roster.recipient, roster.gates)

\* What the transcript of a seal proof binds of a capsule.
SealStatement(core, roster, ctx) == [core |-> core, roster |-> roster, ctx |-> ctx]

\* Capsule::verify
CapsuleVerifies(capsule, commitment, roster, ctx) ==
  /\ capsule.proof = SealStatement(capsule.core, roster, ctx)
  /\ ~DegenerateMask(capsule.core.e)
  /\ capsule.core.c = commitment

\* Case::verify, the proofs of its pieces included.
CaseProofsVerify(capsules, commitment, roster, ctx) ==
  /\ \A h \in DOMAIN capsules : capsules[h].proof = SealStatement(capsules[h].core, roster, ctx)
  /\ CaseVerifies([h \in DOMAIN capsules |-> capsules[h].core], commitment)

\* StrippedCapsule::bind
CapsuleBinds(core, commitment) == core.c = commitment /\ ~DegenerateMask(core.e)

----------------------------------------------------------------------------
(* The statements.  A subject is a record of kind, cores, commitment,      *)
(* roster and ctx: the parts of a token or of a bound core.                *)

\* A sorted list of digests: how often each core occurs.
Digests(cores) == [core \in ToSet(cores) |-> Cardinality({h \in DOMAIN cores : cores[h] = core})]

\* Slip: recipient, gates and Y* are left out.
StatementOfAnyRoster(s) ==
  [ domain |-> s.kind, digests |-> Digests(s.cores), commitment |-> s.commitment,
    roster |-> {}, yStar |-> 0, ctx |-> s.ctx ]

\* attestation_statement and case_attestation_statement.  A capsule's C is
\* part of its digest.
StatementOf(s) ==
  [ domain     |-> s.kind,
    digests    |-> Digests(s.cores),
    commitment |-> s.commitment,
    roster     |-> s.roster,
    yStar      |-> BindingOf(s.roster).yStar,
    ctx        |-> s.ctx ]

\* verify_signature under the key the caller supplies.
SignatureVerifies(signature, key, subject) ==
  signature = [key |-> key, statement |-> StatementOf(subject)]

----------------------------------------------------------------------------
(* A subject as a verified, a bound and an opened one.                     *)

SubjectBinds(s) ==
  IF s.kind = "capsule" THEN CapsuleBinds(s.cores[1], s.commitment)
                        ELSE BindAccepts(s.cores, s.commitment)

\* BoundCapsule::unseal and BoundCase::unseal
SubjectUnsealed(s, secret, partials) ==
  IF s.kind = "capsule"
    THEN OpenCore(s.cores[1], BindingOf(s.roster), secret, partials, s.ctx, LimbModulus)
    ELSE BoundUnsealed(s.cores, s.commitment, BindingOf(s.roster), secret, partials, s.ctx)

----------------------------------------------------------------------------
CONSTANTS
  Capsules,      \* sealed capsules
  SecretOf, NoncesOf, RosterOf, CtxOf,   \* what each was sealed with
  Bundles,       \* the cases that may be put together: sequences of capsules
  Media,         \* what may be found in storage instead: [kind, cores]
  Rosters,       \* the rosters, records of recipient and gates
  Contexts,
  QuorumKey,     \* the verifying key the holders trust
  RogueKey,      \* another key
  ProofBacked,   \* Backing::Proof, where a key would stand
  None,          \* nothing stored, nothing bound
  MaxTokens, MaxSignatures   \* bounds on the tokens and signatures of a behaviour

CoreOf(k) == SealCore(SecretOf[k], NoncesOf[k], BindingOf(RosterOf[k]))
CapsuleOf(k) == [core |-> CoreOf(k), proof |-> SealStatement(CoreOf(k), RosterOf[k], CtxOf[k])]

\* What the parameters satisfy.
ASSUME AttestedAssumption ==
  /\ QuorumKey # RogueKey /\ ProofBacked \notin {QuorumKey, RogueKey}
  /\ \A b \in Bundles : ToSet(b) \subseteq Capsules
  /\ {MaxTokens, MaxSignatures} \subseteq Nat

\* What from_canonical_bytes returns and strip writes: one core, or pieces
\* up to the cap.
Shaped(artifact) ==
  /\ artifact.cores \in Seq(ToSet(artifact.cores))
  /\ \/ artifact.kind = "capsule" /\ Len(artifact.cores) = 1
     \/ artifact.kind = "case" /\ MayStrip(artifact.cores)

\* No two rosters with the same gates aggregate to one key, and a roster has
\* a gate: without one the recipient opens alone.
RostersAreSound ==
  \A r \in Rosters :
    /\ r.recipient \in Scalars
    /\ IsFiniteSet(r.gates) /\ r.gates # {} /\ r.gates \subseteq Scalars \ {0}
    /\ \A component \in r.gates \cup {r.recipient} :
         AggregationCoefficient(r.recipient, r.gates, component) \in Int
    /\ \A s \in Rosters :
         s.gates = r.gates /\ BindingOf(s).yStar = BindingOf(r).yStar => s = r

\* What is sealed: scalars, with limb nonces that are not zero.
CapsulesAreSealed ==
  /\ SecretOf \in [Capsules -> Scalars]
  /\ NoncesOf \in [Capsules -> [Limbs -> Scalars \ {0}]]
  /\ RosterOf \in [Capsules -> Rosters]

\* The masks of a case that binds do not sum to a degenerate one.
SumsAreGeneric ==
  /\ CasePieceCap * LimbModulus <= Order
  /\ \A n \in 1 .. CasePieceCap : \A names \in [1 .. n -> Capsules] :
       LET cores == [h \in 1 .. n |-> CoreOf(names[h])]
       IN  BindAccepts(cores, SumOfCommitments(cores)) => ~DegenerateMask(AggregateCore(cores, 0).e)

\* What the exactness of an opening rests on.
SealedAssumption ==
  /\ RostersAreSound /\ CapsulesAreSealed /\ SumsAreGeneric
  /\ Bundles \subseteq Seq(Capsules)
  /\ \A artifact \in Media : Shaped(artifact)

VARIABLES
  tokens,       \* the VerifiedCapsule and VerifiedCase tokens: a subject and its backing
  signatures,   \* the signatures made
  stored,       \* the stripped artifact in storage, a record of kind and cores
  bound         \* the subject bound last, or None

vars == <<tokens, signatures, stored, bound>>

----------------------------------------------------------------------------
Subject(kind, cores, commitment, roster, ctx) ==
  [kind |-> kind, cores |-> cores, commitment |-> commitment, roster |-> roster, ctx |-> ctx]
Token(s, backing) == [subject |-> s, backing |-> backing]

\* The commitment that cores stand for, as a capsule or as a case.
Commitment(kind, cores) == IF kind = "capsule" THEN cores[1].c ELSE SumOfCommitments(cores)

\* The certified targets a reader may expect.
Targets == {SecretOf[k] : k \in Capsules} \cup {SumOfCommitments([h \in DOMAIN b |-> CoreOf(b[h])]) : b \in Bundles}

\* A token a holder contributes to.
Trusted(t) == t.backing \in {ProofBacked, QuorumKey}

\* The partials of every holder for every piece of every trusted token; one
\* holder owns each gate.
Contributions ==
  UNION { UNION {{Partial(core, BindingOf(t.subject.roster), gate, gate, t.subject.ctx, 0) :
                    core \in ToSet(t.subject.cores)} : gate \in t.subject.roster.gates}
          : t \in {u \in tokens : Trusted(u)} }

Unsealed(s) == SubjectUnsealed(s, s.roster.recipient, SetToSeq(Contributions))

----------------------------------------------------------------------------
Init == tokens = {} /\ signatures = {} /\ stored = None /\ bound = None

AddToken(t) == Cardinality(tokens \cup {t}) <= MaxTokens /\ tokens' = tokens \cup {t}

\* Capsule::verify against any expected roster and context.
VerifyCapsule(k, roster, ctx) ==
  /\ CapsuleVerifies(CapsuleOf(k), SecretOf[k], roster, ctx)
  /\ AddToken(Token(Subject("capsule", <<CoreOf(k)>>, SecretOf[k], roster, ctx), ProofBacked))
  /\ UNCHANGED <<signatures, stored, bound>>

\* Case::verify
VerifyCase(b, roster, ctx) ==
  LET cores == [h \in DOMAIN b |-> CoreOf(b[h])]
      commitment == SumOfCommitments(cores)
  IN  /\ CaseProofsVerify([h \in DOMAIN b |-> CapsuleOf(b[h])], commitment, roster, ctx)
      /\ AddToken(Token(Subject("case", cores, commitment, roster, ctx), ProofBacked))
      /\ UNCHANGED <<signatures, stored, bound>>

\* Slip: the quorum signs the message of any token.
SignsAny(key, t) == TRUE

\* attestation_message exists on every token.  The quorum signs those backed
\* by a proof or by a signature of its own.
Signs(key, t) == key = QuorumKey => Trusted(t)

Sign(key, t) ==
  /\ Signs(key, t)
  /\ Cardinality(signatures) < MaxSignatures
  /\ signatures' = signatures \cup {[key |-> key, statement |-> StatementOf(t.subject)]}
  /\ UNCHANGED <<tokens, stored, bound>>

\* Whoever holds the other key signs what it was never shown a token of.
Forge ==
  /\ bound # None /\ Cardinality(signatures) < MaxSignatures
  /\ signatures' = signatures \cup {[key |-> RogueKey, statement |-> StatementOf(bound)]}
  /\ UNCHANGED <<tokens, stored, bound>>

\* VerifiedCapsule::strip and VerifiedCase::strip
Strip(t) ==
  /\ t.subject.kind = "case" => MayStrip(t.subject.cores)
  /\ stored' = [kind |-> t.subject.kind, cores |-> t.subject.cores]
  /\ UNCHANGED <<tokens, signatures, bound>>

\* from_canonical_bytes of what storage returns.
Replace(artifact) ==
  /\ \A h \in DOMAIN artifact.cores : MasksDecode(artifact.cores[h])
  /\ stored' = artifact
  /\ UNCHANGED <<tokens, signatures, bound>>

\* StrippedCapsule::bind and StrippedCase::bind
Bind(expected, roster, ctx) ==
  /\ stored # None
  /\ LET s == Subject(stored.kind, stored.cores, expected, roster, ctx)
     IN  SubjectBinds(s) /\ bound' = s
  /\ UNCHANGED <<tokens, signatures, stored>>

\* verify_signed consumes the bound core.
Promote(key, signature) ==
  /\ bound # None /\ SignatureVerifies(signature, key, bound)
  /\ AddToken(Token(bound, key))
  /\ bound' = None
  /\ UNCHANGED <<signatures, stored>>

Next ==
  \/ \E roster \in Rosters, ctx \in Contexts :
       \/ \E k \in Capsules : VerifyCapsule(k, roster, ctx)
       \/ \E b \in Bundles : VerifyCase(b, roster, ctx)
       \/ \E expected \in Targets : Bind(expected, roster, ctx)
  \/ \E t \in tokens : Strip(t) \/ \E key \in {QuorumKey, RogueKey} : Sign(key, t)
  \/ \E artifact \in Media : Replace(artifact)
  \/ Forge
  \/ \E key \in {QuorumKey, RogueKey}, signature \in signatures : Promote(key, signature)

Spec == Init /\ [][Next]_vars

----------------------------------------------------------------------------
\* What a proof said: the same kind, cores in whatever order, commitment,
\* roster and context.
Proved(s) ==
  \E u \in tokens :
    /\ u.backing = ProofBacked
    /\ u.subject = [s EXCEPT !.cores = u.subject.cores]
    /\ Digests(u.subject.cores) = Digests(s.cores)

\* Holders only ever contribute to cores that were sealed for exactly the
\* roster and context of the token, and a signature under the trusted key
\* promotes nothing but what was proved before: not a core that storage
\* replaced, not one under another roster or context, not a capsule for a
\* case (stripped.rs, doc of verify_signed: "closing the partial-decryption
\* oracle").
TrustedWereSealed ==
  \A t \in {u \in tokens : Trusted(u)} :
    LET s == t.subject
    IN  /\ \A h \in DOMAIN s.cores :
             \E k \in Capsules : CoreOf(k) = s.cores[h] /\ RosterOf[k] = s.roster /\ CtxOf[k] = s.ctx
        /\ s.commitment = Commitment(s.kind, s.cores)
        /\ t.backing = QuorumKey => Proved(s)

\* The contributions to the trusted tokens open a bound artifact exactly
\* when every one of its cores is a core of such a token under the same
\* roster and context, in whatever order and however the token came about;
\* what they open is the committed secret (stripped.rs, docs of
\* BoundCapsule::unseal and verify_signed).
BoundOpensIffTrusted ==
  bound # None =>
    LET given == UNION {ToSet(t.subject.cores) :
                          t \in {u \in tokens : /\ Trusted(u) /\ u.subject.roster = bound.roster
                                                /\ u.subject.ctx = bound.ctx}}
    IN  /\ Unsealed(bound) # Failed <=> ToSet(bound.cores) \subseteq given
        /\ Unsealed(bound) \in {Failed, bound.commitment}
=============================================================================
