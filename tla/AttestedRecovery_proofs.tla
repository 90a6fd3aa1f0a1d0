----------------------- MODULE AttestedRecovery_proofs -----------------------
(***************************************************************************)
(* For any capsules, cases, rosters, contexts, keys, signatures and        *)
(* whatever storage returns: what share holders contribute to was proved.  *)
(*                                                                         *)
(* The argument follows the statements.  A signature under the trusted key *)
(* states what some proof-backed token states, since the quorum signs      *)
(* proof-backed tokens and those its own signatures promoted; a promoted   *)
(* token states what its signature states; and equal statements are about  *)
(* the same kind, cores, commitment, roster and context.                   *)
(***************************************************************************)
EXTENDS AttestedRecovery, Schnorr, ContextBinding, CapsuleAlgebra_proofs

WellFormed(s) ==
  s = [kind |-> s.kind, cores |-> s.cores, commitment |-> s.commitment, roster |-> s.roster, ctx |-> s.ctx]

SealedFor(core, s) == \E k \in Capsules : CoreOf(k) = core /\ RosterOf[k] = s.roster /\ CtxOf[k] = s.ctx

\* Some proof-backed token states this.
Stated(statement) ==
  \E u \in tokens : u.backing = ProofBacked /\ StatementOf(u.subject) = statement

TokenInv(t) ==
  /\ WellFormed(t.subject)
  /\ t.subject.commitment = Commitment(t.subject.kind, t.subject.cores)
  /\ t.backing = ProofBacked => \A h \in DOMAIN t.subject.cores : SealedFor(t.subject.cores[h], t.subject)
  /\ t.backing = QuorumKey => Stated(StatementOf(t.subject))

TokensInv == \A t \in tokens : TokenInv(t)
SignaturesInv == \A g \in signatures : g.key = QuorumKey => Stated(g.statement)
BoundInv == bound # None => WellFormed(bound) /\ bound.commitment = Commitment(bound.kind, bound.cores)

IInv == TokensInv /\ SignaturesInv /\ BoundInv

----------------------------------------------------------------------------
LEMMA SubjectFields ==
  ASSUME NEW kind, NEW cores, NEW commitment, NEW roster, NEW ctx
  PROVE  LET s == Subject(kind, cores, commitment, roster, ctx)
         IN  /\ WellFormed(s)
             /\ s.kind = kind /\ s.cores = cores /\ s.commitment = commitment
             /\ s.roster = roster /\ s.ctx = ctx
BY DEF Subject, WellFormed

LEMMA TokenFields ==
  ASSUME NEW s, NEW backing
  PROVE  Token(s, backing).subject = s /\ Token(s, backing).backing = backing
BY DEF Token

\* What was stated stays stated: tokens are never given back.
LEMMA StatedStays ==
  ASSUME tokens \subseteq tokens', NEW statement, Stated(statement)
  PROVE  Stated(statement)'
BY DEF Stated, StatementOf, Digests, BindingOf

\* A capsule's proof binds its roster and context.
LEMMA ProofBinds ==
  ASSUME NEW k \in Capsules, NEW core, NEW roster, NEW ctx,
         CapsuleOf(k).proof = SealStatement(core, roster, ctx)
  PROVE  CoreOf(k) = core /\ RosterOf[k] = roster /\ CtxOf[k] = ctx
BY DEF CapsuleOf, SealStatement

\* A proved capsule becomes a token of a sealed core.
LEMMA CapsuleSealed ==
  ASSUME NEW k \in Capsules, NEW roster, NEW ctx,
         CapsuleVerifies(CapsuleOf(k), SecretOf[k], roster, ctx)
  PROVE  LET s == Subject("capsule", <<CoreOf(k)>>, SecretOf[k], roster, ctx)
         IN  /\ s.commitment = Commitment(s.kind, s.cores)
             /\ \A h \in DOMAIN s.cores : SealedFor(s.cores[h], s)
<1> DEFINE s == Subject("capsule", <<CoreOf(k)>>, SecretOf[k], roster, ctx)
<1>1. /\ s.kind = "capsule" /\ s.cores = <<CoreOf(k)>> /\ s.commitment = SecretOf[k]
      /\ s.roster = roster /\ s.ctx = ctx
  BY SubjectFields
<1>2. CapsuleOf(k).core = CoreOf(k)
  BY DEF CapsuleOf
<1>3. RosterOf[k] = roster /\ CtxOf[k] = ctx /\ CoreOf(k).c = SecretOf[k]
  BY <1>2, ProofBinds DEF CapsuleVerifies
<1> QED BY <1>1, <1>3 DEF Commitment, SealedFor

\* A proved case becomes a token of sealed cores.
LEMMA CaseSealed ==
  ASSUME NEW b \in Bundles, NEW roster, NEW ctx,
         CaseProofsVerify([h \in DOMAIN b |-> CapsuleOf(b[h])],
                          SumOfCommitments([h \in DOMAIN b |-> CoreOf(b[h])]), roster, ctx)
  PROVE  LET cores == [h \in DOMAIN b |-> CoreOf(b[h])]
             s == Subject("case", cores, SumOfCommitments(cores), roster, ctx)
         IN  /\ s.commitment = Commitment(s.kind, s.cores)
             /\ \A h \in DOMAIN s.cores : SealedFor(s.cores[h], s)
<1> DEFINE cores == [h \in DOMAIN b |-> CoreOf(b[h])]
           s == Subject("case", cores, SumOfCommitments(cores), roster, ctx)
<1>1. /\ s.kind = "case" /\ s.cores = cores /\ s.commitment = SumOfCommitments(cores)
      /\ s.roster = roster /\ s.ctx = ctx
  BY SubjectFields
<1>2. ASSUME NEW h \in DOMAIN b PROVE SealedFor(cores[h], s)
  <2>1. b[h] \in Capsules
    BY AttestedAssumption DEF ToSet
  <2>2. CapsuleOf(b[h]).core = CoreOf(b[h])
    BY DEF CapsuleOf
  <2>3. CapsuleOf(b[h]).proof = SealStatement(CoreOf(b[h]), roster, ctx)
    BY <2>2 DEF CaseProofsVerify
  <2> QED BY <1>1, <2>1, <2>3, ProofBinds DEF SealedFor
<1> QED BY <1>1, <1>2 DEF Commitment

----------------------------------------------------------------------------
\* A new token keeps the invariant of tokens and signatures if it fulfils it.
LEMMA TokenAdded ==
  ASSUME IInv, NEW s, NEW backing, AddToken(Token(s, backing)), UNCHANGED signatures,
         WellFormed(s), s.commitment = Commitment(s.kind, s.cores),
         backing = ProofBacked => \A h \in DOMAIN s.cores : SealedFor(s.cores[h], s),
         backing = QuorumKey => Stated(StatementOf(s))
  PROVE  TokensInv' /\ SignaturesInv'
<1>1. tokens' = tokens \cup {Token(s, backing)}
  BY DEF AddToken
<1>2. SignaturesInv'
  BY <1>1, StatedStays DEF IInv, SignaturesInv
<1>3. ASSUME NEW t \in tokens' PROVE TokenInv(t)'
  <2>1. CASE t \in tokens
    BY <1>1, <2>1, StatedStays DEF IInv, TokensInv, TokenInv
  <2>2. CASE t = Token(s, backing)
    BY <1>1, <2>2, StatedStays, TokenFields DEF TokenInv
  <2> QED BY <1>1, <2>1, <2>2
<1> QED BY <1>2, <1>3 DEF TokensInv

\* The initial states satisfy the inductive invariant.
LEMMA InitIInv == Init => IInv
BY DEF Init, IInv, TokensInv, SignaturesInv, BoundInv

\* Every step keeps the inductive invariant, action by action.
LEMMA NextIInv == IInv /\ [Next]_vars => IInv'
<1> SUFFICES ASSUME IInv, [Next]_vars PROVE IInv'
  OBVIOUS
<1>1. ASSUME NEW k \in Capsules, NEW roster, NEW ctx, VerifyCapsule(k, roster, ctx) PROVE IInv'
  <2> DEFINE s == Subject("capsule", <<CoreOf(k)>>, SecretOf[k], roster, ctx)
  <2>1. /\ CapsuleVerifies(CapsuleOf(k), SecretOf[k], roster, ctx)
        /\ AddToken(Token(s, ProofBacked)) /\ UNCHANGED signatures /\ bound' = bound
    BY <1>1 DEF VerifyCapsule
  <2>2. WellFormed(s)
    BY SubjectFields
  <2>3. /\ s.commitment = Commitment(s.kind, s.cores)
        /\ \A h \in DOMAIN s.cores : SealedFor(s.cores[h], s)
    BY <2>1, CapsuleSealed
  <2> HIDE DEF s
  <2> QED BY <2>1, <2>2, <2>3, TokenAdded, AttestedAssumption DEF IInv, BoundInv
<1>2. ASSUME NEW b \in Bundles, NEW roster, NEW ctx, VerifyCase(b, roster, ctx) PROVE IInv'
  <2> DEFINE cores == [h \in DOMAIN b |-> CoreOf(b[h])]
             s == Subject("case", cores, SumOfCommitments(cores), roster, ctx)
  <2>1. /\ CaseProofsVerify([h \in DOMAIN b |-> CapsuleOf(b[h])], SumOfCommitments(cores), roster, ctx)
        /\ AddToken(Token(s, ProofBacked)) /\ UNCHANGED signatures /\ bound' = bound
    BY <1>2 DEF VerifyCase
  <2>2. WellFormed(s)
    BY SubjectFields
  <2>3. /\ s.commitment = Commitment(s.kind, s.cores)
        /\ \A h \in DOMAIN s.cores : SealedFor(s.cores[h], s)
    BY <2>1, CaseSealed
  <2> HIDE DEF s
  <2> QED BY <2>1, <2>2, <2>3, TokenAdded, AttestedAssumption DEF IInv, BoundInv
<1>3. ASSUME NEW key, NEW t \in tokens, Sign(key, t) PROVE IInv'
  <2>1. /\ tokens' = tokens /\ bound' = bound
        /\ signatures' = signatures \cup {[key |-> key, statement |-> StatementOf(t.subject)]}
    BY <1>3 DEF Sign
  <2>2. key = QuorumKey => Stated(StatementOf(t.subject))
    BY <1>3 DEF Sign, Signs, Trusted, IInv, TokensInv, TokenInv, Stated
  <2> QED BY <2>1, <2>2, StatedStays DEF IInv, TokensInv, TokenInv, SignaturesInv, BoundInv
<1>4. ASSUME Forge PROVE IInv'
  <2>1. /\ tokens' = tokens /\ bound' = bound
        /\ signatures' = signatures \cup {[key |-> RogueKey, statement |-> StatementOf(bound)]}
    BY <1>4 DEF Forge
  <2> QED BY <2>1, StatedStays, AttestedAssumption
          DEF IInv, TokensInv, TokenInv, SignaturesInv, BoundInv
<1>5. ASSUME NEW expected, NEW roster, NEW ctx, Bind(expected, roster, ctx) PROVE IInv'
  <2> DEFINE s == Subject(stored.kind, stored.cores, expected, roster, ctx)
  <2>1. tokens' = tokens /\ signatures' = signatures /\ bound' = s /\ SubjectBinds(s)
    BY <1>5 DEF Bind
  <2>2. WellFormed(s)
    BY SubjectFields
  <2>3. s.commitment = Commitment(s.kind, s.cores)
    BY <2>1 DEF SubjectBinds, CapsuleBinds, BindAccepts, Commitment
  <2> QED BY <2>1, <2>2, <2>3, StatedStays DEF IInv, TokensInv, TokenInv, SignaturesInv, BoundInv
<1>6. ASSUME NEW key \in {QuorumKey, RogueKey}, NEW signature \in signatures,
             Promote(key, signature)
      PROVE  IInv'
  <2>1. /\ bound # None /\ signature = [key |-> key, statement |-> StatementOf(bound)]
        /\ AddToken(Token(bound, key)) /\ bound' = None /\ UNCHANGED signatures
    BY <1>6 DEF Promote, SignatureVerifies
  <2>2. key = QuorumKey => Stated(StatementOf(bound))
    BY <2>1 DEF IInv, SignaturesInv
  <2> QED BY <2>1, <2>2, TokenAdded, AttestedAssumption DEF IInv, BoundInv
<1>7. ASSUME UNCHANGED <<tokens, signatures, bound>> PROVE IInv'
  BY <1>7, StatedStays DEF IInv, TokensInv, TokenInv, SignaturesInv, BoundInv
<1>8. ASSUME \/ \E t \in tokens : Strip(t)
             \/ \E artifact \in Media : Replace(artifact)
             \/ UNCHANGED vars
      PROVE  IInv'
  BY <1>7, <1>8 DEF Strip, Replace, vars
<1> QED BY <1>1, <1>2, <1>3, <1>4, <1>5, <1>6, <1>8 DEF Next

\* The inductive invariant holds in every reachable state.
THEOREM Invariance == Spec => []IInv
BY InitIInv, NextIInv, PTL DEF Spec

----------------------------------------------------------------------------
\* Equal statements: the same kind, commitment, roster, context and cores.
LEMMA StatementsDetermine ==
  ASSUME NEW s, NEW u, StatementOf(s) = StatementOf(u), WellFormed(s), WellFormed(u)
  PROVE  /\ u = [s EXCEPT !.cores = u.cores]
         /\ Digests(u.cores) = Digests(s.cores)
         /\ ToSet(s.cores) = ToSet(u.cores)
<1>1. /\ s.kind = u.kind /\ s.commitment = u.commitment /\ s.roster = u.roster /\ s.ctx = u.ctx
      /\ Digests(s.cores) = Digests(u.cores)
  BY DEF StatementOf
<1>2. ToSet(s.cores) = ToSet(u.cores)
  BY <1>1 DEF Digests
<1> QED BY <1>1, <1>2 DEF WellFormed

\* What a trusted token stands for was sealed for its roster and context, and
\* what a signature promoted was proved (stripped.rs, verify_signed).
THEOREM TrustIsEarned == Spec => []TrustedWereSealed
<1>1. IInv => TrustedWereSealed
  <2> SUFFICES ASSUME IInv, NEW t \in tokens, Trusted(t)
               PROVE  LET s == t.subject
                      IN  /\ \A h \in DOMAIN s.cores : SealedFor(s.cores[h], s)
                          /\ s.commitment = Commitment(s.kind, s.cores)
                          /\ t.backing = QuorumKey => Proved(s)
    BY DEF TrustedWereSealed, SealedFor
  <2>1. TokenInv(t)
    BY DEF IInv, TokensInv
  <2>2. CASE t.backing = ProofBacked
    BY <2>1, <2>2, AttestedAssumption DEF TokenInv
  <2>3. CASE t.backing = QuorumKey
    <3>1. PICK u \in tokens : u.backing = ProofBacked /\ StatementOf(u.subject) = StatementOf(t.subject)
      BY <2>1, <2>3 DEF TokenInv, Stated
    <3>2. TokenInv(u)
      BY DEF IInv, TokensInv
    <3>3. /\ u.subject = [t.subject EXCEPT !.cores = u.subject.cores]
          /\ Digests(u.subject.cores) = Digests(t.subject.cores)
          /\ ToSet(t.subject.cores) = ToSet(u.subject.cores)
      BY <2>1, <3>1, <3>2, StatementsDetermine DEF TokenInv
    <3>4. u.subject.roster = t.subject.roster /\ u.subject.ctx = t.subject.ctx
      BY <3>1 DEF StatementOf
    <3>5. ASSUME NEW h \in DOMAIN t.subject.cores PROVE SealedFor(t.subject.cores[h], t.subject)
      <4>1. PICK i \in DOMAIN u.subject.cores : u.subject.cores[i] = t.subject.cores[h]
        BY <3>3 DEF ToSet
      <4> QED BY <3>1, <3>2, <3>4, <4>1 DEF TokenInv, SealedFor
    <3>6. Proved(t.subject)
      BY <3>1, <3>3 DEF Proved
    <3> QED BY <2>1, <3>5, <3>6 DEF TokenInv
  <2> QED BY <2>2, <2>3 DEF Trusted
<1> QED BY <1>1, Invariance, PTL

----------------------------------------------------------------------------
(* What opens.  Everything below is about rosters and capsules as the      *)
(* SealedAssumption takes them to be.                                      *)

TokenShaped(t) ==
  /\ t.subject.roster \in Rosters
  /\ t.subject.cores \in Seq(ToSet(t.subject.cores))
  /\ \/ t.subject.kind = "capsule" /\ Len(t.subject.cores) = 1
     \/ t.subject.kind = "case"

ShapeInv ==
  /\ IsFiniteSet(tokens)
  /\ \A t \in tokens : TokenShaped(t)
  /\ stored # None => Shaped(stored)
  /\ bound # None => Shaped(bound) /\ bound.roster \in Rosters /\ SubjectBinds(bound)

\* A new token of the right shape keeps the shape of them all.
LEMMA ShapeAdded ==
  ASSUME ShapeInv, NEW s, NEW backing, AddToken(Token(s, backing)),
         s.roster \in Rosters, s.cores \in Seq(ToSet(s.cores)),
         \/ s.kind = "capsule" /\ Len(s.cores) = 1
         \/ s.kind = "case"
  PROVE  (IsFiniteSet(tokens) /\ \A t \in tokens : TokenShaped(t))'
<1>1. tokens' = tokens \cup {Token(s, backing)}
  BY DEF AddToken
<1>2. IsFiniteSet(tokens')
  BY <1>1, FS_AddElement DEF ShapeInv
<1>3. TokenShaped(Token(s, backing))
  BY TokenFields DEF TokenShaped
<1> QED BY <1>1, <1>2, <1>3 DEF ShapeInv

\* Whatever the steps, tokens, what is stored and what is bound have the
\* shapes of capsules and cases under rosters.
LEMMA NextShape ==
  ASSUME SealedAssumption, ShapeInv, [Next]_vars
  PROVE  ShapeInv'
<1>1. ASSUME NEW k \in Capsules, NEW roster \in Rosters, NEW ctx, VerifyCapsule(k, roster, ctx)
      PROVE  ShapeInv'
  <2> DEFINE s == Subject("capsule", <<CoreOf(k)>>, SecretOf[k], roster, ctx)
  <2>1. AddToken(Token(s, ProofBacked)) /\ stored' = stored /\ bound' = bound
    BY <1>1 DEF VerifyCapsule
  <2>2. s.roster = roster /\ s.cores = <<CoreOf(k)>> /\ s.kind = "capsule"
    BY SubjectFields
  <2> HIDE DEF s
  <2>3. s.cores \in Seq(ToSet(s.cores)) /\ Len(s.cores) = 1
    BY <2>2 DEF ToSet
  <2> QED BY <2>1, <2>2, <2>3, ShapeAdded DEF ShapeInv
<1>2. ASSUME NEW b \in Bundles, NEW roster \in Rosters, NEW ctx, VerifyCase(b, roster, ctx)
      PROVE  ShapeInv'
  <2> DEFINE cores == [h \in DOMAIN b |-> CoreOf(b[h])]
             s == Subject("case", cores, SumOfCommitments(cores), roster, ctx)
  <2>1. AddToken(Token(s, ProofBacked)) /\ stored' = stored /\ bound' = bound
    BY <1>2 DEF VerifyCase
  <2>2. s.roster = roster /\ s.cores = cores /\ s.kind = "case"
    BY SubjectFields
  <2>3. b \in Seq(Capsules)
    BY DEF SealedAssumption
  <2> HIDE DEF s
  <2>4. s.cores \in Seq(ToSet(s.cores))
    BY <2>2, <2>3 DEF ToSet
  <2> QED BY <2>1, <2>2, <2>4, ShapeAdded DEF ShapeInv
<1>3. ASSUME NEW t \in tokens, Strip(t) PROVE ShapeInv'
  <2>1. /\ tokens' = tokens /\ bound' = bound
        /\ stored' = [kind |-> t.subject.kind, cores |-> t.subject.cores]
        /\ t.subject.kind = "case" => MayStrip(t.subject.cores)
    BY <1>3 DEF Strip
  <2>2. TokenShaped(t)
    BY DEF ShapeInv
  <2>3. Shaped(stored')
    BY <2>1, <2>2 DEF TokenShaped, Shaped
  <2> QED BY <2>1, <2>3 DEF ShapeInv
<1>4. ASSUME NEW artifact \in Media, Replace(artifact) PROVE ShapeInv'
  BY <1>4 DEF Replace, ShapeInv, SealedAssumption
<1>5. ASSUME NEW expected, NEW roster \in Rosters, NEW ctx, Bind(expected, roster, ctx)
      PROVE  ShapeInv'
  <2> DEFINE s == Subject(stored.kind, stored.cores, expected, roster, ctx)
  <2>1. /\ tokens' = tokens /\ stored' = stored /\ bound' = s /\ SubjectBinds(s) /\ stored # None
    BY <1>5 DEF Bind
  <2>2. s.kind = stored.kind /\ s.cores = stored.cores /\ s.roster = roster
    BY SubjectFields
  <2> HIDE DEF s
  <2>3. Shaped(s)
    BY <2>1, <2>2 DEF ShapeInv, Shaped
  <2> QED BY <2>1, <2>2, <2>3 DEF ShapeInv
<1>6. ASSUME NEW key, NEW signature, Promote(key, signature) PROVE ShapeInv'
  <2>1. bound # None /\ AddToken(Token(bound, key)) /\ bound' = None /\ stored' = stored
    BY <1>6 DEF Promote
  <2>2. Shaped(bound) /\ bound.roster \in Rosters
    BY <2>1 DEF ShapeInv
  <2> QED BY <2>1, <2>2, ShapeAdded DEF ShapeInv, Shaped
<1>7. ASSUME UNCHANGED <<tokens, stored, bound>> PROVE ShapeInv'
  BY <1>7 DEF ShapeInv
<1> QED BY <1>1, <1>2, <1>3, <1>4, <1>5, <1>6, <1>7 DEF Next, Sign, Forge, vars

----------------------------------------------------------------------------
(* Rosters and what is sealed for them.                                    *)

KeyWeight(r) == RecipientWeight(r.recipient, r.gates)
Access(r) == WeightedAccessSum(r.recipient, r.gates)
Stakes(r) == [g \in r.gates |-> Times(GateWeight(r.recipient, r.gates, g), g)]

LEMMA RosterFacts ==
  ASSUME SealedAssumption, NEW r \in Rosters
  PROVE  /\ r.recipient \in Int /\ IsFiniteSet(r.gates) /\ r.gates # {}
         /\ \A g \in r.gates : g \in Scalars /\ g \in Int /\ g # 0
                               /\ GateWeight(r.recipient, r.gates, g) \in Int
         /\ KeyWeight(r) \in Int /\ Access(r) \in Int
         /\ Stakes(r) \in [r.gates -> Int]
         /\ SumFunction(Stakes(r)) \in Int /\ Same(SumFunction(Stakes(r)), Access(r))
         /\ BindingOf(r).recipient = r.recipient /\ BindingOf(r).gates = r.gates
         /\ BindingOf(r).recipientWeight = KeyWeight(r)
<1>1. /\ r.recipient \in Scalars
      /\ IsFiniteSet(r.gates) /\ r.gates # {} /\ r.gates \subseteq Scalars \ {0}
      /\ \A component \in r.gates \cup {r.recipient} :
           AggregationCoefficient(r.recipient, r.gates, component) \in Int
  BY DEF SealedAssumption, RostersAreSound
<1>2. Scalars \subseteq Int
  BY DEF Scalars
<1>3. \A g \in r.gates : g \in Scalars /\ g \in Int /\ g # 0
                         /\ GateWeight(r.recipient, r.gates, g) \in Int
  BY <1>1, <1>2 DEF GateWeight
<1>4. KeyWeight(r) \in Int
  BY <1>1 DEF KeyWeight, RecipientWeight
<1>5. Stakes(r) \in [r.gates -> Int]
  <2>1. ASSUME NEW g \in r.gates PROVE Times(GateWeight(r.recipient, r.gates, g), g) \in Int
    <3>1. PICK x \in Int, y \in Int : x = g /\ y = GateWeight(r.recipient, r.gates, g)
      BY <1>3
    <3> QED BY <1>2, <3>1, SameOperations
  <2> QED BY <2>1 DEF Stakes
<1>6. SumFunction(Stakes(r)) \in Int
  BY <1>1, <1>5, SumSplits
<1>7. Access(r) = SumFunction(Stakes(r)) % Order
  BY DEF Access, WeightedAccessSum, SumOver, Stakes
<1>8. PICK x \in Int : x = SumFunction(Stakes(r))
  BY <1>6
<1>9. PICK y \in Int : y = x % Order /\ Same(y, x)
  BY <1>2, SameReduces
<1>10. Same(x, y)
  BY <1>9, SameIsEquivalence
<1>11. /\ BindingOf(r).recipient = r.recipient /\ BindingOf(r).gates = r.gates
       /\ BindingOf(r).recipientWeight = KeyWeight(r)
  BY DEF BindingOf, OpeningBinding, KeyWeight
<1> QED BY <1>1, <1>2, <1>3, <1>4, <1>5, <1>6, <1>7, <1>8, <1>9, <1>10, <1>11

\* A sealed core holds its secret for its roster, and may be contributed to.
LEMMA SealedFacts ==
  ASSUME SealedAssumption, NEW k \in Capsules
  PROVE  LET r == RosterOf[k]
             core == CoreOf(k)
         IN  /\ r \in Rosters /\ SecretOf[k] \in Scalars
             /\ NoncesOf[k] \in [Limbs -> Int]
             /\ Holds(core, Decompose(SecretOf[k]), NoncesOf[k], KeyWeight(r), r.recipient, Access(r))
             /\ core.c = SecretOf[k] /\ core.e = NoncesOf[k]
             /\ core.e \in Seq(Int) /\ Len(core.e) = LimbCount
             /\ \A g \in r.gates : MayContribute(core, BindingOf(r), g)
<1> DEFINE r == RosterOf[k]
           core == CoreOf(k)
<1>1. r \in Rosters /\ SecretOf[k] \in Scalars /\ NoncesOf[k] \in [Limbs -> Scalars \ {0}]
  BY DEF SealedAssumption, CapsulesAreSealed
<1>2. /\ r.recipient \in Int /\ KeyWeight(r) \in Int /\ Access(r) \in Int
      /\ BindingOf(r).gates = r.gates
  BY <1>1, RosterFacts
<1>3. NoncesOf[k] \in [Limbs -> Scalars] /\ NoncesOf[k] \in [Limbs -> Int]
  BY <1>1 DEF Scalars
<1>4. /\ Holds(core, Decompose(SecretOf[k]), NoncesOf[k], KeyWeight(r), r.recipient, Access(r))
      /\ core.c = SecretOf[k] /\ core.e = NoncesOf[k]
      /\ core.e \in Seq(Int) /\ Len(core.e) = LimbCount
  BY <1>1, <1>2, <1>3, SealHolds DEF CoreOf, BindingOf, KeyWeight, Access
<1>5. ASSUME NEW g \in r.gates PROVE MayContribute(core, BindingOf(r), g)
  <2> HIDE DEF core, r
  <2>1. LimbCount \in Nat /\ Limbs = 1 .. LimbCount
    BY AlgebraAssumption DEF Limbs
  <2>2. \A j \in 1 .. LimbCount : core.e[j] # 0
    BY <1>1, <1>4, <2>1
  <2>3. PICK e \in Seq(Int) : e = core.e /\ Len(e) = LimbCount
    BY <1>4
  <2> DEFINE bases == <<1>> \o e
  <2>4. bases # <<>> /\ \A i \in DOMAIN bases : bases[i] # 0
    <3>1. /\ bases \in Seq(Int) /\ Len(bases) = LimbCount + 1 /\ bases[1] = 1
          /\ \A i \in 2 .. LimbCount + 1 : bases[i] = e[i - 1]
      BY <2>1, <2>3
    <3> HIDE DEF bases
    <3>2. \A i \in 2 .. LimbCount + 1 : i - 1 \in 1 .. LimbCount
      BY <2>1
    <3>3. \A i \in 1 .. LimbCount + 1 : i = 1 \/ i \in 2 .. LimbCount + 1
      BY <2>1
    <3>4. bases # <<>> /\ DOMAIN bases = 1 .. LimbCount + 1
      BY <2>1, <3>1
    <3> QED BY <2>2, <2>3, <3>1, <3>2, <3>3, <3>4
  <2>5. BasesAdmissible(DleqBases(core))
    BY <2>3, <2>4 DEF BasesAdmissible, DleqBases, Identity
  <2> QED BY <1>2, <2>5 DEF MayContribute
<1> QED BY <1>1, <1>3, <1>4, <1>5

----------------------------------------------------------------------------
(* The list of contributions.                                              *)

\* A finite set as a list: every element at one position.
Lists(L, S) ==
  /\ Cardinality(S) \in Nat
  /\ L \in [1 .. Cardinality(S) -> S]
  /\ \A i, j \in 1 .. Cardinality(S) : L[i] = L[j] => i = j
  /\ \A x \in S : \E i \in 1 .. Cardinality(S) : L[i] = x

LEMMA SetsAreListed ==
  ASSUME NEW S, IsFiniteSet(S)
  PROVE  Lists(SetToSeq(S), S)
<1> DEFINE D == 1 .. Cardinality(S)
<1>1. Cardinality(S) \in Nat /\ ExistsBijection(D, S)
  BY FS_CardinalityType
<1>2. PICK f : f \in Bijection(D, S)
  BY <1>1 DEF ExistsBijection
<1>3. f \in [D -> S] /\ IsInjective(f)
  BY <1>2 DEF Bijection, Injection, IsInjective
<1>4. SetToSeq(S) \in [D -> S] /\ IsInjective(SetToSeq(S))
  BY <1>3 DEF SetToSeq
<1> DEFINE L == SetToSeq(S)
<1>5. L \in Injection(D, S)
  BY <1>4 DEF Injection
<1>6. IsFiniteSet(D) /\ Cardinality(D) = Cardinality(S)
  <2>1. 1 \in Int /\ Cardinality(S) \in Int
    BY <1>1
  <2>2. IsFiniteSet(D) /\ Cardinality(D) = IF 1 > Cardinality(S) THEN 0 ELSE Cardinality(S) - 1 + 1
    BY <2>1, FS_Interval
  <2> QED BY <1>1, <2>2
<1> HIDE DEF D, L
<1>7. L \in Surjection(D, S)
  BY <1>5, <1>6, FS_Injection
<1>8. \A x \in S : \E i \in D : L[i] = x
  BY <1>7 DEF Surjection
<1>9. L \in [D -> S] /\ \A i, j \in D : L[i] = L[j] => i = j
  BY <1>4 DEF L, IsInjective
<1> QED BY <1>1, <1>8, <1>9 DEF Lists, D, L

\* The contributions to one trusted token.
OfToken(t) ==
  UNION {{Partial(core, BindingOf(t.subject.roster), gate, gate, t.subject.ctx, 0) :
            core \in ToSet(t.subject.cores)} : gate \in t.subject.roster.gates}

LEMMA ContributionsAreFinite ==
  ASSUME SealedAssumption, ShapeInv
  PROVE  IsFiniteSet(Contributions)
<1>1. ASSUME NEW t \in tokens PROVE IsFiniteSet(OfToken(t))
  <2> DEFINE gates == t.subject.roster.gates
             cores == ToSet(t.subject.cores)
             p(gate, core) == Partial(core, BindingOf(t.subject.roster), gate, gate, t.subject.ctx, 0)
             ofGate == [gate \in gates |-> {p(gate, core) : core \in cores}]
  <2>1. IsFiniteSet(gates)
    BY RosterFacts DEF ShapeInv, TokenShaped
  <2>2. IsFiniteSet(cores)
    <3>1. PICK s \in Seq(ToSet(t.subject.cores)) : s = t.subject.cores
      BY DEF ShapeInv, TokenShaped
    <3>2. Len(s) \in Nat /\ DOMAIN s = 1 .. Len(s)
      BY <3>1
    <3>3. Len(s) \in Int
      BY <3>2
    <3>4. IsFiniteSet(1 .. Len(s))
      BY <3>3, FS_Interval
    <3>5. s \in Surjection(1 .. Len(s), cores)
      BY <3>1, <3>2 DEF Surjection, ToSet
    <3> QED BY <3>4, <3>5, FS_Surjection
  <2>3. ASSUME NEW gate \in gates PROVE IsFiniteSet(ofGate[gate])
    <3> DEFINE f == [core \in cores |-> p(gate, core)]
    <3>1. f \in Surjection(cores, ofGate[gate])
      BY DEF Surjection
    <3> HIDE DEF f, ofGate, cores
    <3> QED BY <2>2, <3>1, FS_Surjection
  <2> DEFINE image == {ofGate[gate] : gate \in gates}
  <2>4. ofGate \in Surjection(gates, image)
    BY DEF Surjection
  <2>5. OfToken(t) = UNION image
    BY DEF OfToken
  <2>6. \A T \in image : IsFiniteSet(T)
    BY <2>3
  <2> HIDE DEF ofGate, image, gates
  <2>7. IsFiniteSet(image)
    BY <2>1, <2>4, FS_Surjection
  <2> QED BY <2>5, <2>6, <2>7, FS_UNION
<1> DEFINE trusted == {u \in tokens : Trusted(u)}
           of == [t \in trusted |-> OfToken(t)]
           all == {of[t] : t \in trusted}
<1>2. IsFiniteSet(trusted)
  BY FS_Subset DEF ShapeInv
<1>3. of \in Surjection(trusted, all)
  BY DEF Surjection
<1>4. Contributions = UNION all
  BY DEF Contributions, OfToken
<1>5. \A T \in all : IsFiniteSet(T)
  BY <1>1
<1> HIDE DEF of, all, trusted
<1>6. IsFiniteSet(all)
  BY <1>2, <1>3, FS_Surjection
<1> QED BY <1>4, <1>5, <1>6, FS_UNION

----------------------------------------------------------------------------
(* Whose contributions count.                                              *)

\* The cores of the trusted tokens of a roster and context.
Given(r, ctx) ==
  UNION {ToSet(t.subject.cores) :
           t \in {u \in tokens : Trusted(u) /\ u.subject.roster = r /\ u.subject.ctx = ctx}}

Own(core, r, ctx, gate) == Partial(core, BindingOf(r), gate, gate, ctx, 0)

\* What is given was sealed for the roster it is given under.
LEMMA GivenIsSealed ==
  ASSUME SealedAssumption, TrustedWereSealed, NEW r, NEW ctx, NEW core \in Given(r, ctx)
  PROVE  \E k \in Capsules : CoreOf(k) = core /\ RosterOf[k] = r
<1>1. PICK t \in tokens : /\ Trusted(t) /\ t.subject.roster = r /\ t.subject.ctx = ctx
                          /\ core \in ToSet(t.subject.cores)
  BY DEF Given
<1>2. PICK h \in DOMAIN t.subject.cores : core = t.subject.cores[h]
  BY <1>1 DEF ToSet
<1> QED BY <1>1, <1>2 DEF TrustedWereSealed

\* A holder's contribution to a given core is in the list and verifies.
LEMMA GivenIsContributed ==
  ASSUME SealedAssumption, TrustedWereSealed, NEW r \in Rosters, NEW ctx, NEW core \in Given(r, ctx),
         NEW gate \in r.gates
  PROVE  LET p == Own(core, r, ctx, gate)
         IN  /\ p \in Contributions /\ PartialVerifies(p, core, BindingOf(r), ctx)
             /\ p.gate = gate /\ p.w_g = gate
             /\ \A j \in Limbs : p.masks[j] = Times(gate, core.e[j])
<1>1. PICK k \in Capsules : CoreOf(k) = core /\ RosterOf[k] = r
  BY GivenIsSealed
<1>2. core.e \in Seq(Int) /\ Len(core.e) = LimbCount /\ MayContribute(core, BindingOf(r), gate)
  BY <1>1, SealedFacts
<1>3. gate \in Scalars
  BY RosterFacts
<1>4. PICK t \in tokens : /\ Trusted(t) /\ t.subject.roster = r /\ t.subject.ctx = ctx
                          /\ core \in ToSet(t.subject.cores)
  BY DEF Given
<1>5. Own(core, r, ctx, gate) \in Contributions
  BY <1>4 DEF Contributions, Own
<1>6. PartialVerifies(Own(core, r, ctx, gate), core, BindingOf(r), ctx)
  BY <1>2, <1>3, PartialVerifiesOwn DEF Own
<1>7. PICK none : none = 0
  OBVIOUS
<1> DEFINE p == Partial(core, BindingOf(r), gate, gate, ctx, none)
<1>8. /\ p.gate = gate /\ p.w_g = gate /\ \A j \in Limbs : p.masks[j] = Times(gate, core.e[j])
      /\ p.dleq.statement = [ bases |-> DleqBases(core), images |-> <<p.w_g>> \o p.masks,
                              binding |-> ContributionBinding(core, BindingOf(r), gate, ctx) ]
  BY <1>2, <1>3, PartialFields
<1> HIDE DEF p
<1> QED BY <1>5, <1>6, <1>7, <1>8 DEF Own, p

\* Nothing else in the list verifies: a proof names the core, the roster's
\* gates and aggregate key, its gate and its context.
LEMMA VerifiedIsOwn ==
  ASSUME SealedAssumption, ShapeInv, TrustedWereSealed, NEW p \in Contributions,
         NEW core, NEW r \in Rosters, NEW ctx, PartialVerifies(p, core, BindingOf(r), ctx)
  PROVE  core \in Given(r, ctx) /\ \E gate \in r.gates : p = Own(core, r, ctx, gate)
<1>1. PICK t \in tokens :
        /\ Trusted(t)
        /\ \E gate \in t.subject.roster.gates, c \in ToSet(t.subject.cores) :
             p = Partial(c, BindingOf(t.subject.roster), gate, gate, t.subject.ctx, 0)
  BY DEF Contributions
<1>0. PICK gate \in t.subject.roster.gates, c \in ToSet(t.subject.cores) :
        p = Partial(c, BindingOf(t.subject.roster), gate, gate, t.subject.ctx, 0)
  BY <1>1
<1> DEFINE s == t.subject.roster
<1>2. PICK h \in DOMAIN t.subject.cores : c = t.subject.cores[h]
  BY DEF ToSet
<1>3. PICK k \in Capsules : CoreOf(k) = c /\ RosterOf[k] = s
  BY <1>1, <1>2 DEF TrustedWereSealed
<1>4. /\ s \in Rosters /\ gate \in Scalars /\ BindingOf(s).gates = s.gates
      /\ BindingOf(r).gates = r.gates
  BY <1>1, <1>3, RosterFacts, SealedFacts
<1>5. c.e \in Seq(Int) /\ Len(c.e) = LimbCount
  BY <1>3, SealedFacts
<1> DEFINE own == ContributionBinding(c, BindingOf(s), gate, t.subject.ctx)
           asked == ContributionBinding(core, BindingOf(r), gate, ctx)
<1>6. p.gate = gate /\ p.dleq.statement.binding = own
  <2>1. PICK none : none = 0
    OBVIOUS
  <2> DEFINE q == Partial(c, BindingOf(s), gate, gate, t.subject.ctx, none)
  <2>2. /\ q.gate = gate
        /\ q.dleq.statement = [ bases |-> DleqBases(c), images |-> <<q.w_g>> \o q.masks, binding |-> own ]
    BY <1>4, <1>5, PartialFields
  <2> HIDE DEF q
  <2> QED BY <1>0, <2>1, <2>2 DEF q
<1>7. p.gate \in BindingOf(r).gates /\ p.dleq.statement.binding = asked
  BY <1>6 DEF PartialVerifies, ProofVerifies
<1>8. own = asked
  BY <1>6, <1>7
<1>9. /\ c = core /\ BindingOf(s).yStar = BindingOf(r).yStar
      /\ BindingOf(s).gates = BindingOf(r).gates /\ t.subject.ctx = ctx
  BY <1>8 DEF ContributionBinding
<1>10. s = r
  BY <1>4, <1>9 DEF SealedAssumption, RostersAreSound
<1>11. core \in Given(r, ctx)
  BY <1>1, <1>9, <1>10 DEF Given
<1> QED BY <1>0, <1>9, <1>10, <1>11 DEF Own

----------------------------------------------------------------------------
(* What is summed.                                                         *)

\* at is where the contribution of every gate stands, and A these positions.
Stand(at, A, L, core, r, ctx) ==
  /\ at \in [r.gates -> A]
  /\ \A gate \in r.gates : L[at[gate]] = Own(core, r, ctx, gate)
  /\ \A i \in A : \E gate \in r.gates : i = at[gate]

\* A core that is not given has nothing to be summed.
LEMMA NoneAccepted ==
  ASSUME SealedAssumption, ShapeInv, TrustedWereSealed, NEW L, Lists(L, Contributions),
         NEW core, NEW r \in Rosters, NEW ctx, core \notin Given(r, ctx)
  PROVE  Accepted(L, core, BindingOf(r), ctx) = {}
<1>1. ASSUME NEW i \in DOMAIN L PROVE ~PartialVerifies(L[i], core, BindingOf(r), ctx)
  BY VerifiedIsOwn DEF Lists
<1> QED BY <1>1 DEF Accepted

\* A given core has the contribution of every gate, once.
LEMMA EveryGateStands ==
  ASSUME SealedAssumption, ShapeInv, TrustedWereSealed, NEW L, Lists(L, Contributions),
         NEW r \in Rosters, NEW ctx, NEW core \in Given(r, ctx)
  PROVE  LET A == Accepted(L, core, BindingOf(r), ctx)
         IN  IsFiniteSet(A) /\ \E at : Stand(at, A, L, core, r, ctx)
<1> DEFINE n == Cardinality(Contributions)
           A == Accepted(L, core, BindingOf(r), ctx)
           at == [gate \in r.gates |-> CHOOSE i \in 1 .. n : L[i] = Own(core, r, ctx, gate)]
<1>1. /\ n \in Nat /\ DOMAIN L = 1 .. n
      /\ \A i \in 1 .. n : L[i] \in Contributions
      /\ \A i, k \in 1 .. n : L[i] = L[k] => i = k
      /\ \A p \in Contributions : \E i \in 1 .. n : L[i] = p
  BY DEF Lists
<1>2. \A k \in Nat : \A i \in 1 .. k - 1 : i # k /\ (k \in 1 .. n => i \in 1 .. n)
  BY <1>1
<1> HIDE DEF n
<1>3. A = {i \in 1 .. n : PartialVerifies(L[i], core, BindingOf(r), ctx)}
  <2>1. \A i \in 1 .. n : \A k \in 1 .. i - 1 : L[k] # L[i]
    <3> SUFFICES ASSUME NEW i \in 1 .. n, NEW k \in 1 .. i - 1, L[k] = L[i] PROVE FALSE
      OBVIOUS
    <3>1. k \in 1 .. n /\ k # i
      BY <1>1
    <3> QED BY <1>1, <3>1
  <2> QED BY <1>1, <2>1 DEF Accepted
<1>4. ASSUME NEW gate \in r.gates PROVE at[gate] \in A /\ L[at[gate]] = Own(core, r, ctx, gate)
  <2>1. /\ Own(core, r, ctx, gate) \in Contributions
        /\ PartialVerifies(Own(core, r, ctx, gate), core, BindingOf(r), ctx)
    BY GivenIsContributed
  <2>2. \E i \in 1 .. n : L[i] = Own(core, r, ctx, gate)
    BY <1>1, <2>1
  <2>3. at[gate] \in 1 .. n /\ L[at[gate]] = Own(core, r, ctx, gate)
    BY <2>2
  <2> HIDE DEF at, A
  <2> QED BY <1>3, <2>1, <2>3
<1>5. ASSUME NEW i \in A PROVE \E gate \in r.gates : i = at[gate]
  <2> HIDE DEF at, A
  <2>1. i \in 1 .. n /\ L[i] \in Contributions /\ PartialVerifies(L[i], core, BindingOf(r), ctx)
    BY <1>1, <1>3
  <2>2. PICK gate \in r.gates : L[i] = Own(core, r, ctx, gate)
    BY <2>1, VerifiedIsOwn
  <2>3. at[gate] \in 1 .. n /\ L[at[gate]] = L[i]
    BY <1>3, <1>4, <2>2
  <2> QED BY <1>1, <2>1, <2>3
<1>6. at \in [r.gates -> A]
  BY <1>4
<1>7. IsFiniteSet(A)
  <2> HIDE DEF A
  <2>1. n \in Int /\ 1 \in Int
    BY <1>1
  <2>2. IsFiniteSet(1 .. n)
    BY <2>1, FS_Interval
  <2>3. A \in SUBSET (1 .. n)
    BY <1>3
  <2> QED BY <2>2, <2>3, FS_Subset
<1> HIDE DEF at, A
<1> QED BY <1>4, <1>5, <1>6, <1>7 DEF Stand, A

\* Every bucket is that of its holder.
LEMMA GatesFill ==
  ASSUME SealedAssumption, TrustedWereSealed, NEW L, NEW r \in Rosters, NEW ctx,
         NEW core \in Given(r, ctx), NEW at, NEW A, Stand(at, A, L, core, r, ctx)
  PROVE  GatesQualify(L, A, BindingOf(r).gates)
<1>1. BindingOf(r).gates = r.gates
  BY RosterFacts
<1>2. \A gate \in r.gates : at[gate] \in A /\ L[at[gate]].gate = gate /\ L[at[gate]].w_g = gate
  BY GivenIsContributed DEF Stand
<1>3. ASSUME NEW gate \in r.gates
      PROVE  SumOver(LAMBDA i : L[i].w_g, {i \in A : L[i].gate = gate}) = gate
  <2>1. {i \in A : L[i].gate = gate} = {at[gate]}
    BY <1>2 DEF Stand
  <2> DEFINE f == [i \in {at[gate]} |-> L[i].w_g]
             D == {at[gate]}
  <2>2. SumOver(LAMBDA i : L[i].w_g, {i \in A : L[i].gate = gate}) = SumFunction(f) % Order
    BY <2>1 DEF SumOver
  <2>3. gate \in Int /\ gate \in Scalars /\ f \in [D -> Int] /\ f[at[gate]] = gate
    BY <1>2, RosterFacts
  <2>4. IsFiniteSet(D)
    BY FS_Singleton
  <2>5. [y \in D \ {at[gate]} |-> f[y]] \in [{} -> Int]
    OBVIOUS
  <2>6. SumFunction([y \in D \ {at[gate]} |-> f[y]]) = 0
    BY <2>5, SumEmpty
  <2>7. at[gate] \in D
    OBVIOUS
  <2> HIDE DEF f, D
  <2>8. SumFunction(f) = f[at[gate]] + SumFunction([y \in D \ {at[gate]} |-> f[y]])
    BY <2>3, <2>4, <2>7, SumSplits
  <2>9. SumFunction(f) = gate
    BY <2>3, <2>6, <2>8
  <2> QED BY <2>2, <2>3, <2>9, SameReduces
<1> QED BY <1>1, <1>3 DEF GatesQualify

\* The masks are those of the roster's weighted sum, whatever the order.
LEMMA MasksAreTheRosters ==
  ASSUME SealedAssumption, TrustedWereSealed, NEW L, NEW r \in Rosters, NEW ctx,
         NEW core \in Given(r, ctx), NEW at, NEW A, IsFiniteSet(A), Stand(at, A, L, core, r, ctx)
  PROVE  Masked(AccessMasks(L, A, BindingOf(r)), core.e, Access(r))
<1>1. PICK k \in Capsules : CoreOf(k) = core /\ RosterOf[k] = r
  BY GivenIsSealed
<1>2. core.e \in [Limbs -> Int]
  BY <1>1, SealedFacts
<1>3. /\ IsFiniteSet(r.gates) /\ Access(r) \in Int
      /\ Stakes(r) \in [r.gates -> Int] /\ SumFunction(Stakes(r)) \in Int
      /\ Same(SumFunction(Stakes(r)), Access(r))
      /\ BindingOf(r).recipient = r.recipient /\ BindingOf(r).gates = r.gates
  BY RosterFacts
<1>4. ASSUME NEW j \in Limbs
      PROVE  LET mask == AccessMasks(L, A, BindingOf(r))[j]
             IN  mask \in Int /\ Same(mask, core.e[j] * Access(r))
  <2>1. PICK e \in Int : e = core.e[j]
    BY <1>2
  <2> DEFINE weight(gate) == GateWeight(r.recipient, r.gates, gate)
             f == [i \in A |-> Times(L[i].masks[j], weight(L[i].gate))]
             g == [gate \in r.gates |-> Times(Times(gate, e), weight(gate))]
  <2>2. AccessMasks(L, A, BindingOf(r))[j] = SumFunction(f) % Order
    BY <1>3 DEF AccessMasks, SumOver
  <2>3. ASSUME NEW gate \in r.gates
        PROVE  /\ g[gate] \in Int /\ Same(g[gate], e * Stakes(r)[gate])
               /\ g[gate] = f[at[gate]]
    <3>1. PICK x \in Int, w \in Int : x = gate /\ w = weight(gate)
      BY RosterFacts
    <3>2. PICK a \in Int, b \in Int, c \in Int, d \in Int :
            a = x * e /\ b = a * w /\ c = w * x /\ d = e * c
      OBVIOUS
    <3>3. Same(x, x) /\ Same(e, e) /\ Same(w, w)
      BY SameIsEquivalence
    <3>4. PICK m \in Int : m = Times(x, e) /\ Same(m, a)
      BY <3>2, <3>3, SameThrough
    <3>5. PICK y \in Int : y = Times(m, w) /\ Same(y, b)
      BY <3>2, <3>3, <3>4, SameThrough
    <3>6. PICK s \in Int : s = Times(w, x) /\ Same(s, c)
      BY <3>2, <3>3, SameThrough
    <3>7. Same(c, s)
      BY <3>6, SameIsEquivalence
    <3>8. PICK q \in Int : q = e * s
      OBVIOUS
    <3>9. Same(d, q)
      BY <3>2, <3>3, <3>7, <3>8, SameArithmetic
    <3>10. b = d
      BY <3>2
    <3>11. Same(y, q)
      BY <3>5, <3>9, <3>10, SameIsEquivalence
    <3>12. g[gate] = y /\ Stakes(r)[gate] = s
      BY <3>1, <3>4, <3>5, <3>6 DEF Stakes
    <3>13. g[gate] = f[at[gate]]
      <4>1. at[gate] \in A /\ L[at[gate]].gate = gate /\ L[at[gate]].masks[j] = Times(gate, e)
        BY <2>1, GivenIsContributed DEF Stand
      <4> QED BY <4>1
    <3> HIDE DEF f, g
    <3> QED BY <3>8, <3>11, <3>12, <3>13
  <2>4. g \in [r.gates -> Int]
    BY <2>3
  <2>5. SumFunction(g) = SumFunction(f)
    <3>1. at \in [r.gates -> A] /\ \A gate \in r.gates : L[at[gate]].gate = gate
      BY GivenIsContributed DEF Stand
    <3>2. /\ \A x, y \in r.gates : at[x] = at[y] => x = y
          /\ \A i \in A : \E x \in r.gates : at[x] = i
      BY <3>1 DEF Stand
    <3>3. f \in [A -> Int]
      <4> SUFFICES ASSUME NEW i \in A PROVE f[i] \in Int
        OBVIOUS
      <4>1. PICK gate \in r.gates : at[gate] = i
        BY <3>2
      <4> HIDE DEF f, g
      <4> QED BY <2>3, <4>1
    <3> HIDE DEF f, g
    <3>4. Renames(at, g, r.gates, f, A)
      BY <2>3, <2>4, <3>1, <3>2, <3>3 DEF Renames
    <3> QED BY <1>3, <3>4, SumReindexed
  <2> HIDE DEF f, g
  <2>6. PICK x \in Int, y \in Int, a \in Int :
          x = SumFunction(f) /\ y = SumFunction(Stakes(r)) /\ a = Access(r) /\ Same(y, a)
          /\ Same(x, e * y)
    <3>1. SumFunction(g) \in Int /\ Same(SumFunction(g), e * SumFunction(Stakes(r)))
      BY <1>3, <2>3, <2>4, SumScales
    <3> QED BY <1>3, <2>5, <3>1
  <2>7. PICK m \in Scalars : m = x % Order /\ Same(m, x)
    BY SameReduces
  <2>8. m \in Int
    BY DEF Scalars
  <2>9. PICK c \in Int, d \in Int : c = e * y /\ d = e * a
    OBVIOUS
  <2>10. Same(e, e)
    BY SameIsEquivalence
  <2>11. Same(c, d)
    BY <2>6, <2>9, <2>10, SameArithmetic
  <2>12. Same(m, c)
    BY <2>6, <2>7, <2>8, <2>9, SameIsEquivalence
  <2>13. Same(m, d)
    BY <2>8, <2>11, <2>12, SameIsEquivalence
  <2> QED BY <2>1, <2>2, <2>6, <2>7, <2>8, <2>9, <2>13
<1> QED BY <1>4 DEF Masked

----------------------------------------------------------------------------
(* What opens.                                                             *)

\* Without contributions no gate qualifies.
LEMMA EmptyFails ==
  ASSUME SealedAssumption, NEW L, NEW r \in Rosters
  PROVE  ~GatesQualify(L, {}, BindingOf(r).gates)
<1>1. PICK gate \in r.gates : gate \in Int /\ gate # 0
  BY RosterFacts
<1>2. SumOver(LAMBDA i : L[i].w_g, {i \in {} : L[i].gate = gate}) = 0
  <2> DEFINE f == [i \in {} |-> L[i].w_g]
  <2>1. SumOver(LAMBDA i : L[i].w_g, {i \in {} : L[i].gate = gate}) = SumFunction(f) % Order
    BY DEF SumOver
  <2>2. f \in [{} -> Int]
    OBVIOUS
  <2> HIDE DEF f
  <2>3. SumFunction(f) = 0
    BY <2>2, SumEmpty
  <2>4. 0 \in Scalars
    BY AlgebraAssumption DEF Scalars
  <2>5. 0 \in Int
    OBVIOUS
  <2>6. 0 % Order = 0
    BY <2>4, <2>5, SameReduces
  <2> QED BY <2>1, <2>3, <2>6
<1>3. BindingOf(r).gates = r.gates
  BY RosterFacts
<1> QED BY <1>1, <1>2, <1>3 DEF GatesQualify

\* Every gate of a given core qualifies, with the roster's masks.
LEMMA GivenFills ==
  ASSUME SealedAssumption, ShapeInv, TrustedWereSealed, NEW L, Lists(L, Contributions),
         NEW r \in Rosters, NEW ctx, NEW core \in Given(r, ctx)
  PROVE  LET A == Accepted(L, core, BindingOf(r), ctx)
         IN  /\ GatesQualify(L, A, BindingOf(r).gates)
             /\ Masked(AccessMasks(L, A, BindingOf(r)), core.e, Access(r))
<1> DEFINE A == Accepted(L, core, BindingOf(r), ctx)
<1>1. IsFiniteSet(A) /\ \E at : Stand(at, A, L, core, r, ctx)
  BY EveryGateStands
<1> HIDE DEF A
<1>2. PICK at : Stand(at, A, L, core, r, ctx)
  BY <1>1
<1>3. GatesQualify(L, A, BindingOf(r).gates)
  BY <1>2, GatesFill
<1>4. Masked(AccessMasks(L, A, BindingOf(r)), core.e, Access(r))
  BY <1>1, <1>2, MasksAreTheRosters
<1> QED BY <1>3, <1>4 DEF A

\* A capsule opens to its commitment if it is given, and not at all if not.
LEMMA CapsuleOpens ==
  ASSUME SealedAssumption, ShapeInv, TrustedWereSealed, NEW L, Lists(L, Contributions),
         NEW r \in Rosters, NEW ctx, NEW core
  PROVE  OpenCore(core, BindingOf(r), r.recipient, L, ctx, LimbModulus)
           = IF core \in Given(r, ctx) THEN core.c ELSE Failed
<1> DEFINE A == Accepted(L, core, BindingOf(r), ctx)
           masks == AccessMasks(L, A, BindingOf(r))
<1>1. OpenCore(core, BindingOf(r), r.recipient, L, ctx, LimbModulus)
        = IF GatesQualify(L, A, BindingOf(r).gates)
            THEN OpenWithAccessMasks(core, BindingOf(r), r.recipient, masks, LimbModulus)
            ELSE Failed
  BY DEF OpenCore
<1>2. CASE core \notin Given(r, ctx)
  <2>1. A = {}
    BY <1>2, NoneAccepted
  <2> QED BY <1>1, <1>2, <2>1, EmptyFails
<1>3. CASE core \in Given(r, ctx)
  <2>1. GatesQualify(L, A, BindingOf(r).gates) /\ Masked(masks, core.e, Access(r))
    BY <1>3, GivenFills
  <2>2. PICK k \in Capsules : CoreOf(k) = core /\ RosterOf[k] = r
    BY <1>3, GivenIsSealed
  <2> DEFINE v == Decompose(SecretOf[k])
             nonces == NoncesOf[k]
             w == KeyWeight(r)
             a == Access(r)
             x == r.recipient
  <2>3. Holds(core, v, nonces, w, x, a) /\ core.e = nonces /\ nonces \in [Limbs -> Int]
    BY <2>2, SealedFacts
  <2>4. v \in [Limbs -> 0 .. LimbModulus - 1]
    <3>1. SecretOf[k] \in Scalars
      BY SealedFacts
    <3> QED BY <3>1, IntegerOfDigits
  <2>5. w \in Int /\ a \in Int /\ x \in Int /\ BindingOf(r).recipientWeight = w
    BY RosterFacts
  <2>6. LimbModulus \in Nat /\ LimbModulus <= Order
    BY AlgebraAssumption
  <2>7. Masked(masks, nonces, a)
    BY <2>1, <2>3
  <2> HIDE DEF v, nonces, w, a, x, masks, A
  <2>8. OpenWithAccessMasks(core, BindingOf(r), x, masks, LimbModulus) = core.c
    BY <2>3, <2>4, <2>5, <2>6, <2>7, MasksOpen
  <2> QED BY <1>1, <1>3, <2>1, <2>8 DEF x
<1> QED BY <1>2, <1>3

\* The capsules that the pieces of a case are, sealed for its roster.
Pieces(names, cores, n, r) ==
  /\ names \in [1 .. n -> Capsules]
  /\ DOMAIN cores = 1 .. n
  /\ \A h \in 1 .. n : cores[h] = CoreOf(names[h]) /\ RosterOf[names[h]] = r

DigitsOf(names, n) == [h \in 1 .. n |-> Decompose(SecretOf[names[h]])]
Ephemerals(names, n) == [h \in 1 .. n |-> NoncesOf[names[h]]]

LEMMA PieceFacts ==
  ASSUME SealedAssumption, NEW n \in Nat, NEW names, NEW cores, NEW r \in Rosters,
         Pieces(names, cores, n, r)
  PROVE  PiecesHold(n, cores, DigitsOf(names, n), Ephemerals(names, n), KeyWeight(r), r.recipient, Access(r))
<1>1. ASSUME NEW h \in 1 .. n
      PROVE  /\ Decompose(SecretOf[names[h]]) \in [Limbs -> 0 .. LimbModulus - 1]
             /\ NoncesOf[names[h]] \in [Limbs -> Int]
             /\ Holds(cores[h], Decompose(SecretOf[names[h]]), NoncesOf[names[h]],
                      KeyWeight(r), r.recipient, Access(r))
             /\ cores[h].c = Integer(Decompose(SecretOf[names[h]])) /\ cores[h].e = NoncesOf[names[h]]
  <2>1. PICK k \in Capsules : k = names[h] /\ cores[h] = CoreOf(k) /\ RosterOf[k] = r
    BY DEF Pieces
  <2>2. SecretOf[k] \in Scalars
    BY SealedFacts
  <2> QED BY <2>1, <2>2, SealedFacts, IntegerOfDigits
<1>2. /\ DigitsOf(names, n) \in [1 .. n -> [Limbs -> 0 .. LimbModulus - 1]]
      /\ Ephemerals(names, n) \in [1 .. n -> [Limbs -> Int]]
  BY <1>1 DEF DigitsOf, Ephemerals
<1>3. KeyWeight(r) \in Int /\ r.recipient \in Int /\ Access(r) \in Int
  BY RosterFacts
<1> QED BY <1>1, <1>2, <1>3 DEF PiecesHold, DigitsOf, Ephemerals

\* A case that binds opens to its commitment if every piece is given, and
\* not at all if one is not.
LEMMA CaseOpens ==
  ASSUME SealedAssumption, ShapeInv, TrustedWereSealed, NEW L, Lists(L, Contributions),
         NEW r \in Rosters, NEW ctx, NEW cores, NEW commitment,
         cores \in Seq(ToSet(cores)), MayStrip(cores), BindAccepts(cores, commitment)
  PROVE  /\ BoundUnsealed(cores, commitment, BindingOf(r), r.recipient, L, ctx)
              = IF ToSet(cores) \subseteq Given(r, ctx) THEN commitment ELSE Failed
         /\ ToSet(cores) \subseteq Given(r, ctx) => commitment \in Scalars
<1> DEFINE n == Len(cores)
           qualified == [h \in DOMAIN cores |-> Accepted(L, cores[h], BindingOf(r), ctx)]
           aggregate == AggregateCore(cores, commitment)
           M == [h \in DOMAIN cores |-> AccessMasks(L, qualified[h], BindingOf(r))]
           masks == [j \in Limbs |-> SumOver(LAMBDA h : M[h][j], DOMAIN cores)]
           qualify == \A h \in DOMAIN cores : GatesQualify(L, qualified[h], BindingOf(r).gates)
<1>1. n \in Nat \ {0} /\ n \in 1 .. CasePieceCap /\ DOMAIN cores = 1 .. n
  <2>1. n \in Nat /\ DOMAIN cores = 1 .. n
    OBVIOUS
  <2>2. n \in 1 .. CasePieceCap
    BY DEF MayStrip
  <2> QED BY <2>1, <2>2
<1>2. BoundUnsealed(cores, commitment, BindingOf(r), r.recipient, L, ctx)
        = IF qualify /\ ~DegenerateMask(aggregate.e)
            THEN OpenWithAccessMasks(aggregate, BindingOf(r), r.recipient, masks, SummedLimbBound(cores))
            ELSE Failed
  <2>1. masks = [j \in Limbs |->
                   SumOver(LAMBDA h : AccessMasks(L, qualified[h], BindingOf(r))[j], DOMAIN cores)]
    BY DEF SumOver
  <2> QED BY <2>1 DEF BoundUnsealed
<1> HIDE DEF n
<1>3. CASE ~(ToSet(cores) \subseteq Given(r, ctx))
  <2>1. PICK h \in DOMAIN cores : cores[h] \notin Given(r, ctx)
    BY <1>3 DEF ToSet
  <2>2. qualified[h] = {}
    BY <2>1, NoneAccepted
  <2>3. ~qualify
    BY <2>2, EmptyFails
  <2> QED BY <1>2, <1>3, <2>3
<1>4. CASE ToSet(cores) \subseteq Given(r, ctx)
  <2>1. \A h \in 1 .. n : cores[h] \in Given(r, ctx)
    BY <1>1, <1>4 DEF ToSet
  <2>2. ASSUME NEW h \in 1 .. n
        PROVE  /\ GatesQualify(L, qualified[h], BindingOf(r).gates)
               /\ Masked(M[h], cores[h].e, Access(r))
    BY <1>1, <2>1, GivenFills
  <2> DEFINE names == [h \in 1 .. n |-> CHOOSE k \in Capsules : CoreOf(k) = cores[h] /\ RosterOf[k] = r]
  <2>3. Pieces(names, cores, n, r)
    <3>1. \A h \in 1 .. n : \E k \in Capsules : CoreOf(k) = cores[h] /\ RosterOf[k] = r
      BY <2>1, GivenIsSealed
    <3>2. \A h \in 1 .. n : /\ names[h] \in Capsules
                            /\ CoreOf(names[h]) = cores[h] /\ RosterOf[names[h]] = r
      BY <3>1
    <3>3. names \in [1 .. n -> Capsules]
      BY <3>2
    <3> HIDE DEF names
    <3> QED BY <1>1, <3>2, <3>3 DEF Pieces
  <2> HIDE DEF names
  <2>4. commitment = SumOfCommitments(cores)
    BY DEF BindAccepts
  <2>5. ~DegenerateMask(aggregate.e)
    <3>1. cores = [h \in 1 .. n |-> CoreOf(names[h])]
      BY <1>1, <2>3 DEF Pieces
    <3>2. names \in [1 .. n -> Capsules]
      BY <2>3 DEF Pieces
    <3>3. ~DegenerateMask(AggregateCore(cores, 0).e)
      BY <1>1, <2>4, <3>1, <3>2 DEF SealedAssumption, SumsAreGeneric
    <3>4. AggregateCore(cores, 0).e = aggregate.e
      BY DEF AggregateCore
    <3> QED BY <3>3, <3>4
  <2> DEFINE V == DigitsOf(names, n)
             R == Ephemerals(names, n)
             v == Total(n, V)
             s == Total(n, R)
             w == KeyWeight(r)
             a == Access(r)
             x == r.recipient
  <2>14. PiecesHold(n, cores, V, R, w, x, a) /\ n \in Nat /\ n # 0
    BY <1>1, <2>3, PieceFacts
  <2>15. SumsTo(n, cores, aggregate)
    BY <1>1, <2>4 DEF SumsTo, AggregateCore, SumOfCommitments, SumOver
  <2>6. Holds(aggregate, v, s, w, x, a)
    <3> HIDE DEF aggregate, w, x, a, V, R
    <3> QED BY <2>14, <2>15, SumHolds
  <2>7. Masked(masks, s, a)
    <3>1. \A h \in 1 .. n : Masked(M[h], R[h], a)
      BY <2>2, <2>14 DEF PiecesHold
    <3>3. \A j \in Limbs : masks[j] = SumFunction([h \in 1 .. n |-> M[h][j]]) % Order
      BY <1>1 DEF SumOver
    <3> HIDE DEF M, masks, V, R, w, x, a
    <3> QED BY <2>14, <3>1, <3>3, SumMasked
  <2>8. PICK limit \in Nat : limit = SummedLimbBound(cores) /\ limit = n * LimbModulus /\ limit <= Order
    <3>1. CasePieceCap * LimbModulus <= Order
      BY DEF SealedAssumption, SumsAreGeneric
    <3>2. LimbModulus \in Nat /\ CasePieceCap \in Nat /\ n <= CasePieceCap /\ Order \in Nat
      BY <1>1, AlgebraAssumption, CaseCapAssumption
    <3>3. n * LimbModulus <= CasePieceCap * LimbModulus /\ n * LimbModulus \in Nat
          /\ CasePieceCap * LimbModulus \in Nat
      BY <1>1, <3>2
    <3>4. SummedLimbBound(cores) = n * LimbModulus
      BY DEF SummedLimbBound, n
    <3>5. PICK c \in Nat, d \in Nat : c = n * LimbModulus /\ d = CasePieceCap * LimbModulus /\ c <= d
      BY <3>3
    <3>6. c <= Order
      BY <3>1, <3>2, <3>5
    <3> QED BY <3>4, <3>5, <3>6
  <2>9. v \in [Limbs -> 0 .. limit - 1] /\ s \in [Limbs -> Int]
    <3> HIDE DEF V, R, w, x, a
    <3> QED BY <2>8, <2>14, TotalTypes
  <2>10. w \in Int /\ a \in Int /\ x \in Int /\ BindingOf(r).recipientWeight = w
    BY RosterFacts
  <2>11. aggregate.c = commitment /\ commitment \in Scalars
    BY <2>6 DEF AggregateCore, Holds
  <2>12. qualify
    BY <1>1, <2>2
  <2> HIDE DEF v, s, w, a, x, masks, aggregate, qualify
  <2>13. OpenWithAccessMasks(aggregate, BindingOf(r), x, masks, limit) = aggregate.c
    BY <2>6, <2>7, <2>8, <2>9, <2>10, MasksOpen
  <2> QED BY <1>2, <1>4, <2>5, <2>8, <2>11, <2>12, <2>13 DEF x
<1> QED BY <1>3, <1>4

\* The contributions to trusted tokens open a bound capsule or case exactly
\* when every core of it is one of theirs, and to nothing but its commitment
\* (stripped.rs, BoundCapsule::unseal and BoundCase::unseal).
THEOREM TrustOpens ==
  ASSUME SealedAssumption
  PROVE  Spec => []BoundOpensIffTrusted
<1>1. Init => ShapeInv
  BY FS_EmptySet DEF Init, ShapeInv
<1>2. ShapeInv /\ [Next]_vars => ShapeInv'
  BY NextShape
<1>3. TrustedWereSealed /\ ShapeInv => BoundOpensIffTrusted
  <2> SUFFICES ASSUME TrustedWereSealed, ShapeInv, bound # None
               PROVE  /\ Unsealed(bound) # Failed <=> ToSet(bound.cores) \subseteq Given(bound.roster, bound.ctx)
                      /\ Unsealed(bound) \in {Failed, bound.commitment}
    BY DEF BoundOpensIffTrusted, Given
  <2> DEFINE L == SetToSeq(Contributions)
             r == bound.roster
             ctx == bound.ctx
  <2>1. Shaped(bound) /\ r \in Rosters /\ SubjectBinds(bound)
    BY DEF ShapeInv
  <2>2. Lists(L, Contributions)
    BY ContributionsAreFinite, SetsAreListed
  <2>3. Unsealed(bound) = SubjectUnsealed(bound, r.recipient, L)
    BY DEF Unsealed
  <2> HIDE DEF L
  <2>4. CASE bound.kind = "capsule" /\ Len(bound.cores) = 1
    <3> DEFINE core == bound.cores[1]
    <3>1. Unsealed(bound) = OpenCore(core, BindingOf(r), r.recipient, L, ctx, LimbModulus)
      BY <2>3, <2>4 DEF SubjectUnsealed
    <3>2. core.c = bound.commitment
      BY <2>1, <2>4 DEF SubjectBinds, CapsuleBinds
    <3>3. ToSet(bound.cores) = {core}
      BY <2>1, <2>4 DEF Shaped, ToSet
    <3>4. OpenCore(core, BindingOf(r), r.recipient, L, ctx, LimbModulus)
            = IF core \in Given(r, ctx) THEN core.c ELSE Failed
      BY <2>1, <2>2, CapsuleOpens
    <3>5. core \in Given(r, ctx) => core.c # Failed
      <4> SUFFICES ASSUME core \in Given(r, ctx) PROVE core.c # Failed
        OBVIOUS
      <4>1. PICK k \in Capsules : CoreOf(k) = core
        BY GivenIsSealed
      <4>2. core.c = SecretOf[k] /\ SecretOf[k] \in Scalars
        BY <4>1, SealedFacts
      <4> QED BY <4>2 DEF Scalars, Failed
    <3> QED BY <3>1, <3>2, <3>3, <3>4, <3>5
  <2>5. CASE bound.kind = "case" /\ MayStrip(bound.cores)
    <3> DEFINE cores == bound.cores
               c == bound.commitment
    <3>1. Unsealed(bound) = BoundUnsealed(cores, c, BindingOf(r), r.recipient, L, ctx)
      BY <2>3, <2>5 DEF SubjectUnsealed
    <3>2. BindAccepts(cores, c) /\ cores \in Seq(ToSet(cores))
      BY <2>1, <2>5 DEF SubjectBinds, Shaped
    <3>3. /\ BoundUnsealed(cores, c, BindingOf(r), r.recipient, L, ctx)
               = IF ToSet(cores) \subseteq Given(r, ctx) THEN c ELSE Failed
          /\ ToSet(cores) \subseteq Given(r, ctx) => c \in Scalars
      BY <2>1, <2>2, <2>5, <3>2, CaseOpens
    <3>4. ToSet(cores) \subseteq Given(r, ctx) => c # Failed
      BY <3>3 DEF Scalars, Failed
    <3> QED BY <3>1, <3>3, <3>4
  <2> QED BY <2>1, <2>4, <2>5 DEF Shaped
<1> QED BY <1>1, <1>2, <1>3, TrustIsEarned, PTL DEF Spec

----------------------------------------------------------------------------
(* ContextBinding: a token and the context of its proof.  A call is under  *)
(* way, and a token exists, only once the capsule is sealed, and the       *)
(* sealed context never changes after that.                                *)

BindingInv ==
  /\ call # "none" => sealedIn # Absent
  /\ token # Absent => sealedIn # Absent
  /\ VerifiedUnderItsProof

\* However the caller's object changes during verify, the token carries the
\* context the proof was checked under (capsule.rs, verify).
THEOREM FrozenContext == ContextSpec => []VerifiedUnderItsProof
<1>1. ContextInit => BindingInv
  BY DEF ContextInit, BindingInv, VerifiedUnderItsProof
<1>2. BindingInv /\ [ContextNext]_contextVars => BindingInv'
  <2> SUFFICES ASSUME BindingInv, [ContextNext]_contextVars
               PROVE  BindingInv'
    OBVIOUS
  <2>1. ASSUME NEW ctx \in Payloads, Change(ctx) PROVE BindingInv'
    BY <2>1 DEF Change, BindingInv, VerifiedUnderItsProof
  <2>2. ASSUME NEW ctx \in Payloads, Seal(ctx) PROVE BindingInv'
    <3>1. token = Absent /\ call = "none"
      BY <2>2 DEF Seal, BindingInv
    <3> QED BY <2>2, <3>1 DEF Seal, BindingInv, VerifiedUnderItsProof
  <2>3. CASE BeginVerify \/ BeginBind
    BY <2>3 DEF BeginVerify, BeginBind, Begin, BindingInv, VerifiedUnderItsProof
  <2>4. CASE EndVerify
    <3>1. sealedIn # Absent /\ sealedIn' = sealedIn /\ call' = "none"
      BY <2>4 DEF EndVerify, End, BindingInv
    <3>2. token' = token \/ token' = ContextToken("verify", sealedIn)
      BY <2>4 DEF EndVerify, ProvenUnder
    <3> QED BY <3>1, <3>2 DEF BindingInv, VerifiedUnderItsProof, ContextToken
  <2>5. CASE EndBind
    <3>1. sealedIn # Absent /\ sealedIn' = sealedIn /\ call' = "none"
      BY <2>5 DEF EndBind, End, BindingInv
    <3>2. token'.from = "bind"
      BY <2>5 DEF EndBind, ContextToken
    <3> QED BY <3>1, <3>2 DEF BindingInv, VerifiedUnderItsProof
  <2>6. CASE UNCHANGED contextVars
    BY <2>6 DEF contextVars, BindingInv, VerifiedUnderItsProof
  <2> QED BY <2>1, <2>2, <2>3, <2>4, <2>5, <2>6 DEF ContextNext, Calls
<1>3. BindingInv => VerifiedUnderItsProof
  BY DEF BindingInv
<1> QED BY <1>1, <1>2, <1>3, PTL DEF ContextSpec

----------------------------------------------------------------------------
(* Schnorr: points and their bytes.  Of the two points of an abscissa one  *)
(* has even y, so the byte and the abscissa tell every point apart.        *)

LEMMA PointFacts ==
  ASSUME NEW p \in 1 .. N - 1
  PROVE  /\ Negative(p) = N - p /\ N - p \in 1 .. N - 1 /\ N - p # p
         /\ Abscissa(p) \in 1 .. (N - 1) \div 2
         /\ Abscissa(p) \in {p, N - p} /\ Abscissa(N - p) = Abscissa(p)
         /\ EvenY(p) \in BOOLEAN /\ EvenY(p) # EvenY(N - p)
<1>1. N \in Nat \ {0, 1, 2} /\ EvenY(p) \in BOOLEAN /\ EvenY(p) # EvenY(N - p)
  BY CodecAssumption
<1>2. N - p \in 1 .. N - 1
  BY <1>1
<1>3. Negative(p) = N - p
  <2>1. (N * 0 + (N - p)) % N = N - p
    BY <1>1, <1>2, DivisionUnique, SMTT(60)
  <2>2. N * 0 + (N - p) = N - p
    BY <1>1
  <2> QED BY <2>1, <2>2 DEF Negative
<1>4. N - p # p
  BY <1>1
<1>5. Abscissa(p) \in {p, N - p} /\ Abscissa(N - p) = Abscissa(p)
  BY <1>1, <1>4 DEF Abscissa
<1>6. Abscissa(p) \in Int /\ 1 <= Abscissa(p) /\ Abscissa(p) + Abscissa(p) <= N - 1
  BY <1>1, <1>4 DEF Abscissa
<1>7. \A x \in Int : x + x <= N - 1 => x <= (N - 1) \div 2
  BY <1>1
<1>8. Abscissa(p) \in 1 .. (N - 1) \div 2
  BY <1>1, <1>6, <1>7
<1> QED BY <1>1, <1>2, <1>3, <1>4, <1>5, <1>8

\* Points of one abscissa and one parity are equal.
LEMMA PointUnique ==
  ASSUME NEW p \in 1 .. N - 1, NEW q \in 1 .. N - 1,
         Abscissa(p) = Abscissa(q), EvenY(p) = EvenY(q)
  PROVE  p = q
<1>1. /\ Abscissa(p) \in {p, N - p} /\ Abscissa(q) \in {q, N - q}
      /\ EvenY(p) # EvenY(N - p)
  BY PointFacts
<1>2. N \in Nat
  BY CodecAssumption
<1>3. p = q \/ p = N - q
  BY <1>1, <1>2
<1>4. p = N - q => q = N - p
  BY <1>2
<1> QED BY <1>1, <1>3, <1>4

LEMMA LiftFacts ==
  ASSUME NEW x, OnCurve(x)
  PROVE  /\ Lift(x) \in 1 .. N - 1 /\ Abscissa(Lift(x)) = x /\ EvenY(Lift(x)) = TRUE
         /\ \A p \in 1 .. N - 1 : Abscissa(p) = x /\ EvenY(p) => Lift(x) = p
<1>1. N \in Nat \ {0, 1, 2} /\ x \in Int /\ 1 <= x /\ x <= (N - 1) \div 2
  BY CodecAssumption DEF OnCurve
<1>2. x + x <= N - 1
  <2>1. \A k \in Int : k <= (N - 1) \div 2 => k + k <= N - 1
    BY <1>1
  <2> QED BY <1>1, <2>1
<1>3. x \in 1 .. N - 1 /\ N - x \in 1 .. N - 1 /\ Abscissa(x) = x
  BY <1>1, <1>2 DEF Abscissa
<1>4. Abscissa(N - x) = x /\ EvenY(x) \in BOOLEAN /\ EvenY(N - x) \in BOOLEAN /\ EvenY(x) # EvenY(N - x)
  BY <1>3, PointFacts
<1>5. \E p \in Points : p # Infinity /\ Abscissa(p) = x /\ EvenY(p)
  <2>1. x \in Points /\ N - x \in Points /\ x # Infinity /\ N - x # Infinity
    BY <1>1, <1>3 DEF Points, Infinity
  <2> QED BY <1>3, <1>4, <2>1
<1>6. Lift(x) \in Points /\ Lift(x) # Infinity /\ Abscissa(Lift(x)) = x /\ EvenY(Lift(x))
  BY <1>5 DEF Lift
<1>7. Lift(x) \in 1 .. N - 1
  BY <1>1, <1>6 DEF Points, Infinity
<1>8. EvenY(Lift(x)) = TRUE
  BY <1>6, <1>7, CodecAssumption
<1>9. ASSUME NEW p \in 1 .. N - 1, Abscissa(p) = x, EvenY(p) PROVE Lift(x) = p
  <2>1. EvenY(p) = TRUE
    BY <1>9, CodecAssumption
  <2> QED BY <1>6, <1>7, <1>8, <1>9, <2>1, PointUnique
<1> QED BY <1>6, <1>7, <1>8, <1>9

\* Whatever bytes are read as a point are its encoding.
LEMMA DecodedIsEncoded ==
  ASSUME NEW b, b = Bytes(b.length, b.tag, b.x), DecodePoint(b) # Rejected
  PROVE  b = EncodePoint(DecodePoint(b))
<1>1. b.length = PointLen
  BY DEF DecodePoint
<1>2. CASE b.tag = 0 /\ b.x = 0
  <2>1. DecodePoint(b) = Infinity
    BY <1>1, <1>2 DEF DecodePoint
  <2>2. EncodePoint(Infinity) = Bytes(PointLen, 0, 0)
    BY DEF EncodePoint
  <2> QED BY <1>1, <1>2, <2>1, <2>2
<1>3. CASE ~(b.tag = 0 /\ b.x = 0)
  <2> DEFINE x == b.x
             p == Lift(x)
  <2>1. b.tag \in {2, 3} /\ OnCurve(x) /\ DecodePoint(b) = IF b.tag = 2 THEN p ELSE Negative(p)
    BY <1>1, <1>3 DEF DecodePoint
  <2>2. p \in 1 .. N - 1 /\ Abscissa(p) = x /\ EvenY(p) = TRUE
    BY <2>1, LiftFacts
  <2>3. /\ Negative(p) \in 1 .. N - 1 /\ Abscissa(Negative(p)) = x
        /\ EvenY(p) # EvenY(Negative(p))
    BY <2>2, PointFacts
  <2> HIDE DEF p, x
  <2>4. p # Infinity /\ Negative(p) # Infinity
    BY <2>2, <2>3 DEF Infinity
  <2>5. EvenY(Negative(p)) = FALSE
    BY <2>2, <2>3, CodecAssumption
  <2>6. EncodePoint(p) = Bytes(PointLen, 2, x) /\ EncodePoint(Negative(p)) = Bytes(PointLen, 3, x)
    BY <2>2, <2>3, <2>4, <2>5 DEF EncodePoint
  <2>7. CASE b.tag = 2
    BY <1>1, <2>1, <2>6, <2>7 DEF x
  <2>8. CASE b.tag = 3
    BY <1>1, <2>1, <2>6, <2>8 DEF x
  <2> QED BY <2>1, <2>7, <2>8
<1> QED BY <1>2, <1>3

\* A point has one wire form, the identity included (codec.rs, decode_point).
THEOREM PointsHaveOneEncoding == SchnorrSpec => []OneEncoding
<1>1. SchnorrInit => OneEncoding
  BY DEF SchnorrInit, OneEncoding
<1>2. OneEncoding /\ [SchnorrNext]_schnorrVars => OneEncoding'
  <2> SUFFICES ASSUME OneEncoding, [SchnorrNext]_schnorrVars PROVE OneEncoding'
    OBVIOUS
  <2>1. ASSUME NEW b \in [length : {0} \cup Widths, tag : 0 .. 5, x : Numbers],
               ReadPoint(b) \/ ReadPublicKey(b)
        PROVE  OneEncoding'
    <3>1. b = Bytes(b.length, b.tag, b.x)
      BY DEF Bytes
    <3>2. parsed'.bytes = b /\ (parsed'.point # Rejected => parsed'.point = DecodePoint(b))
      BY <2>1 DEF ReadPoint, ReadPublicKey, DecodePublicKey
    <3> QED BY <3>1, <3>2, DecodedIsEncoded DEF OneEncoding
  <2>2. CASE UNCHANGED parsed
    BY <2>2 DEF OneEncoding
  <2>3. ASSUME NEW secret, NEW nonce, NEW message, MakeSignature(secret, nonce, message)
        PROVE  UNCHANGED parsed
    BY <2>3 DEF MakeSignature
  <2>4. Alter \/ Verify \/ UNCHANGED schnorrVars => UNCHANGED parsed
    BY DEF Alter, Verify, schnorrVars
  <2> QED BY <2>1, <2>2, <2>3, <2>4 DEF SchnorrNext
<1> QED BY <1>1, <1>2, PTL DEF SchnorrSpec

----------------------------------------------------------------------------
(* Schnorr: what verifies.  The verifier recovers the nonce's point from   *)
(* s - e * p; it is the one of even y that r names, so s is determined.    *)

\* Adding and taking away a multiple cancels modulo N.
LEMMA Cancels ==
  ASSUME NEW k \in Int, NEW z \in Int
  PROVE  (((k + z) % N) - z) % N = k % N /\ k % N \in 0 .. N - 1
<1>1. N \in Nat \ {0}
  BY CodecAssumption
<1>2. \A x \in Int : /\ x % N \in 0 .. N - 1 /\ x \div N \in Int
                     /\ x = N * (x \div N) + (x % N)
  BY <1>1
<1>3. PICK q \in Int, r \in 0 .. N - 1 : r = k % N /\ k = N * q + r
  BY <1>2
<1>4. PICK p \in Int, t \in 0 .. N - 1 : t = (k + z) % N /\ k + z = N * p + t
  <2>1. k + z \in Int
    OBVIOUS
  <2> QED BY <1>2, <2>1
<1>5. t - z = N * (q - p) + r
  <2>1. N * (q - p) = N * q - N * p /\ N * q \in Int /\ N * p \in Int
    BY <1>1
  <2>2. PICK u \in Int, v \in Int : u = N * q /\ v = N * p
    BY <2>1
  <2>3. k = u + r /\ k + z = v + t
    BY <1>3, <1>4, <2>2
  <2>4. t - z = (u - v) + r
    BY <2>3
  <2>5. u - v = N * (q - p)
    BY <2>1, <2>2
  <2> QED BY <2>4, <2>5
<1>6. (N * (q - p) + r) % N = r
  <2>1. q - p \in Int
    OBVIOUS
  <2> QED BY <1>1, <2>1, DivisionUnique
<1> QED BY <1>3, <1>4, <1>5, <1>6

\* Two scalars that differ by a multiple of N are equal.
LEMMA ShiftsAgree ==
  ASSUME NEW s \in 0 .. N - 1, NEW t \in 0 .. N - 1, NEW z \in Int, (s - z) % N = (t - z) % N
  PROVE  s = t
<1>1. N \in Nat \ {0}
  BY CodecAssumption
<1>2. \A x \in Int : /\ x % N \in 0 .. N - 1 /\ x \div N \in Int
                     /\ x = N * (x \div N) + (x % N)
  BY <1>1
<1>3. PICK p \in Int : s - z = N * p + ((s - z) % N)
  BY <1>2
<1>4. PICK q \in Int : t - z = N * q + ((t - z) % N)
  BY <1>2
<1>5. PICK r \in Int : r = (s - z) % N /\ r = (t - z) % N
  BY <1>2
<1>6. s - t = N * p - N * q
  <2>1. PICK u \in Int, v \in Int : u = N * p /\ v = N * q
    BY <1>1
  <2>2. s - z = u + r /\ t - z = v + r
    BY <1>3, <1>4, <1>5, <2>1
  <2> QED BY <1>1, <2>1, <2>2
<1>7. N * p - N * q = N * (p - q)
  BY <1>1
<1>8. N * (p - q) + 0 = s - t
  BY <1>6, <1>7
<1>9. s >= t \/ t >= s
  BY <1>1
<1>10. ASSUME NEW a \in 0 .. N - 1, NEW b \in 0 .. N - 1, NEW d \in Int, N * d = a - b, a >= b
       PROVE  a = b
  <2>1. a - b \in 0 .. N - 1 /\ 0 \in 0 .. N - 1
    BY <1>1, <1>10
  <2>2. (N * d + 0) % N = 0
    BY <1>1, <2>1, DivisionUnique
  <2>3. (N * 0 + (a - b)) % N = a - b
    BY <1>1, <2>1, DivisionUnique, SMTT(60)
  <2>4. N * d + 0 = N * 0 + (a - b)
    BY <1>1, <1>10
  <2> QED BY <2>2, <2>3, <2>4
<1>11. CASE s >= t
  <2>1. N * (p - q) = s - t /\ p - q \in Int
    BY <1>1, <1>8
  <2> QED BY <1>10, <1>11, <2>1
<1>12. CASE t >= s
  <2>1. N * (q - p) = t - s /\ q - p \in Int
    BY <1>1, <1>8
  <2> QED BY <1>10, <1>12, <2>1
<1> QED BY <1>9, <1>11, <1>12

\* The key of a verification and the scalars it computes with.
LEMMA KeyFacts ==
  ASSUME NEW key, OnCurve(key)
  PROVE  DecodePoint(Bytes(PointLen, 2, key)) = Lift(key) /\ Lift(key) # Rejected
<1>1. Lift(key) \in 1 .. N - 1
  BY LiftFacts
<1>2. Lift(key) # Rejected
  BY <1>1, CodecAssumption DEF Rejected
<1> QED BY <1>2 DEF DecodePoint, Bytes

LEMMA HalfFacts ==
  ASSUME NEW k \in 1 .. N - 1
  PROVE  /\ EvenHalf(k) \in 1 .. N - 1 /\ EvenY(EvenHalf(k)) = TRUE
         /\ Abscissa(EvenHalf(k)) = Abscissa(k) /\ OnCurve(Abscissa(k))
         /\ Lift(Abscissa(k)) = EvenHalf(k)
<1>1. /\ Negative(k) = N - k /\ N - k \in 1 .. N - 1
      /\ Abscissa(k) \in 1 .. (N - 1) \div 2 /\ Abscissa(N - k) = Abscissa(k)
      /\ EvenY(k) \in BOOLEAN /\ EvenY(k) # EvenY(N - k)
  BY PointFacts
<1>2. EvenY(N - k) \in BOOLEAN
  BY <1>1, CodecAssumption
<1>3. EvenHalf(k) = IF EvenY(k) THEN k ELSE N - k
  BY <1>1 DEF EvenHalf
<1>4. EvenHalf(k) \in 1 .. N - 1 /\ EvenY(EvenHalf(k)) = TRUE /\ Abscissa(EvenHalf(k)) = Abscissa(k)
  BY <1>1, <1>2, <1>3
<1>5. OnCurve(Abscissa(k))
  BY <1>1 DEF OnCurve
<1> QED BY <1>4, <1>5, LiftFacts

\* A signature of the signer verifies.
LEMMA SignedIsAccepted ==
  ASSUME NEW secret \in 1 .. N - 1, NEW nonce \in 1 .. N - 1, NEW message \in Messages
  PROVE  Verifies(Abscissa(secret), message, SignatureOf(secret, nonce, message))
<1> DEFINE r == Abscissa(nonce)
           key == Abscissa(secret)
           e == Challenge(r, key, message)
           d == EvenHalf(secret)
           k == EvenHalf(nonce)
           sig == SignatureOf(secret, nonce, message)
<1>1. N \in Nat \ {0, 1, 2}
  BY CodecAssumption
<1>2. r \in Numbers /\ key \in Numbers
  <2>1. r \in {nonce, N - nonce} /\ N - nonce \in 1 .. N - 1
    BY PointFacts
  <2>2. key \in {secret, N - secret} /\ N - secret \in 1 .. N - 1
    BY PointFacts
  <2>3. 1 .. N - 1 \subseteq Numbers
    BY <1>1, SchnorrAssumption
  <2> QED BY <2>1, <2>2, <2>3
<1>3. e \in 0 .. N - 1
  BY <1>2, SchnorrAssumption
<1>4. /\ d \in 1 .. N - 1 /\ OnCurve(key) /\ Lift(key) = d
      /\ k \in 1 .. N - 1 /\ EvenY(k) = TRUE /\ Abscissa(k) = r
  BY HalfFacts
<1>5. DecodePoint(Bytes(PointLen, 2, key)) = d /\ d # Rejected
  BY <1>4, KeyFacts
<1>6. sig = [length |-> SignatureLen, r |-> r, s |-> (k + e * d) % N]
  BY DEF SignatureOf
<1> HIDE DEF r, key, e, d, k, sig
<1>7. e * d \in Int
  BY <1>3, <1>4
<1>8. (((k + e * d) % N) - e * d) % N = k % N /\ (k + e * d) % N \in 0 .. N - 1
  <2>1. k \in Int /\ k + e * d \in Int
    BY <1>4, <1>7
  <2>2. (((k + e * d) % N) - e * d) % N = k % N
    BY <1>7, <2>1, Cancels
  <2>3. (k + e * d) % N \in 0 .. N - 1
    BY <1>7, <2>1, Cancels
  <2> QED BY <2>2, <2>3
<1>9. k % N = k
  <2>1. (N * 0 + k) % N = k
    BY <1>1, <1>4, DivisionUnique
  <2>2. N * 0 + k = k
    BY <1>1, <1>4
  <2> QED BY <2>1, <2>2
<1>10. sig.length = SignatureLen /\ sig.r = r /\ sig.s = (k + e * d) % N
  BY <1>6
<1>11. (sig.s - e * d) % N = k /\ CanonicalScalar(sig.s)
  BY <1>1, <1>8, <1>9, <1>10 DEF CanonicalScalar
<1>12. Matches(k, r)
  <2>1. k # Infinity
    BY <1>4 DEF Infinity
  <2> QED BY <1>4, <2>1 DEF Matches, EncodePoint, Bytes
<1> QED BY <1>5, <1>10, <1>11, <1>12 DEF Verifies, e, key, sig

Submission(a) ==
  /\ a.key \in Numbers /\ a.message \in Messages
  /\ a.sig = [length |-> a.sig.length, r |-> a.sig.r, s |-> a.sig.s]
  /\ a.sig.r \in Numbers /\ a.sig.s \in Numbers

Submitted(a) == Submission(a) /\ Verifies(a.key, a.message, a.sig)

\* Of one key, message and r only one s verifies.
LEMMA SignatureIsUnique ==
  ASSUME NEW a, NEW b, Submitted(a), Submitted(b),
         a.key = b.key, a.message = b.message, a.sig.r = b.sig.r
  PROVE  a.sig = b.sig
<1> DEFINE p == DecodePoint(Bytes(PointLen, 2, a.key))
           e == Challenge(a.sig.r, a.key, a.message)
           z == e * p
<1>1. N \in Nat \ {0, 1, 2}
  BY CodecAssumption
<1>0. /\ a.key \in Numbers /\ a.message \in Messages /\ a.sig.r \in Numbers
      /\ a.sig.s \in Nat /\ b.sig.s \in Nat
  <2>1. Numbers \subseteq Nat
    BY SchnorrAssumption
  <2> QED BY <2>1 DEF Submitted, Submission
<1>2. e \in Int
  <2>1. e \in 0 .. N - 1
    BY <1>0, SchnorrAssumption
  <2> QED BY <1>1, <2>1
<1>3. p \in Int
  <2>1. p # Rejected
    BY DEF Submitted, Verifies
  <2> DEFINE y == Bytes(PointLen, 2, a.key)
  <2>2. y.length = PointLen /\ y.tag = 2 /\ y.x = a.key
    BY DEF Bytes
  <2> HIDE DEF y
  <2>3. DecodePoint(y) = IF OnCurve(a.key) THEN Lift(a.key) ELSE Rejected
    BY <2>2 DEF DecodePoint
  <2>4. OnCurve(a.key) /\ p = Lift(a.key)
    BY <2>1, <2>3 DEF y
  <2>5. Lift(a.key) \in 1 .. N - 1
    BY <2>4, LiftFacts
  <2> QED BY <1>1, <2>4, <2>5
<1>4. /\ a.sig.length = SignatureLen /\ a.sig.s < N /\ Matches((a.sig.s - z) % N, a.sig.r)
      /\ b.sig.length = SignatureLen /\ b.sig.s < N /\ Matches((b.sig.s - z) % N, a.sig.r)
  BY DEF Submitted, Verifies, CanonicalScalar
<1>5. a.sig.s \in 0 .. N - 1 /\ b.sig.s \in 0 .. N - 1
  BY <1>0, <1>1, <1>4
<1>6. z \in Int
  BY <1>2, <1>3
<1> HIDE DEF p, e, z
<1>7. ASSUME NEW u \in 0 .. N - 1, Matches(u, a.sig.r)
      PROVE  u \in 1 .. N - 1 /\ Abscissa(u) = a.sig.r /\ EvenY(u) = TRUE
  <2>1. u # Infinity
    BY <1>7 DEF Matches, EncodePoint, Bytes
  <2>2. u \in 1 .. N - 1
    BY <1>1, <2>1 DEF Infinity
  <2>3. EvenY(u) /\ Abscissa(u) = a.sig.r
    BY <1>7, <2>1 DEF Matches, EncodePoint, Bytes
  <2> QED BY <2>2, <2>3, CodecAssumption
<1>8. (a.sig.s - z) % N \in 0 .. N - 1 /\ (b.sig.s - z) % N \in 0 .. N - 1
  BY <1>1, <1>5, <1>6
<1>9. (a.sig.s - z) % N = (b.sig.s - z) % N
  <2>1. PICK u \in 0 .. N - 1 : u = (a.sig.s - z) % N
    BY <1>8
  <2>2. PICK v \in 0 .. N - 1 : v = (b.sig.s - z) % N
    BY <1>8
  <2>3. /\ u \in 1 .. N - 1 /\ Abscissa(u) = a.sig.r /\ EvenY(u) = TRUE
        /\ v \in 1 .. N - 1 /\ Abscissa(v) = a.sig.r /\ EvenY(v) = TRUE
    BY <1>4, <1>7, <2>1, <2>2
  <2> QED BY <2>1, <2>2, <2>3, PointUnique
<1>10. a.sig.s = b.sig.s
  BY <1>5, <1>6, <1>9, ShiftsAgree
<1> QED BY <1>4, <1>10 DEF Submitted, Submission

\* Of any key, message and x-coordinate of the nonce's point, only what the
\* signer makes is in the accepted set.
SignatureInv ==
  /\ \/ made.sig = NoSignature
     \/ /\ made.secret \in 1 .. N - 1 /\ made.nonce \in 1 .. N - 1 /\ made.message \in Messages
        /\ made.sig = SignatureOf(made.secret, made.nonce, made.message)
  /\ shown.sig = NoSignature \/ Submission(shown)
  /\ \A a \in accepted : Submitted(a)

\* What the signer makes may be submitted.
LEMMA MadeIsSubmission ==
  ASSUME NEW secret \in 1 .. N - 1, NEW nonce \in 1 .. N - 1, NEW message \in Messages,
         NEW a, a = [key |-> Abscissa(secret), message |-> message, sig |-> SignatureOf(secret, nonce, message)]
  PROVE  Submission(a)
<1>1. N \in Nat \ {0, 1, 2} /\ 0 .. N - 1 \subseteq Numbers
  BY CodecAssumption, SchnorrAssumption
<1>2. Abscissa(secret) \in Numbers /\ Abscissa(nonce) \in Numbers
  <2>1. Abscissa(nonce) \in {nonce, N - nonce} /\ N - nonce \in 1 .. N - 1
    BY PointFacts
  <2>2. Abscissa(secret) \in {secret, N - secret} /\ N - secret \in 1 .. N - 1
    BY PointFacts
  <2> QED BY <1>1, <2>1, <2>2
<1> DEFINE e == Challenge(Abscissa(nonce), Abscissa(secret), message)
           s == (EvenHalf(nonce) + e * EvenHalf(secret)) % N
<1>3. e \in Int
  <2>1. e \in 0 .. N - 1
    BY <1>2, SchnorrAssumption
  <2> QED BY <1>1, <2>1
<1>4. EvenHalf(nonce) \in Int /\ EvenHalf(secret) \in Int
  <2>1. EvenHalf(nonce) \in 1 .. N - 1 /\ EvenHalf(secret) \in 1 .. N - 1
    BY HalfFacts
  <2> QED BY <1>1, <2>1
<1>5. a.sig = [length |-> SignatureLen, r |-> Abscissa(nonce), s |-> s]
  BY DEF SignatureOf
<1> HIDE DEF e
<1>6. s \in Numbers
  <2>1. EvenHalf(nonce) + e * EvenHalf(secret) \in Int
    BY <1>3, <1>4
  <2> QED BY <1>1, <2>1
<1> HIDE DEF s
<1> QED BY <1>2, <1>5, <1>6 DEF Submission

LEMMA SignatureStep == SignatureInv /\ [SchnorrNext]_schnorrVars => SignatureInv'
<1> SUFFICES ASSUME SignatureInv, [SchnorrNext]_schnorrVars
             PROVE  SignatureInv'
  OBVIOUS
<1>1. CASE UNCHANGED <<made, shown, accepted>>
  BY <1>1 DEF SignatureInv
<1>2. ASSUME NEW secret \in 1 .. N - 1, NEW nonce \in 1 .. N - 1, NEW message \in Messages,
             MakeSignature(secret, nonce, message)
      PROVE  SignatureInv'
  <2>1. /\ made'.secret = secret /\ made'.nonce = nonce /\ made'.message = message
        /\ made'.sig = SignatureOf(secret, nonce, message) /\ accepted' = accepted
    BY <1>2 DEF MakeSignature
  <2>2. shown' = [key |-> Abscissa(secret), message |-> message,
                  sig |-> SignatureOf(secret, nonce, message)]
    BY <1>2, <2>1 DEF MakeSignature, AsMade
  <2>3. Submission(shown')
    BY <2>2, MadeIsSubmission
  <2> QED BY <2>1, <2>3 DEF SignatureInv
<1>3. CASE Alter
  <2>1. made' = made /\ accepted' = accepted
    BY <1>3 DEF Alter
  <2>2. shown = AsMade /\ made.sig # NoSignature
    BY <1>3 DEF Alter
  <2>3. shown.sig = SignatureOf(made.secret, made.nonce, made.message) /\ shown.sig # NoSignature
    BY <2>2 DEF AsMade, SignatureInv
  <2>4. Submission(shown)
    BY <2>3 DEF SignatureInv
  <2>5. shown = [key |-> shown.key, message |-> shown.message, sig |-> shown.sig]
    BY <2>2 DEF AsMade
  <2> DEFINE g == shown.sig
  <2>6. g = [length |-> g.length, r |-> g.r, s |-> g.s] /\ g.r \in Numbers /\ g.s \in Numbers
        /\ shown.key \in Numbers /\ shown.message \in Messages
    BY <2>4 DEF Submission
  <2>7. \/ \E x \in Numbers : shown' = [key |-> x, message |-> shown.message, sig |-> g]
        \/ \E m \in Messages : shown' = [key |-> shown.key, message |-> m, sig |-> g]
        \/ \E s \in Numbers : shown' = [key |-> shown.key, message |-> shown.message,
                                        sig |-> [length |-> g.length, r |-> g.r, s |-> s]]
        \/ \E r \in Numbers : shown' = [key |-> shown.key, message |-> shown.message,
                                        sig |-> [length |-> g.length, r |-> r, s |-> g.s]]
        \/ \E w : shown' = [key |-> shown.key, message |-> shown.message,
                            sig |-> [length |-> w, r |-> g.r, s |-> g.s]]
    <3>1. CASE shown' \in AlteredKey
      BY <2>5, <3>1 DEF AlteredKey
    <3>2. CASE shown' \in AlteredMessage
      BY <2>5, <3>2 DEF AlteredMessage
    <3>3. CASE shown' \in AlteredScalar
      BY <2>5, <2>6, <3>3 DEF AlteredScalar
    <3>4. CASE shown' \in AlteredNonce
      BY <2>5, <2>6, <3>4 DEF AlteredNonce
    <3>5. CASE shown' \in AlteredLength
      BY <2>5, <2>6, <3>5 DEF AlteredLength
    <3> QED BY <1>3, <3>1, <3>2, <3>3, <3>4, <3>5 DEF Alter
  <2> HIDE DEF g
  <2>8. Submission(shown')
    BY <2>6, <2>7 DEF Submission
  <2> QED BY <2>1, <2>8 DEF SignatureInv
<1>4. CASE Verify
  <2>1. made' = made /\ shown' = shown /\ accepted' = accepted \cup {shown}
        /\ Verifies(shown.key, shown.message, shown.sig)
    BY <1>4 DEF Verify
  <2>2. shown.sig.length = SignatureLen
    BY <2>1 DEF Verifies
  <2>3. shown.sig # NoSignature
    BY <2>2 DEF NoSignature, SignatureLen
  <2>4. Submitted(shown)
    BY <2>1, <2>3 DEF SignatureInv, Submitted
  <2> QED BY <2>1, <2>4 DEF SignatureInv
<1>5. ASSUME NEW b, ReadPoint(b) \/ ReadPublicKey(b)
      PROVE  UNCHANGED <<made, shown, accepted>>
  BY <1>5 DEF ReadPoint, ReadPublicKey
<1>6. UNCHANGED schnorrVars => UNCHANGED <<made, shown, accepted>>
  BY DEF schnorrVars
<1> QED BY <1>1, <1>2, <1>3, <1>4, <1>5, <1>6 DEF SchnorrNext

\* A signature made for a key and a message is accepted whatever the
\* parities, and cannot be changed into another one (signature.rs,
\* verify_schnorr_bip340).
THEOREM OneSignatureVerifies == SchnorrSpec => []SignedVerifies
<1>1. SchnorrInit => SignatureInv
  BY DEF SchnorrInit, SignatureInv
<1>2. SignatureInv => SignedVerifies
  <2> SUFFICES ASSUME SignatureInv PROVE MadeVerifies /\ OneSignaturePerNonce
    BY DEF SignedVerifies
  <2>1. MadeVerifies
    BY SignedIsAccepted DEF SignatureInv, MadeVerifies
  <2>2. OneSignaturePerNonce
    BY SignatureIsUnique DEF SignatureInv, OneSignaturePerNonce
  <2> QED BY <2>1, <2>2
<1> QED BY <1>1, <1>2, SignatureStep, PTL DEF SchnorrSpec

=============================================================================
