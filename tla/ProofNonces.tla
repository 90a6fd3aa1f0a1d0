---------------------------- MODULE ProofNonces ----------------------------
(***************************************************************************)
(* The Fiat-Shamir transcript (transcript.rs), as a seal uses it           *)
(* (assembly.rs, range_circuit.rs), and the nonces of its linking sigma    *)
(* (linking.rs), for seals whose generator of random numbers may repeat    *)
(* its output: a fork, a restored snapshot, a poor source.  A linking      *)
(* nonce is hashed from the drawn seed, the witness and a binding that     *)
(* must mirror everything sigma.x depends on.  At the end, the same of the *)
(* proofs by a share (dleq.rs), whose bindings opening.rs and hint.rs lay  *)
(* out.                                                                    *)
(*                                                                         *)
(* What is hashed is a sequence of blocks, each a tuple: <<n>> for the     *)
(* four bytes of a length or a count, <<b>> for a byte of a field of any   *)
(* length, and one block for a point, a scalar or a header, whose          *)
(* encodings have one size.  The hash is injective: a digest is the        *)
(* sequence that was hashed.  Points are terms, equal when made of the same *)
(* scalars.                                                                *)
(***************************************************************************)
EXTENDS Integers, SequencesExt, FiniteSets

Block(x) == << <<x>> >>

LengthPrefix(n) == << <<n>> >>

\* Slip: a field is hashed without its length.
FramedBare(bytes) == bytes

\* push_framed and absorb_bytes.
Framed(bytes) == LengthPrefix(Len(bytes)) \o bytes

\* A count followed by the elements of one size, each framed.
FramedList(elements) ==
  LengthPrefix(Len(elements)) \o FlattenSeq([i \in DOMAIN elements |-> Framed(Block(elements[i]))])

NewTranscript == Framed(Block("ec-segve"))

Absorb(t, elements) == t \o FlattenSeq([i \in DOMAIN elements |-> Framed(Block(elements[i]))])

Digest(t) == <<"sha256", t>>
Challenge(t, label) == <<"challenge", label, t>>

\* Slip: the state starts over without the digest of what it has absorbed.
RatchetForgetful(t, label) == Framed(Block("ratchet")) \o Framed(Block(label))

\* The state squeeze leaves; the challenge it also absorbs is a function of
\* the label and the digest.
Ratchet(t, label) ==
  Framed(Block("ratchet")) \o Framed(Block(label)) \o Framed(Block(Digest(t)))

----------------------------------------------------------------------------
CONSTANTS
  Seals,       \* calls of seal
  Contexts,    \* <<domain, binding>>, two byte strings
  Keys,        \* pk
  Secrets,     \* records [v, r, s, sBar, g]: limbs, randomness and blindings
  ResidualAnnouncements,   \* the first messages of the residuals' proofs
  Ranges,      \* range proofs [flights, folds, l, n]
  NonceSeeds,  \* what linking_commit draws
  MaxDifferences  \* bound: in how many of its inputs a seal differs from another

LimbsOf(secret) == DOMAIN secret.v

IsSequence(s) == s \in Seq(ToSet(s))

\* What the parameters satisfy.
ASSUME ProofNoncesAssumption ==
  /\ MaxDifferences \in Nat
  /\ \A c \in Contexts :
       c = <<c[1], c[2]>> /\ IsSequence(c[1]) /\ IsSequence(c[2]) /\ c[1] # <<>>
  /\ \A x \in Secrets :
       /\ x = [v |-> x.v, r |-> x.r, s |-> x.s, sBar |-> x.sBar, g |-> x.g]
       /\ \A f \in {"v", "r", "s", "sBar", "g"} : IsSequence(x[f])
       /\ \A f \in {"r", "s", "sBar"} : Len(x[f]) = Len(x.v)
  /\ \A a, b \in Secrets : Len(a.v) = Len(b.v)
  /\ \A a \in ResidualAnnouncements : IsSequence(a)
  /\ \A r \in Ranges :
       /\ \A f \in {"flights", "folds", "l", "n"} : IsSequence(r[f])
       /\ Len(r.flights) = 4
       /\ \A i \in DOMAIN r.folds : r.folds[i] = [x |-> r.folds[i].x, r |-> r.folds[i].r]

VARIABLES
  sealStage,   \* of a seal: "idle", "stated", "ranged", "linked"
  sealInput    \* what a seal was given or has drawn so far

nonceVars == <<sealStage, sealInput>>

\* The inputs with one more.
With(in, field, x) == [f \in DOMAIN in \cup {field} |-> IF f = field THEN x ELSE in[f]]

----------------------------------------------------------------------------
(* The statement.                                                          *)

Com(v, s) == <<"com", v, s>>

\* What both the transcript and the nonce binding begin with, field by field;
\* the constants of the protocol (version, order, weights, H) are left out.
StatementFields(in) ==
  LET x == in.secret
      pairs == [i \in 1 .. 2 * Len(x.v) |->
                 LET k == (i + 1) \div 2
                 IN  IF i % 2 = 1 THEN <<"E", x.r[k]>> ELSE <<"D", x.v[k], x.r[k], in.key>>]
  IN  Framed(in.context[1]) \o Framed(in.context[2])
      \o Framed(Block(<<"C", x.v>>)) \o Framed(Block(in.key))
      \o FramedList(pairs)
      \o FramedList([k \in LimbsOf(x) |-> Com(x.v[k], x.s[k])])
      \o FramedList([k \in LimbsOf(x) |-> Com(-x.v[k], x.sBar[k])])
      \o FramedList([k \in DOMAIN x.g |-> Com(<<"carry", x.v>>, x.g[k])])

StatementTranscript(in) == NewTranscript \o StatementFields(in)

----------------------------------------------------------------------------
(* The challenges of the range proof and of the norm argument.             *)

Schedule(range) ==
  LET f == range.flights
  IN  << <<<<f[1], f[2]>>, <<"alpha", 0>>>>, <<<<f[3]>>, <<"rho", 0>>>>, <<<<>>, <<"lambda", 0>>>>,
         <<<<>>, <<"beta", 0>>>>, <<<<>>, <<"delta", 0>>>>, <<<<f[4]>>, <<"tau", 0>>>> >>
      \o [i \in DOMAIN range.folds |->
            <<<<i, range.folds[i].x, range.folds[i].r>>, <<"gamma", i>>>>]

\* The transcript that the i-th challenge is squeezed from, and the one after.
SqueezedFrom(in) ==
  LET steps == Schedule(in.range)
      from[i \in 1 .. Len(steps)] ==
        Absorb(IF i = 1 THEN StatementTranscript(in) ELSE Ratchet(from[i - 1], steps[i - 1][2]),
               steps[i][1])
  IN  from

AfterRange(in) ==
  LET steps == Schedule(in.range)
  IN  Ratchet(SqueezedFrom(in)[Len(steps)], steps[Len(steps)][2])

RangeChallenges(in) ==
  [i \in DOMAIN Schedule(in.range) |-> Challenge(SqueezedFrom(in)[i], Schedule(in.range)[i][2])]

----------------------------------------------------------------------------
(* The linking sigma.                                                      *)

RangeFields(range) ==
  Absorb(<<>>, range.flights)
  \o FramedList([i \in DOMAIN range.folds |-> range.folds[i].x])
  \o FramedList([i \in DOMAIN range.folds |-> range.folds[i].r])
  \o FramedList(range.l) \o FramedList(range.n)

\* Slip: the residual announcements, drawn by another module, are left out.
NonceBindingWithoutResiduals(in) ==
  Framed(Block("nonce-binding")) \o StatementFields(in) \o RangeFields(in.range)

NonceBinding(in) ==
  Framed(Block("nonce-binding")) \o StatementFields(in)
  \o FramedList(in.residual) \o RangeFields(in.range)

\* statement_bound_nonce, but for its retry on a zero.
Nonce(in, kind, k) ==
  LET x == in.secret
      witness == CASE kind = "alpha" -> x.v[k] [] kind = "beta" -> x.r[k] [] kind = "gamma" -> x.s[k]
  IN  <<NonceBinding(in), in.seed, kind, k, witness>>

SigmaAnnouncements(in) ==
  LET al(k) == Nonce(in, "alpha", k)
      be(k) == Nonce(in, "beta", k)
      ga(k) == Nonce(in, "gamma", k)
      limbs == LimbsOf(in.secret)
  IN  FramedList([k \in limbs |-> <<"E", be(k)>>])
      \o FramedList([k \in limbs |-> <<"D", al(k), be(k), in.key>>])
      \o FramedList([k \in limbs |-> Com(al(k), ga(k))])
      \o Framed(Block(<<"C", [k \in limbs |-> al(k)]>>))

\* sigma.x, the last challenge.
SigmaTranscript(in) == AfterRange(in) \o FramedList(in.residual) \o SigmaAnnouncements(in)
SigmaChallenge(in) == Challenge(SigmaTranscript(in), <<"sigma.x", 0>>)

----------------------------------------------------------------------------
NonceInit ==
  /\ sealStage = [s \in Seals |-> "idle"]
  /\ sealInput = [s \in Seals |-> [f \in {} |-> 0]]

Close(new) ==
  \A s, t \in Seals :
    Cardinality({ f \in (DOMAIN new[s]) \cap (DOMAIN new[t]) : new[s][f] # new[t][f] })
      <= MaxDifferences

\* The ciphertexts, the commitments and the carry proof's first message.
State(s, context, key, secret, residual) ==
  /\ sealStage[s] = "idle"
  /\ sealStage' = [sealStage EXCEPT ![s] = "stated"]
  /\ sealInput' = [sealInput EXCEPT ![s] = [context |-> context, key |-> key, secret |-> secret,
                                            residual |-> residual]]
  /\ Close(sealInput')

ProveRange(s, range) ==
  /\ sealStage[s] = "stated"
  /\ sealStage' = [sealStage EXCEPT ![s] = "ranged"]
  /\ sealInput' = [sealInput EXCEPT ![s] = With(@, "range", range)]
  /\ Close(sealInput')

\* linking_commit and sigma_challenge; the responses follow.
Link(s, seed) ==
  /\ sealStage[s] = "ranged"
  /\ sealStage' = [sealStage EXCEPT ![s] = "linked"]
  /\ sealInput' = [sealInput EXCEPT ![s] = With(@, "seed", seed)]
  /\ Close(sealInput')

NonceNext ==
  \E s \in Seals :
    \/ \E c \in Contexts, k \in Keys, x \in Secrets, a \in ResidualAnnouncements : State(s, c, k, x, a)
    \/ \E r \in Ranges : ProveRange(s, r)
    \/ \E e \in NonceSeeds : Link(s, e)

NonceSpec == NonceInit /\ [][NonceNext]_nonceVars

----------------------------------------------------------------------------
Linked == { s \in Seals : sealStage[s] = "linked" }
Ranged == { s \in Seals : sealStage[s] \in {"ranged", "linked"} }

StatementOf(in) == <<in.context, in.key, in.secret>>

\* Everything sent before the i-th challenge of the range proof is known.
SentBefore(in, i) ==
  <<StatementOf(in), [j \in 1 .. i |-> Schedule(in.range)[j]]>>

\* A linking nonce is answered at one challenge, whatever the generator of
\* random numbers repeats (linking.rs:121-124 and assembly.rs:2010-2013):
\* two answers would give away the limb, its randomness or its blinding.
NonceAnswersOnce ==
  \A s, t \in Linked : s # t =>
    \A kind \in {"alpha", "beta", "gamma"}, k \in LimbsOf(sealInput[s].secret) :
      Nonce(sealInput[s], kind, k) = Nonce(sealInput[t], kind, k)
        => SigmaChallenge(sealInput[s]) = SigmaChallenge(sealInput[t])

\* A challenge is shared by two proofs only when all that was sent before it
\* is, context, key and every commitment included (transcript.rs:9-32); the
\* two byte strings of a context cannot trade bytes.
ChallengeBindsAllBefore ==
  /\ \A s, t \in Ranged : s # t =>
       LET xs == RangeChallenges(sealInput[s])
           xt == RangeChallenges(sealInput[t])
       IN  \A i \in (DOMAIN xs) \cap (DOMAIN xt) :
             xs[i] = xt[i] => SentBefore(sealInput[s], i) = SentBefore(sealInput[t], i)
  /\ \A s, t \in Linked : s # t /\
       SigmaChallenge(sealInput[s]) = SigmaChallenge(sealInput[t])
         => /\ StatementOf(sealInput[s]) = StatementOf(sealInput[t])
            /\ sealInput[s].residual = sealInput[t].residual
            /\ sealInput[s].range.flights = sealInput[t].range.flights
            /\ sealInput[s].range.folds = sealInput[t].range.folds

----------------------------------------------------------------------------
(* The proofs by a share: a contribution toward opening a capsule          *)
(* (opening.rs contribute) and one toward a gated recovery (hint.rs        *)
(* AuthorizerContribution::contribute) are proofs of one scheme by the     *)
(* same scalars, so nothing but their bindings keeps them apart.           *)

CONSTANTS
  ShareScalars,     \* w
  ContributeCalls,  \* records [core, roster, gate, context]
  AuthorizeCalls,   \* records [eStar, roster, vs, ctx, epoch, idx, gate]
  PointO,           \* the identity
  MaxSeparatorLen,  \* MAX_DOMAIN_SEP_LEN
  MaxShareProofs    \* bound: the proofs made

\* The contributions there can be, of both kinds.
ShareCalls ==
  { [kind |-> "contribute", of |-> r] : r \in ContributeCalls }
  \cup { [kind |-> "authorize", of |-> r] : r \in AuthorizeCalls }

\* Byte strings of any length, and limbs, are sequences.
ASSUME ShareAssumption ==
  /\ MaxShareProofs \in Nat /\ MaxSeparatorLen \in Nat
  /\ \A r \in ContributeCalls :
       /\ r = [core |-> r.core, roster |-> r.roster, gate |-> r.gate, context |-> r.context]
       /\ r.core = [c |-> r.core.c, limbs |-> r.core.limbs] /\ IsSequence(r.core.limbs)
       /\ r.roster = [yStar |-> r.roster.yStar, gates |-> r.roster.gates]
       /\ r.context = <<r.context[1], r.context[2]>>
       /\ IsSequence(r.context[1]) /\ IsSequence(r.context[2])
  /\ \A r \in AuthorizeCalls :
       /\ r = [eStar |-> r.eStar, roster |-> r.roster, vs |-> r.vs, ctx |-> r.ctx,
               epoch |-> r.epoch, idx |-> r.idx, gate |-> r.gate]
       /\ r.roster = [yStar |-> r.roster.yStar, gates |-> r.roster.gates]
       /\ IsSequence(r.ctx) /\ IsSequence(r.epoch)

VARIABLE shareProofs   \* the proofs made, records [call, w, seed]

----------------------------------------------------------------------------
(* opening.rs and hint.rs: what the two kinds bind.                        *)

\* Slip: C and the masks, without what they mask.
MasksDigest(core) ==
  Digest(Block(core.c) \o [k \in DOMAIN core.limbs |-> <<core.limbs[k][1]>>])

\* C and every limb <<E, D>>, in one size each and hence not framed.
CoreDigest(core) == Digest(Block(core.c) \o [k \in DOMAIN core.limbs |-> <<core.limbs[k]>>])

ContributionBytes(r) ==
  Framed(Block("contribute-binding")) \o Framed(Block(CoreDigest(r.core)))
  \o Framed(Block(r.roster.yStar)) \o Framed(Block(r.roster.gates)) \o Framed(Block(r.gate))
  \o Framed(r.context[1]) \o Framed(r.context[2])

\* Slip: one frame around the context and the epoch.
AuthorizationBytesRunTogether(r) ==
  Framed(Block("gated-dleq")) \o Framed(Block(r.eStar)) \o Framed(Block(r.roster.yStar))
  \o Framed(Block(r.vs)) \o Framed(r.ctx \o r.epoch)
  \o Framed(Block(r.roster.gates)) \o Framed(Block(r.idx)) \o Framed(Block(r.gate))

AuthorizationBytes(r) ==
  Framed(Block("gated-dleq")) \o Framed(Block(r.eStar)) \o Framed(Block(r.roster.yStar))
  \o Framed(Block(r.vs)) \o Framed(r.ctx) \o Framed(r.epoch)
  \o Framed(Block(r.roster.gates)) \o Framed(Block(r.idx)) \o Framed(Block(r.gate))

BindingBytes(call) ==
  IF call.kind = "contribute" THEN ContributionBytes(call.of) ELSE AuthorizationBytes(call.of)

\* [G, E_1, ..] and [G, E*]
ShareBases(call) ==
  IF call.kind = "contribute"
  THEN <<"G">> \o [k \in DOMAIN call.of.core.limbs |-> call.of.core.limbs[k][1]]
  ELSE <<"G", call.of.eStar>>

----------------------------------------------------------------------------
(* dleq.rs                                                                 *)

PointsTimes(w, bases) == [i \in DOMAIN bases |-> <<"times", w, bases[i]>>]
ShareImages(p) == PointsTimes(p.w, ShareBases(p.call))

\* Slip: the nonce is of the points alone.
ShareNonceOfPoints(p) ==
  Digest(Framed(Block("dleq-nonce")) \o Framed(Block("dleq"))
         \o Framed(Block(p.seed)) \o Framed(Block(p.w))
         \o FramedList(ShareBases(p.call)) \o FramedList(ShareImages(p)))

\* statement_bound_nonce, but for its retry on a zero.
ShareNonce(p) ==
  Digest(Framed(Block("dleq-nonce")) \o Framed(Block("dleq"))
         \o Framed(Block(p.seed)) \o Framed(Block(p.w)) \o Framed(BindingBytes(p.call))
         \o FramedList(ShareBases(p.call)) \o FramedList(ShareImages(p)))

ShareAnnouncements(p) == PointsTimes(ShareNonce(p), ShareBases(p.call))

\* The challenge that a verifier derives for a call, from what a proof shows.
ChallengeFor(call, images, announcements) ==
  Digest(NewTranscript \o Framed(Block("dleq")) \o Framed(BindingBytes(call))
         \o FramedList(ShareBases(call)) \o FramedList(images) \o FramedList(announcements))

ShareChallenge(p) == ChallengeFor(p.call, ShareImages(p), ShareAnnouncements(p))

----------------------------------------------------------------------------
ShareInit == shareProofs = {}

\* A contribution ends in BatchDleqProof::prove, which refuses a base that is
\* the identity.
MakeProof(call, w, seed) ==
  /\ \A i \in DOMAIN ShareBases(call) : ShareBases(call)[i] # PointO
  /\ Cardinality(shareProofs) < MaxShareProofs
  /\ shareProofs' = shareProofs \cup { [call |-> call, w |-> w, seed |-> seed] }

\* contribute, for a listed gate.
ContributeShare(r, w, seed) ==
  /\ r.gate \in r.roster.gates
  /\ MakeProof([kind |-> "contribute", of |-> r], w, seed)

\* AuthorizerContribution::contribute, for a listed gate and a valid binding.
AuthorizeShare(r, w, seed) ==
  /\ r.gate \in r.roster.gates
  /\ r.roster.yStar # PointO /\ r.vs # PointO
  /\ Len(r.ctx) <= MaxSeparatorLen /\ Len(r.epoch) <= MaxSeparatorLen
  /\ MakeProof([kind |-> "authorize", of |-> r], w, seed)

ShareNext ==
  \E w \in ShareScalars, seed \in NonceSeeds :
    \/ \E r \in ContributeCalls : ContributeShare(r, w, seed)
    \/ \E r \in AuthorizeCalls : AuthorizeShare(r, w, seed)

ShareSpec == ShareInit /\ [][ShareNext]_shareProofs

----------------------------------------------------------------------------
\* Whatever the generator of random numbers repeats, a holder's nonce is
\* answered at one challenge over all the contributions and authorizations
\* made with the share (dleq.rs:24-29), and the challenge of a proof is the
\* one a verifier derives for no other call: not for another core, gate,
\* roster, context, piece or epoch, nor for the other kind (dleq.rs:20-24,
\* hint.rs:512-514).
ShareProofsAreBound ==
  \A p \in shareProofs :
    /\ \A q \in shareProofs : ShareNonce(p) = ShareNonce(q) => ShareChallenge(p) = ShareChallenge(q)
    /\ \A call \in ShareCalls :
         ChallengeFor(call, ShareImages(p), ShareAnnouncements(p)) = ShareChallenge(p) => call = p.call
=============================================================================
