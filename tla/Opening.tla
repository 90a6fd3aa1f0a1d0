------------------------------- MODULE Opening -------------------------------
(***************************************************************************)
(* opening.rs and dleq.rs: what an authorizer contributes toward opening a *)
(* sealed core, how a contribution is checked, and how the recipient opens *)
(* the core from a list of contributions.                                  *)
(*                                                                         *)
(* A hash is the value it hashes.  A DLEQ proof is the statement it was    *)
(* made for together with its nonce: it verifies against exactly that      *)
(* statement (the soundness of the proof system is assumed, everything     *)
(* else about it is computed).                                             *)
(***************************************************************************)
EXTENDS CapsuleAlgebra

----------------------------------------------------------------------------
(* dleq.rs *)

\* The nonce hashes the entropy together with the scalar and the statement
\* (ProofNonces has the bytes).
StatementBoundNonce(w, statement, entropy) == <<entropy, w, statement>>

\* check_bases: a statement needs a base and none may be the identity.
BasesAdmissible(bases) == bases # <<>> /\ \A i \in DOMAIN bases : bases[i] # Identity

Images(w, bases) == [i \in DOMAIN bases |-> Times(w, bases[i])]

Prove(w, bases, binding, entropy) ==
  LET statement == [bases |-> bases, images |-> Images(w, bases), binding |-> binding]
  IN  [nonce |-> StatementBoundNonce(w, statement, entropy), statement |-> statement]

\* Slip: the images are left out of the challenge.
VerifiesAnyImages(proof, bases, images, binding) ==
  /\ BasesAdmissible(bases)
  /\ proof.statement.bases = bases /\ proof.statement.binding = binding

ProofVerifies(proof, bases, images, binding) ==
  /\ BasesAdmissible(bases)
  /\ proof.statement = [bases |-> bases, images |-> images, binding |-> binding]

----------------------------------------------------------------------------
(* opening.rs: Partial *)

DleqBases(core) == <<1>> \o core.e

\* Slip: the context is not part of the binding.
BindingWithoutCtx(core, binding, gate, ctx) ==
  [core |-> core, yStar |-> binding.yStar, gStar |-> binding.gates, gate |-> gate]

\* Core digest, Y*, g*, gate and context: the partial is pinned to all of them.
ContributionBinding(core, binding, gate, ctx) ==
  [core |-> core, yStar |-> binding.yStar, gStar |-> binding.gates, gate |-> gate, ctx |-> ctx]

\* contribute succeeds for a listed gate over admissible bases.
MayContribute(core, binding, gate) == gate \in binding.gates /\ BasesAdmissible(DleqBases(core))

Partial(core, binding, gate, w, ctx, entropy) ==
  LET dleq == Prove(w, DleqBases(core), ContributionBinding(core, binding, gate, ctx), entropy)
  IN  [ gate  |-> gate,
        w_g   |-> Head(dleq.statement.images),
        masks |-> Tail(dleq.statement.images),
        dleq  |-> dleq ]

\* Partial::verify
PartialVerifies(partial, core, binding, ctx) ==
  /\ partial.gate \in binding.gates
  /\ Len(partial.masks) = Len(core.e)
  /\ ProofVerifies(partial.dleq, DleqBases(core), <<partial.w_g>> \o partial.masks,
                   ContributionBinding(core, binding, partial.gate, ctx))

----------------------------------------------------------------------------
(* opening.rs: open_core *)

\* Slip: a repeated artifact is summed again.
AcceptedWithRepeats(partials, core, binding, ctx) ==
  {i \in DOMAIN partials : PartialVerifies(partials[i], core, binding, ctx)}

\* The positions of a list of partials that are summed: those that verify,
\* each distinct artifact once.  Full equality, so neither (gate, W) nor the
\* participant identifies an artifact.
Accepted(partials, core, binding, ctx) ==
  { i \in DOMAIN partials :
      /\ PartialVerifies(partials[i], core, binding, ctx)
      /\ \A k \in 1 .. i - 1 : partials[k] # partials[i] }

\* Strict AND: every bucket sums to its own gate.
GatesQualify(partials, accepted, gates) ==
  \A gate \in gates :
    SumOver(LAMBDA i : partials[i].w_g, {i \in accepted : partials[i].gate = gate}) = gate

\* The weighted access mask of every limb.
AccessMasks(partials, accepted, binding) ==
  [ j \in Limbs |->
      SumOver(LAMBDA i : Times(partials[i].masks[j],
                               GateWeight(binding.recipient, binding.gates, partials[i].gate)),
              accepted) ]

OpenCore(core, binding, secret, partials, ctx, bound) ==
  LET accepted == Accepted(partials, core, binding, ctx)
  IN  IF GatesQualify(partials, accepted, binding.gates)
        THEN OpenWithAccessMasks(core, binding, secret,
                                 AccessMasks(partials, accepted, binding), bound)
        ELSE Failed
=============================================================================
