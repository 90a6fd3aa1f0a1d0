--------------------------- MODULE CapsuleOpening ---------------------------
(***************************************************************************)
(* Opening one sealed capsule (capsule.rs VerifiedCapsule, opening.rs):    *)
(* share holders contribute partials, possibly more than once, for another *)
(* capsule or context, or under another gate; the wire loses, duplicates,  *)
(* reorders and alters them; the recipient opens from what has arrived.    *)
(***************************************************************************)
EXTENDS Parties

CONSTANTS
  Capsules,         \* capsules sealed to the recipient and these gates
  SecretOf,         \* SecretOf[k]: the scalar sealed in capsule k
  NoncesOf,         \* NoncesOf[k]: its ElGamal nonces
  Target,           \* the capsule being opened
  TargetCtx,        \* the context of its token
  Contributions,    \* the contribute calls that may be made
  MaxAltered        \* bound on the altered partials in the list

ASSUME OpeningAssumption ==
  /\ Target \in Capsules
  /\ \A c \in Contributions : c.holder \in Holders /\ c.capsule \in Capsules
  /\ SecretOf \in [Capsules -> Scalars]
  /\ {MaxInbox, MaxAltered, MaxCalls} \subseteq Nat

CoreOf(k) == SealCore(SecretOf[k], NoncesOf[k], Binding)

\* Fresh nonces: no two capsules have the same opening core.
ASSUME DistinctCores == \A j, k \in Capsules : CoreOf(j) = CoreOf(k) => j = k

\* What a dealt roster and honest seals satisfy; a contribution is its
\* holder, gate, capsule, context and entropy.
DealingAssumption ==
  /\ RosterDealt
  /\ \A k \in Capsules : NoncesOf[k] \in [Limbs -> Scalars]
  /\ \A c, d \in Contributions :
       /\ c.holder = d.holder /\ c.gate = d.gate /\ c.capsule = d.capsule
       /\ c.ctx = d.ctx /\ c.entropy = d.entropy
       => c = d

\* No other key that is tried happens to leave every limb below the bound.
OtherKeysMiss ==
  \A x \in TriedSecrets \ {Recipient} :
    /\ x \in Scalars
    /\ \E j \in Limbs :
         Plus(Decompose(SecretOf[Target])[j],
              Times(NoncesOf[Target][j],
                    Times(RecipientWeight(Recipient, Gates), Minus(Recipient, x)))) >= LimbModulus

----------------------------------------------------------------------------
PartialOf(c) == Partial(CoreOf(c.capsule), Binding, c.gate, ShareOf[c.holder], c.ctx, c.entropy)

\* The partials that carry the proof of partial p but are not p: another gate
\* tag, another image of G, a mask missing.
Altered(p) ==
  {[p EXCEPT !.gate = k] : k \in Gates \ {p.gate}}
    \cup {[p EXCEPT !.w_g = Plus(@, 1)], [p EXCEPT !.masks = Tail(@)]}

Unsealed(secret, partials) ==
  OpenCore(CoreOf(Target), Binding, secret, partials, TargetCtx, LimbModulus)

----------------------------------------------------------------------------
\* contribute_for_gate.  A call for an unlisted gate returns an error.
Contribute(c) == MayContribute(CoreOf(c.capsule), Binding, c.gate) /\ Make(c)

\* A partial arrives, again or for the first time, intact or altered.  Those
\* that never arrive are lost.
Deliver(c) == Arrive(PartialOf(c))
DeliverAltered(c) ==
  /\ Cardinality({i \in DOMAIN inbox : \A d \in made : inbox[i] # PartialOf(d)}) < MaxAltered
  /\ \E p \in Altered(PartialOf(c)) : Arrive(p)

\* VerifiedCapsule::unseal.
Unseal(secret) == Return(secret, Unsealed(secret, inbox))

Next ==
  \/ \E c \in Contributions : Contribute(c)
  \/ \E c \in made : Deliver(c) \/ DeliverAltered(c)
  \/ \E secret \in TriedSecrets : Unseal(secret)

Spec == Init /\ [][Next]_vars

----------------------------------------------------------------------------
(* A contribution authorizes this opening if it was made for the target,   *)
(* under its context.                                                      *)
ForTarget(c) == c.capsule = Target /\ c.ctx = TargetCtx

Consenting == {c.holder : c \in {d \in made : ForTarget(d) /\ d.gate = GateOf[d.holder]}}

\* The contributions to this opening whose partial is in the list.
Arrived == {c \in made : ForTarget(c) /\ \E i \in DOMAIN inbox : inbox[i] = PartialOf(c)}

TypeOK ==
  /\ made \subseteq Contributions
  /\ Len(inbox) <= MaxInbox
  /\ released \subseteq TriedSecrets \X Scalars

\* A list opens the capsule exactly when it holds one contribution of every
\* share holder to its own gate and no other contribution to this opening:
\* a repeated artifact, an altered one, one for another capsule or context
\* change nothing, while a second run of contribute, or a share given to the
\* wrong gate, closes the opening (opening.rs open_core, doc of unseal).
OpensIffEveryHolderOnce == Unsealed(Recipient, inbox) # Failed <=> EveryHolderOnce(Arrived)

\* Every partial that unseal sums is, field by field, one that a holder made
\* for this capsule, this context and the gate it is counted for.
AcceptedAreAuthentic ==
  \A i \in Accepted(inbox, CoreOf(Target), Binding, TargetCtx) :
    \E c \in made : ForTarget(c) /\ inbox[i] = PartialOf(c)

\* Opening implements the escrow: nobody but the recipient opens, to nothing
\* but the sealed scalar, and not before every share holder consented.
Promise == INSTANCE Escrow WITH consent <- Consenting, Secret <- SecretOf[Target]
ImplementsEscrow == Promise!Spec
=============================================================================
