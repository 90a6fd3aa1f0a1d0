--------------------------- MODULE GatedRecovery ---------------------------
(***************************************************************************)
(* A gated recovery (hint.rs, second half): a producer has sealed hints,   *)
(* some of them again or for another epoch; the quorum attests one set per *)
(* epoch; share holders authorize pieces; an untrusted coordinator lays    *)
(* out pieces, quorums and contributions as it likes, tampers with hints   *)
(* and contributions and signs with a key of its own; the recipient's      *)
(* pinned verifier recovers from what it is handed.                        *)
(***************************************************************************)
EXTENDS Hint

CONSTANTS
  Recipient,       \* the recipient's secret key
  Gates,           \* the roster
  Holders,         \* share holders of the gates
  GateOf,          \* GateOf[h]: the gate h holds a share of
  ShareOf,         \* ShareOf[h]: its share
  Secret,          \* the certified secret, so also its point VS
  PieceOf,         \* PieceOf[idx]: the sealed contribution of piece idx
  Weights,         \* the weights given to the recovery, one per piece
  Ctx,             \* the recovery's context
  Now,             \* the pinned epoch
  Sealings,        \* the seals that took place: [idx, epoch, r]
  AttestedOf,      \* AttestedOf[epoch]: the sealings its quorum signs, in order
  QuorumKey,       \* the pinned key of the quorum
  CoordinatorKey,  \* a key of the coordinator's own
  Calls,           \* the contribute calls that may be made
  MaxCalls,        \* bound on the contribute calls of a behaviour
  MaxPieces,       \* bound on the pieces of a tray
  MaxQuorums,      \* bound on the quorums of one piece
  MaxHanded,       \* bound on the contributions of one quorum
  MaxAltered       \* bound on the altered hints and contributions of a tray

BindingAt(epoch) ==
  [recipient |-> Recipient, gates |-> Gates, vs |-> Secret, ctx |-> Ctx, epoch |-> epoch]
Pinned == BindingAt(Now)

\* What the parameters satisfy.
RecoveryAssumption ==
  /\ Secret \in Scalars
  /\ QuorumKey # CoordinatorKey
  /\ \A s \in Sealings : s.r \in Scalars /\ MayMint(Under(BindingAt(s.epoch)), s.r)
  /\ \A c \in Calls : c.sealing \in Sealings /\ ShareOf[c.holder] \in Scalars
  /\ {MaxCalls, MaxPieces, MaxQuorums, MaxHanded, MaxAltered} \subseteq Nat

\* The share holders of a gate.
HoldersOf(gate) == {h \in Holders : GateOf[h] = gate}

\* What a dealt roster and an attested set satisfy: the shares of a gate's
\* holders, and of nobody else, sum to it; an epoch's attestation lists
\* pieces sealed for it, in order; the pinned ones make up the secret.
DealingAssumption ==
  /\ Recipient \in Scalars /\ RecipientWeight(Recipient, Gates) \in Int
  /\ IsFiniteSet(Gates) /\ Gates \subseteq Scalars \ {Identity}
  /\ \A gate \in Gates : GateWeight(Recipient, Gates, gate) \in Int
  /\ IsFiniteSet(Holders)
  /\ GateOf \in [Holders -> Gates] /\ ShareOf \in [Holders -> Scalars \ {0}]
  /\ \A g, h \in Holders : ShareOf[g] = ShareOf[h] => g = h
  /\ \A gate \in Gates, H \in SUBSET Holders :
       SumOver(LAMBDA h : ShareOf[h], H) = gate <=> H = HoldersOf(gate)
  /\ \A c \in Calls : c.holder \in Holders
  /\ \A s \in Sealings :
       /\ s.idx \in Nat /\ PieceOf[s.idx] \in Scalars
       /\ LET b == Under(BindingAt(s.epoch))
          IN  MaskOf(s.r, b, s.idx, Times(s.r, b.yStar)) \in Scalars
  /\ \A s, t \in Sealings : s.idx = t.idx /\ s.epoch = t.epoch /\ s.r = t.r => s = t
  /\ Now \in DOMAIN AttestedOf
  /\ \A epoch \in DOMAIN AttestedOf :
       /\ AttestedOf[epoch] \in Seq(Sealings) /\ AttestedOf[epoch] # <<>>
       /\ \A i \in DOMAIN AttestedOf[epoch] : AttestedOf[epoch][i].epoch = epoch
       /\ \A i \in 1 .. Len(AttestedOf[epoch]) - 1 :
            AttestedOf[epoch][i].idx < AttestedOf[epoch][i + 1].idx
  /\ Weights \in Seq(Int) /\ Len(Weights) = Len(AttestedOf[Now])
  /\ SumOver(LAMBDA i : Times(Weights[i], PieceOf[AttestedOf[Now][i].idx]),
             DOMAIN AttestedOf[Now]) = Secret

VARIABLES
  signed,     \* the quorum's signatures
  made,       \* the contribute calls that returned
  tray,       \* the pieces the coordinator presents, with their quorums
  released    \* the scalars verify_and_recover_gated returned

vars == <<signed, made, tray, released>>

----------------------------------------------------------------------------
HintOf(s) == MintHint(PieceOf[s.idx], Under(BindingAt(s.epoch)), s.idx, s.r)
Piece(s) == [idx |-> s.idx, hint |-> HintOf(s)]
Tampered(hint) == [hint EXCEPT !.ct = Plus(@, 1)]

ContributionOf(c) ==
  Authorization(ShareOf[c.holder], HintOf(c.sealing).eStar, BindingAt(c.sealing.epoch),
                c.sealing.idx, c.gate, c.entropy)
Altered(a) == [a EXCEPT !.w_estar = Plus(@, 1)]

Recovered(signature) ==
  VerifyAndRecoverGated(QuorumKey, Pinned, tray, signature, Weights, Recipient)

\* The contributions on the tray, as <<piece, quorum, position>>.
Places ==
  UNION { UNION { {<<i, q, j>> : j \in DOMAIN tray[i].quorums[q].contributions}
                  : q \in DOMAIN tray[i].quorums } : i \in DOMAIN tray }
At(p) == tray[p[1]].quorums[p[2]].contributions[p[3]]

AlteredOnTray ==
  Cardinality({i \in DOMAIN tray : \A s \in Sealings : tray[i].hint # HintOf(s)})
    + Cardinality({p \in Places : \A c \in made : At(p) # ContributionOf(c)})

----------------------------------------------------------------------------
Init == signed = {} /\ made = {} /\ tray = <<>> /\ released = {}

\* hint_attestation_message, signed by the quorum.
Attest(epoch) ==
  /\ signed' = signed \cup {Signed(QuorumKey,
                                   [i \in DOMAIN AttestedOf[epoch] |-> Piece(AttestedOf[epoch][i])],
                                   BindingAt(epoch))}
  /\ UNCHANGED <<made, tray, released>>

\* AuthorizerContribution::contribute
Authorize(c) ==
  /\ Cardinality(made) < MaxCalls
  /\ MayAuthorize(HintOf(c.sealing).eStar, BindingAt(c.sealing.epoch), c.gate)
  /\ made' = made \cup {c}
  /\ UNCHANGED <<signed, tray, released>>

\* A GatedPiece, with the hint as sealed or tampered with.
Place(s) ==
  /\ Len(tray) < MaxPieces
  /\ \E hint \in {HintOf(s)} \cup (IF AlteredOnTray < MaxAltered
                                      THEN {Tampered(HintOf(s))} ELSE {}) :
       tray' = Append(tray, [idx |-> s.idx, hint |-> hint, quorums |-> <<>>])
  /\ UNCHANGED <<signed, made, released>>

\* GateQuorum::new for the piece laid out last.
OpenQuorum(gate) ==
  /\ tray # <<>> /\ Len(Last(tray).quorums) < MaxQuorums
  /\ tray' = [tray EXCEPT ![Len(tray)].quorums =
                Append(@, [gate |-> gate, contributions |-> <<>>])]
  /\ UNCHANGED <<signed, made, released>>

Give(a) ==
  /\ tray # <<>> /\ Last(tray).quorums # <<>>
  /\ Len(Last(Last(tray).quorums).contributions) < MaxHanded
  /\ tray' = [tray EXCEPT ![Len(tray)].quorums[Len(Last(tray).quorums)].contributions =
                Append(@, a)]
  /\ UNCHANGED <<signed, made, released>>

\* A contribution put into the last quorum: it may have been made for another
\* piece, gate or epoch, be there already, or be altered.
Hand(c) == Give(ContributionOf(c))
HandAltered(c) ==
  /\ AlteredOnTray < MaxAltered
  /\ Give(Altered(ContributionOf(c)))

\* Slip: a failed recovery is returned like a scalar.
RecoverFailed(signature) ==
  /\ released' = released \cup {Recovered(signature)}
  /\ UNCHANGED <<signed, made, tray>>

\* verify_and_recover_gated.  A failed call returns an error.
Recover(signature) ==
  /\ Recovered(signature) # Failed
  /\ released' = released \cup {Recovered(signature)}
  /\ UNCHANGED <<signed, made, tray>>

\* What the coordinator can sign and show.
Shown == signed \cup (IF Attestable(tray) THEN {Signed(CoordinatorKey, tray, Pinned)} ELSE {})

Next ==
  \/ \E epoch \in DOMAIN AttestedOf : Attest(epoch)
  \/ \E c \in Calls : Authorize(c)
  \/ \E s \in Sealings : Place(s)
  \/ \E gate \in Gates : OpenQuorum(gate)
  \/ \E c \in made : Hand(c) \/ HandAltered(c)
  \/ \E signature \in Shown : Recover(signature)

Spec == Init /\ [][Next]_vars

----------------------------------------------------------------------------
\* The holders that authorized every attested piece of the pinned epoch,
\* for their own gate.
Authorized(h, s) == \E c \in made : c.holder = h /\ c.sealing = s /\ c.gate = GateOf[h]
Consenting == {h \in Holders : \A i \in DOMAIN AttestedOf[Now] : Authorized(h, AttestedOf[Now][i])}

\* Quorum q of the piece sealed by s holds one contribution of every holder
\* of its gate, made for that sealing and gate, and nothing else.
Complete(q, s) ==
  LET mine == HoldersOf(q.gate)
  IN  /\ Len(q.contributions) = Cardinality(mine)
      /\ \A h \in mine : \E j \in DOMAIN q.contributions : \E c \in made :
           /\ c.holder = h /\ c.sealing = s /\ c.gate = q.gate
           /\ q.contributions[j] = ContributionOf(c)

\* A tray recovers exactly when it shows, in order, the very hints the quorum
\* signed for the pinned epoch, under that signature, each with one complete
\* quorum per gate.  A tampered, resealed or stale hint, a contribution for
\* another piece, gate or epoch, listed twice, missing or altered, and a
\* signature of anyone else fail the whole recovery (hint.rs gate_sum_inner,
\* PinnedHintVerifier::verify_and_recover_gated).
RecoversIffAttestedAndComplete ==
  \A signature \in Shown :
    Recovered(signature) # Failed <=>
      LET attested == AttestedOf[Now]
      IN  /\ signature \in signed /\ signature.statement.b.epoch = Now
          /\ Len(tray) = Len(attested)
          /\ \A i \in DOMAIN tray :
               /\ tray[i].idx = attested[i].idx /\ tray[i].hint = HintOf(attested[i])
               /\ Len(tray[i].quorums) = Cardinality(Gates)
               /\ \A gate \in Gates : \E q \in DOMAIN tray[i].quorums :
                    tray[i].quorums[q].gate = gate /\ Complete(tray[i].quorums[q], attested[i])

\* Every contribution that qualifies for a quorum of the pinned recovery is
\* one a holder made for that piece's ephemeral, index and gate
\* (hint.rs gated_dleq_binding).
CountedAreAuthorized ==
  \A i \in DOMAIN tray : \A q \in DOMAIN tray[i].quorums :
    QuorumQualifies(tray[i].quorums[q], tray[i].hint.eStar, Pinned, tray[i].idx) =>
      \A j \in DOMAIN tray[i].quorums[q].contributions :
        \E c \in made :
          /\ tray[i].quorums[q].contributions[j] = ContributionOf(c)
          /\ c.gate = tray[i].quorums[q].gate /\ c.sealing.idx = tray[i].idx
          /\ c.sealing.epoch = Now /\ c.sealing.r = tray[i].hint.eStar

\* Recovery keeps the escrow's promise: nothing but the certified secret, and
\* only once every holder has authorized every attested piece.
Promise == INSTANCE Escrow WITH
  consent <- Consenting, released <- {<<Recipient, m>> : m \in released}
ImplementsEscrow == Promise!Spec
=============================================================================
