--------------------------- MODULE Recovery_proofs ---------------------------
(***************************************************************************)
(* For any quorums, seals, calls and whatever the coordinator presents:    *)
(* what qualifies was authorized for exactly this piece, gate and epoch,   *)
(* what recovers are the attested hints, and nothing comes out but the     *)
(* certified secret.                                                       *)
(*                                                                         *)
(* The invariant says that the tray holds contributions that some holder   *)
(* made, or alterations of them.  An altered one fails: its proof is of    *)
(* the images it had.  Any other one carries the binding it was made for.  *)
(***************************************************************************)
EXTENDS GatedRecovery, PayloadRecovery, CapsuleAlgebra_proofs, SequenceTheorems, FunctionTheorems

\* What may lie on the tray.
Handed == {ContributionOf(c) : c \in made} \cup {Altered(ContributionOf(c)) : c \in made}
QuorumsOver(H) == Seq([gate : Gates, contributions : Seq(H)])
PiecesOver(H) ==
  [ idx : {s.idx : s \in Sealings},
    hint : {HintOf(s) : s \in Sealings} \cup {Tampered(HintOf(s)) : s \in Sealings},
    quorums : QuorumsOver(H) ]

\* What the quorum has signed.
Attestation(epoch) ==
  Signed(QuorumKey, [i \in DOMAIN AttestedOf[epoch] |-> Piece(AttestedOf[epoch][i])], BindingAt(epoch))

IInv ==
  /\ made \subseteq Calls
  /\ tray \in Seq(PiecesOver(Handed))
  /\ signed \subseteq {Attestation(epoch) : epoch \in DOMAIN AttestedOf}
  /\ released \subseteq {Secret}

----------------------------------------------------------------------------
(* The tray.                                                               *)

\* More contributions made, more may be handed.
LEMMA TrayGrows ==
  ASSUME NEW H, NEW K, H \subseteq K
  PROVE  Seq(PiecesOver(H)) \subseteq Seq(PiecesOver(K))
<1>1. Seq(H) \subseteq Seq(K)
  BY SeqMonotonic
<1>2. [gate : Gates, contributions : Seq(H)] \subseteq [gate : Gates, contributions : Seq(K)]
  BY <1>1
<1>3. QuorumsOver(H) \subseteq QuorumsOver(K)
  BY <1>2, SeqMonotonic DEF QuorumsOver
<1>4. PiecesOver(H) \subseteq PiecesOver(K)
  BY <1>3 DEF PiecesOver
<1> QED BY <1>4, SeqMonotonic

LEMMA LastOf ==
  ASSUME NEW S, NEW s \in Seq(S), s # <<>>
  PROVE  Len(s) \in 1 .. Len(s) /\ Last(s) = s[Len(s)] /\ Last(s) \in S
<1>1. Len(s) \in Nat \ {0}
  BY EmptySeq
<1> QED BY <1>1, ElementOfSeq DEF Last

\* Replacing the quorums of the piece laid out last.
LEMMA TrayWith ==
  ASSUME NEW H, tray \in Seq(PiecesOver(H)), tray # <<>>, NEW quorums \in QuorumsOver(H)
  PROVE  [tray EXCEPT ![Len(tray)].quorums = quorums] \in Seq(PiecesOver(H))
<1>1. Len(tray) \in 1 .. Len(tray) /\ tray[Len(tray)] \in PiecesOver(H)
  BY LastOf
<1>2. [tray[Len(tray)] EXCEPT !.quorums = quorums] \in PiecesOver(H)
  BY <1>1 DEF PiecesOver
<1>3. [tray EXCEPT ![Len(tray)] = [tray[Len(tray)] EXCEPT !.quorums = quorums]] \in Seq(PiecesOver(H))
  BY <1>1, <1>2, ExceptSeq
<1> QED BY <1>3

LEMMA GiveKeeps ==
  ASSUME tray \in Seq(PiecesOver(Handed)), NEW a \in Handed, Give(a)
  PROVE  tray' \in Seq(PiecesOver(Handed))
<1> DEFINE qs == Last(tray).quorums  n == Len(qs)
           q == [qs[n] EXCEPT !.contributions = Append(@, a)]
<1>1. tray # <<>> /\ qs # <<>>
  BY DEF Give
<1>2. qs \in QuorumsOver(Handed)
  <2>1. Last(tray) \in PiecesOver(Handed)
    BY <1>1, LastOf
  <2> QED BY <2>1 DEF PiecesOver
<1>3. n \in 1 .. n /\ qs[n] \in [gate : Gates, contributions : Seq(Handed)]
  BY <1>1, <1>2, LastOf DEF QuorumsOver
<1>4. q \in [gate : Gates, contributions : Seq(Handed)]
  <2>1. Append(qs[n].contributions, a) \in Seq(Handed)
    BY <1>3
  <2>2. q = [qs[n] EXCEPT !.contributions = Append(qs[n].contributions, a)]
    OBVIOUS
  <2> HIDE DEF qs, n
  <2> QED BY <1>3, <2>1, <2>2
<1>5. [qs EXCEPT ![n] = q] \in QuorumsOver(Handed)
  BY <1>2, <1>3, <1>4, ExceptSeq DEF QuorumsOver
<1>6. Last(tray) = tray[Len(tray)]
  BY <1>1, LastOf
<1>7. tray' = [tray EXCEPT ![Len(tray)].quorums = [qs EXCEPT ![n] = q]]
  BY <1>6 DEF Give
<1> QED BY <1>1, <1>5, <1>7, TrayWith

----------------------------------------------------------------------------
(* The invariant.                                                          *)

\* A recovery returns the scalar of the pinned target, if any.
LEMMA CombinedIsCertified ==
  ASSUME NEW signature, Recovered(signature) # Failed
  PROVE  Recovered(signature) = Secret
BY DEF Recovered, VerifyAndRecoverGated, RecoverGated, Combine, Pinned, BindingAt

\* The initial states satisfy the inductive invariant.
LEMMA InitIInv == Init => IInv
BY EmptySeq DEF Init, IInv

\* Every step keeps the inductive invariant, action by action.
LEMMA NextIInv == IInv /\ [Next]_vars => IInv'
<1> SUFFICES ASSUME IInv, [Next]_vars PROVE IInv'
  OBVIOUS
<1> USE DEF IInv
<1>1. made' = made => Handed' = Handed /\ Seq(PiecesOver(Handed))' = Seq(PiecesOver(Handed))
  BY DEF Handed, ContributionOf, Altered, PiecesOver, QuorumsOver
<1>2. ASSUME NEW epoch \in DOMAIN AttestedOf, Attest(epoch) PROVE IInv'
  BY <1>1, <1>2 DEF Attest, Attestation
<1>3. ASSUME NEW c \in Calls, Authorize(c) PROVE IInv'
  <2>1. made' = made \cup {c} /\ UNCHANGED <<signed, tray, released>>
    BY <1>3 DEF Authorize
  <2>2. Handed \subseteq Handed'
    BY <2>1 DEF Handed, ContributionOf, Altered
  <2>3. Seq(PiecesOver(Handed)) \subseteq Seq(PiecesOver(Handed'))
    BY <2>2, TrayGrows
  <2>4. Seq(PiecesOver(Handed))' = Seq(PiecesOver(Handed'))
    BY DEF PiecesOver, QuorumsOver
  <2> QED BY <2>1, <2>3, <2>4
<1>4. ASSUME NEW s \in Sealings, Place(s) PROVE IInv'
  <2>1. PICK hint \in {HintOf(s), Tampered(HintOf(s))} :
          tray' = Append(tray, [idx |-> s.idx, hint |-> hint, quorums |-> <<>>])
    BY <1>4 DEF Place
  <2>2. [idx |-> s.idx, hint |-> hint, quorums |-> <<>>] \in PiecesOver(Handed)
    BY EmptySeq DEF PiecesOver, QuorumsOver
  <2>3. tray' \in Seq(PiecesOver(Handed))
    BY <2>1, <2>2
  <2> QED BY <1>1, <1>4, <2>3 DEF Place
<1>5. ASSUME NEW gate \in Gates, OpenQuorum(gate) PROVE IInv'
  <2> DEFINE qs == Append(tray[Len(tray)].quorums, [gate |-> gate, contributions |-> <<>>])
  <2>1. tray # <<>> /\ tray' = [tray EXCEPT ![Len(tray)].quorums = qs]
    BY <1>5 DEF OpenQuorum
  <2>2. tray[Len(tray)].quorums \in QuorumsOver(Handed)
    <3>1. tray[Len(tray)] \in PiecesOver(Handed)
      BY <2>1, LastOf
    <3> QED BY <3>1 DEF PiecesOver
  <2>3. [gate |-> gate, contributions |-> <<>>] \in [gate : Gates, contributions : Seq(Handed)]
    BY EmptySeq
  <2>4. qs \in QuorumsOver(Handed)
    BY <2>2, <2>3, SMTT(60) DEF QuorumsOver
  <2>5. tray' \in Seq(PiecesOver(Handed))
    BY <2>1, <2>4, TrayWith
  <2> QED BY <1>1, <1>5, <2>5 DEF OpenQuorum
<1>6. ASSUME NEW c \in made, Hand(c) \/ HandAltered(c) PROVE IInv'
  <2>1. PICK a \in Handed : Give(a)
    BY <1>6 DEF Hand, HandAltered, Handed
  <2> QED BY <1>1, <2>1, GiveKeeps DEF Give
<1>7. ASSUME NEW signature \in Shown, Recover(signature) PROVE IInv'
  BY <1>1, <1>7, CombinedIsCertified DEF Recover
<1>8. CASE UNCHANGED vars
  BY <1>1, <1>8 DEF vars
<1> QED BY <1>2, <1>3, <1>4, <1>5, <1>6, <1>7, <1>8 DEF Next

----------------------------------------------------------------------------
(* Contributions.                                                          *)

\* A contribution as it was made: its proof is of its own images.
LEMMA ContributionFields ==
  ASSUME RecoveryAssumption, NEW c \in Calls
  PROVE  LET a == ContributionOf(c)
         IN  /\ a.w_estar \in Scalars
             /\ a.dleq.statement.images = <<a.w_g, a.w_estar>>
             /\ a.dleq.statement.binding =
                  GatedDleqBinding(c.sealing.r, BindingAt(c.sealing.epoch), c.sealing.idx, c.gate)
<1> DEFINE w == ShareOf[c.holder]
           r == c.sealing.r
           bases == <<1, r>>
<1>1. w \in Scalars /\ r \in Scalars
  BY DEF RecoveryAssumption
<1>2. HintOf(c.sealing).eStar = r
  BY DEF HintOf, MintHint
<1>3. Images(w, bases) = <<Times(w, 1), Times(w, r)>>
  BY DEF Images
<1>4. Times(w, r) \in Scalars
  <2>1. PICK p \in Int : p = w * r
    BY <1>1 DEF Scalars
  <2> QED BY <2>1, AlgebraAssumption DEF Times, Scalars
<1>5. ContributionOf(c).dleq.statement =
        [ bases |-> bases, images |-> Images(w, bases),
          binding |-> GatedDleqBinding(r, BindingAt(c.sealing.epoch), c.sealing.idx, c.gate) ]
  BY <1>2 DEF ContributionOf, Authorization, Prove
<1>6. /\ ContributionOf(c).w_g = Images(w, bases)[1]
      /\ ContributionOf(c).w_estar = Images(w, bases)[2]
  BY <1>2 DEF ContributionOf, Authorization, Prove
<1> QED BY <1>3, <1>4, <1>5, <1>6

\* An altered contribution verifies for nothing.
LEMMA AlteredFails ==
  ASSUME RecoveryAssumption, NEW c \in Calls, NEW eStar, NEW binding
  PROVE  ~AuthorizationVerifies(Altered(ContributionOf(c)), eStar, binding)
<1> DEFINE a == ContributionOf(c)
<1>1. a.w_estar \in Scalars /\ a.dleq.statement.images = <<a.w_g, a.w_estar>>
  BY ContributionFields
<1>2. Plus(a.w_estar, 1) # a.w_estar
  <2>1. CASE a.w_estar + 1 < Order
    BY <1>1, <2>1, AlgebraAssumption DEF Plus, Scalars
  <2>2. CASE a.w_estar + 1 = Order
    <3>1. Order % Order = 0
      BY AlgebraAssumption
    <3> QED BY <1>1, <2>2, <3>1, AlgebraAssumption DEF Plus, Scalars
  <2> QED BY <1>1, <2>1, <2>2, AlgebraAssumption DEF Scalars
<1>3. /\ Altered(a).dleq = a.dleq /\ Altered(a).w_g = a.w_g
      /\ Altered(a).w_estar = Plus(a.w_estar, 1)
  BY DEF Altered, ContributionOf, Authorization
<1> HIDE DEF a
<1>4. ASSUME AuthorizationVerifies(Altered(a), eStar, binding) PROVE FALSE
  <2>1. a.dleq.statement.images = <<a.w_g, Plus(a.w_estar, 1)>>
    BY <1>3, <1>4 DEF AuthorizationVerifies, ProofVerifies
  <2> QED BY <1>1, <1>2, <2>1
<1> QED BY <1>4 DEF a

\* What verifies is a contribution made for this ephemeral, piece, gate and
\* epoch.
LEMMA VerifiedIsAuthorized ==
  ASSUME RecoveryAssumption, made \subseteq Calls, NEW a \in Handed, NEW eStar, NEW idx, NEW gate,
         AuthorizationVerifies(a, eStar, GatedDleqBinding(eStar, Pinned, idx, gate))
  PROVE  \E c \in made : /\ a = ContributionOf(c)
                         /\ c.gate = gate /\ c.sealing.idx = idx
                         /\ c.sealing.epoch = Now /\ c.sealing.r = eStar
<1>1. PICK c \in made : a = ContributionOf(c)
  BY AlteredFails DEF Handed
<1>2. GatedDleqBinding(c.sealing.r, BindingAt(c.sealing.epoch), c.sealing.idx, c.gate)
        = GatedDleqBinding(eStar, Pinned, idx, gate)
  BY <1>1, ContributionFields DEF AuthorizationVerifies, ProofVerifies
<1>3. /\ c.sealing.r = eStar /\ c.sealing.idx = idx /\ c.gate = gate
      /\ Under(BindingAt(c.sealing.epoch)) = Under(Pinned)
  BY <1>2 DEF GatedDleqBinding
<1>4. c.sealing.epoch = Now
  BY <1>3 DEF Under, Pinned, BindingAt
<1> QED BY <1>1, <1>3, <1>4

----------------------------------------------------------------------------
\* Every contribution of a quorum that qualifies was made for this piece,
\* gate and epoch (hint.rs, gate_sum_inner).
THEOREM QuorumsAreAuthorized ==
  ASSUME RecoveryAssumption PROVE Spec => []CountedAreAuthorized
<1>1. IInv => CountedAreAuthorized
  <2> SUFFICES ASSUME IInv, NEW i \in DOMAIN tray, NEW q \in DOMAIN tray[i].quorums,
                      QuorumQualifies(tray[i].quorums[q], tray[i].hint.eStar, Pinned, tray[i].idx),
                      NEW j \in DOMAIN tray[i].quorums[q].contributions
               PROVE  \E c \in made :
                        /\ tray[i].quorums[q].contributions[j] = ContributionOf(c)
                        /\ c.gate = tray[i].quorums[q].gate /\ c.sealing.idx = tray[i].idx
                        /\ c.sealing.epoch = Now /\ c.sealing.r = tray[i].hint.eStar
    BY DEF CountedAreAuthorized
  <2> DEFINE quorum == tray[i].quorums[q]
  <2>1. tray[i] \in PiecesOver(Handed)
    BY LenProperties, ElementOfSeq DEF IInv
  <2>2. tray[i].quorums \in QuorumsOver(Handed)
    BY <2>1 DEF PiecesOver
  <2>3. quorum \in [gate : Gates, contributions : Seq(Handed)]
    BY <2>2, LenProperties, ElementOfSeq DEF QuorumsOver
  <2>4. quorum.contributions[j] \in Handed
    BY <2>3, LenProperties, ElementOfSeq
  <2>5. AuthorizationVerifies(quorum.contributions[j], tray[i].hint.eStar,
                              GatedDleqBinding(tray[i].hint.eStar, Pinned, tray[i].idx, quorum.gate))
    BY DEF QuorumQualifies
  <2> QED BY <2>4, <2>5, VerifiedIsAuthorized DEF IInv
<1> QED BY <1>1, InitIInv, NextIInv, PTL DEF Spec

----------------------------------------------------------------------------
\* The hints of a tray that recovers are those the quorum attested for the
\* pinned epoch.
OnlyAttestedHints ==
  \A signature \in Shown :
    Recovered(signature) # Failed =>
      LET attested == AttestedOf[Now]
      IN  {<<tray[i].idx, tray[i].hint>> : i \in DOMAIN tray}
            = {<<attested[i].idx, HintOf(attested[i])>> : i \in DOMAIN attested}

\* A recovery that succeeds was shown the quorum's signature of the pinned
\* epoch, over the hints of this tray.
LEMMA RecoveredWasAttested ==
  ASSUME RecoveryAssumption, IInv, NEW signature \in Shown, Recovered(signature) # Failed
  PROVE  LET attested == AttestedOf[Now]
         IN  /\ signature \in signed /\ signature = Signed(QuorumKey, tray, Pinned)
             /\ signature = Attestation(Now)
             /\ {<<tray[i].idx, tray[i].hint>> : i \in DOMAIN tray}
                  = {<<attested[i].idx, HintOf(attested[i])>> : i \in DOMAIN attested}
<1>1. signature = Signed(QuorumKey, tray, Pinned)
  BY DEF Recovered, VerifyAndRecoverGated, PinnedVerify
<1>2. signature \in signed
  BY <1>1 DEF Shown, Signed, RecoveryAssumption
<1>3. PICK epoch \in DOMAIN AttestedOf : signature = Attestation(epoch)
  BY <1>2 DEF IInv
<1> DEFINE attested == AttestedOf[epoch]
           pieces == [i \in DOMAIN attested |-> Piece(attested[i])]
<1>4. AttestationStatement(tray, Pinned) = AttestationStatement(pieces, BindingAt(epoch))
  BY <1>1, <1>3 DEF Attestation, Signed
<1>5. /\ Under(Pinned) = Under(BindingAt(epoch))
      /\ {<<tray[i].idx, tray[i].hint>> : i \in DOMAIN tray}
           = {<<pieces[i].idx, pieces[i].hint>> : i \in DOMAIN pieces}
  BY <1>4 DEF AttestationStatement
<1>6. epoch = Now
  BY <1>5 DEF Under, Pinned, BindingAt
<1>7. {<<pieces[i].idx, pieces[i].hint>> : i \in DOMAIN pieces}
        = {<<attested[i].idx, HintOf(attested[i])>> : i \in DOMAIN attested}
  BY DEF Piece
<1> QED BY <1>1, <1>2, <1>3, <1>5, <1>6, <1>7

\* A signature that is shown and verifies is the quorum's over these very
\* hints, and only the certified scalar is released (hint.rs,
\* PinnedHintVerifier::verify_and_recover_gated).
THEOREM RecoveryIsPinned ==
  ASSUME RecoveryAssumption PROVE Spec => [](OnlyAttestedHints /\ released \subseteq {Secret})
<1>1. IInv => OnlyAttestedHints
  BY RecoveredWasAttested DEF OnlyAttestedHints
<1>2. IInv => released \subseteq {Secret}
  BY DEF IInv
<1> QED BY <1>1, <1>2, InitIInv, NextIInv, PTL DEF Spec

----------------------------------------------------------------------------
(* What a dealt roster and an honest seal give.                            *)

\* The roster's key, and the seals under it, are scalars and none vanishes.
LEMMA Dealt ==
  ASSUME RecoveryAssumption, DealingAssumption
  PROVE  /\ Order \in Nat \ {0, 1} /\ Scalars \subseteq Int
         /\ \A s \in Sealings : /\ s.r \in Scalars \ {0} /\ HintOf(s).eStar = s.r
                                /\ Admissible(Under(BindingAt(s.epoch)))
         /\ \A h \in Holders : ShareOf[h] \in Scalars \ {0}
         /\ \A gate \in Gates : gate \in Scalars \ {0} /\ HoldersOf(gate) \in SUBSET Holders
<1>1. Order \in Nat \ {0, 1} /\ Scalars \subseteq Int
  BY AlgebraAssumption DEF Scalars
<1>2. ASSUME NEW s \in Sealings
      PROVE  /\ s.r \in Scalars \ {0} /\ HintOf(s).eStar = s.r
             /\ Admissible(Under(BindingAt(s.epoch)))
  BY DEF RecoveryAssumption, MayMint, HintOf, MintHint
<1>3. \A h \in Holders : ShareOf[h] \in Scalars \ {0}
  BY DEF DealingAssumption
<1>4. \A gate \in Gates : gate \in Scalars \ {0} /\ HoldersOf(gate) \in SUBSET Holders
  BY DEF DealingAssumption, HoldersOf, Identity
<1> QED BY <1>1, <1>2, <1>3, <1>4

\* A holder's contribution is its share of g* and of the ephemeral, and
\* verifies for the piece it was made for.
LEMMA Authorizations ==
  ASSUME RecoveryAssumption, DealingAssumption, NEW c \in Calls, c.sealing.epoch = Now
  PROVE  LET a == ContributionOf(c)
             r == c.sealing.r
         IN  /\ a.w_g = ShareOf[c.holder] /\ a.w_estar = Times(ShareOf[c.holder], r)
             /\ AuthorizationVerifies(a, r, GatedDleqBinding(r, Pinned, c.sealing.idx, c.gate))
<1> DEFINE w == ShareOf[c.holder]
           r == c.sealing.r
           a == ContributionOf(c)
           bases == <<1, r>>
<1>1. w \in Scalars \ {0} /\ r \in Scalars \ {0} /\ c.sealing \in Sealings /\ Order \in Nat \ {0, 1}
  BY Dealt DEF DealingAssumption, RecoveryAssumption
<1>2. HintOf(c.sealing).eStar = r
  BY <1>1, Dealt
<1>3. Images(w, bases) = <<Times(w, 1), Times(w, r)>>
  BY DEF Images
<1>4. Times(w, 1) = w
  <2>1. PICK x \in Scalars : x = w
    BY <1>1
  <2>2. x \in Int /\ x * 1 = x /\ x % Order = x
    BY Dealt, SameReduces
  <2> QED BY <2>1, <2>2 DEF Times
<1>5. Times(w, r) # 0
  BY <1>1, NoZeroDivisors
<1>6. BindingAt(c.sealing.epoch) = Pinned
  BY DEF Pinned
<1>7. /\ a.w_g = Images(w, bases)[1] /\ a.w_estar = Images(w, bases)[2]
      /\ a.dleq.statement = [ bases |-> bases, images |-> Images(w, bases),
                              binding |-> GatedDleqBinding(r, Pinned, c.sealing.idx, c.gate) ]
  BY <1>2, <1>6 DEF ContributionOf, Authorization, Prove
<1>8. BasesAdmissible(bases)
  BY <1>1 DEF BasesAdmissible, Identity
<1> HIDE DEF a
<1>9. a.w_g = w /\ a.w_estar = Times(w, r)
  BY <1>3, <1>4, <1>7
<1>10. AuthorizationVerifies(a, r, GatedDleqBinding(r, Pinned, c.sealing.idx, c.gate))
  BY <1>1, <1>3, <1>4, <1>5, <1>7, <1>8, <1>9 DEF AuthorizationVerifies, ProofVerifies, Identity
<1> QED BY <1>9, <1>10 DEF a

----------------------------------------------------------------------------
(* One quorum.                                                             *)

\* who names the holder of every contribution: one for each of the gate's
\* holders, each made for the piece sealed by s.
Matching(quorum, s, who) ==
  /\ who \in Bijection(DOMAIN quorum.contributions, HoldersOf(quorum.gate))
  /\ \A j \in DOMAIN quorum.contributions : \E c \in made :
       /\ c.holder = who[j] /\ c.sealing = s /\ c.gate = quorum.gate
       /\ quorum.contributions[j] = ContributionOf(c)

\* What qualifies comes from all of the gate's holders: no other set of
\* shares sums to the gate.
LEMMA QualifiedMatches ==
  ASSUME RecoveryAssumption, DealingAssumption, made \subseteq Calls,
         NEW s \in Sealings, s.epoch = Now,
         NEW quorum \in [gate : Gates, contributions : Seq(Handed)],
         QuorumQualifies(quorum, s.r, Pinned, s.idx)
  PROVE  \E who : Matching(quorum, s, who)
<1> DEFINE cs == quorum.contributions
           J == DOMAIN cs
           Made(j, c) == c.sealing = s /\ c.gate = quorum.gate /\ cs[j] = ContributionOf(c)
<1>1. cs \in Seq(Handed) /\ J = 1 .. Len(cs) /\ Len(cs) \in Nat /\ IsFiniteSet(J)
  <2>1. cs \in Seq(Handed)
    OBVIOUS
  <2>2. Len(cs) \in Nat /\ J = 1 .. Len(cs)
    BY <2>1, LenProperties
  <2>3. IsFiniteSet(1 .. Len(cs))
    BY <2>2, FS_Interval
  <2> QED BY <2>1, <2>2, <2>3
<1>2. ASSUME NEW j \in J PROVE \E c \in made : Made(j, c)
  <2>1. cs[j] \in Handed
    BY <1>1, ElementOfSeq
  <2>2. AuthorizationVerifies(cs[j], s.r, GatedDleqBinding(s.r, Pinned, s.idx, quorum.gate))
    BY DEF QuorumQualifies
  <2>3. PICK c \in made : /\ cs[j] = ContributionOf(c) /\ c.gate = quorum.gate
                          /\ c.sealing.idx = s.idx /\ c.sealing.epoch = Now /\ c.sealing.r = s.r
    BY <2>1, <2>2, VerifiedIsAuthorized
  <2>4. c.sealing = s
    BY <2>3 DEF RecoveryAssumption, DealingAssumption
  <2> QED BY <2>3, <2>4
<1> DEFINE who == [j \in J |-> (CHOOSE c \in made : Made(j, c)).holder]
<1>3. ASSUME NEW j \in J
      PROVE  /\ \E c \in made : c.holder = who[j] /\ Made(j, c)
             /\ who[j] \in Holders /\ cs[j].w_g = ShareOf[who[j]]
  <2>1. PICK c \in made : c.holder = who[j] /\ Made(j, c)
    BY <1>2
  <2>2. c \in Calls /\ c.holder \in Holders
    BY DEF DealingAssumption
  <2>3. cs[j].w_g = ShareOf[c.holder]
    BY <2>1, <2>2, Authorizations
  <2> QED BY <2>1, <2>2, <2>3
<1>a. DOMAIN who = J
  OBVIOUS
<1> HIDE DEF who
<1>4. ASSUME NEW i \in J, NEW j \in J, who[i] = who[j] PROVE i = j
  <2>1. cs[i].w_g = cs[j].w_g
    BY <1>3, <1>4
  <2>2. \A k \in J : \A l \in 1 .. k - 1 : cs[l].w_g # cs[k].w_g
    BY DEF QuorumQualifies
  <2>3. i \in 1 .. Len(cs) /\ j \in 1 .. Len(cs)
    BY <1>1
  <2> QED BY <1>1, <2>1, <2>2, <2>3
<1> DEFINE H == {who[j] : j \in J}
           f == [h \in H |-> ShareOf[h]]
           g == [j \in J |-> cs[j].w_g]
<1>5. H \in SUBSET Holders /\ IsFiniteSet(H)
  <2>1. H \in SUBSET Holders
    BY <1>3
  <2> QED BY <2>1, FS_Subset DEF DealingAssumption
<1>6. f \in [H -> Int] /\ g \in [J -> Int]
  <2>1. \A h \in Holders : ShareOf[h] \in Int
    BY Dealt
  <2> QED BY <1>3, <2>1
<1>7. who \in [J -> H] /\ \A h \in H : \E j \in J : who[j] = h
  <2>0. who = [j \in J |-> who[j]]
    BY DEF who
  <2> QED BY <2>0
<1>8. \A j \in J : g[j] = f[who[j]]
  BY <1>3
<1>9. SumFunction(g) = SumFunction(f)
  <2> HIDE DEF g, f, H, J
  <2>1. Renames(who, g, J, f, H)
    BY <1>4, <1>6, <1>7, <1>8 DEF Renames
  <2> QED BY <1>1, <1>5, <2>1, SumReindexed
<1>10. SumOver(LAMBDA h : ShareOf[h], H) = quorum.gate
  BY <1>9 DEF QuorumQualifies, SumOver
<1>11. H = HoldersOf(quorum.gate)
  BY <1>5, <1>10 DEF DealingAssumption
<1>12. who \in Bijection(J, HoldersOf(quorum.gate))
  <2> HIDE DEF J, H
  <2> QED BY <1>4, <1>7, <1>11, Fun_IsBij
<1>13. Matching(quorum, s, who)
  BY <1>3, <1>12 DEF Matching
<1> QED BY <1>13

\* No two holders were dealt the same share.
LEMMA SharesDistinct ==
  ASSUME DealingAssumption, NEW g \in Holders, NEW h \in Holders, ShareOf[g] = ShareOf[h]
  PROVE  g = h
BY DEF DealingAssumption

\* A complete quorum has nothing beside one contribution of each holder.
LEMMA CompleteMatches ==
  ASSUME RecoveryAssumption, DealingAssumption, made \subseteq Calls,
         NEW s \in Sealings, s.epoch = Now,
         NEW quorum \in [gate : Gates, contributions : Seq(Handed)], Complete(quorum, s)
  PROVE  \E who : Matching(quorum, s, who)
<1> DEFINE cs == quorum.contributions
           J == DOMAIN cs
           mine == HoldersOf(quorum.gate)
           Made(j, c, h) == /\ c.holder = h /\ c.sealing = s /\ c.gate = quorum.gate
                            /\ cs[j] = ContributionOf(c)
<1>1. J = 1 .. Len(cs) /\ Len(cs) \in Nat /\ IsFiniteSet(J) /\ Cardinality(J) = Len(cs)
  <2>1. cs \in Seq(Handed)
    OBVIOUS
  <2>2. Len(cs) \in Nat /\ J = 1 .. Len(cs)
    BY <2>1, LenProperties
  <2>3. IsFiniteSet(1 .. Len(cs)) /\ Cardinality(1 .. Len(cs)) = Len(cs)
    BY <2>2, FS_Interval
  <2> QED BY <2>2, <2>3
<1>2. Len(cs) = Cardinality(mine) /\ \A h \in mine : \E j \in J : \E c \in made : Made(j, c, h)
  BY DEF Complete
<1> DEFINE at == [h \in mine |-> CHOOSE j \in J : \E c \in made : Made(j, c, h)]
<1>3. at \in [mine -> J] /\ \A h \in mine : \E c \in made : Made(at[h], c, h)
  BY <1>2
<1>4. \A h \in mine : ShareOf[h] = cs[at[h]].w_g
  <2> SUFFICES ASSUME NEW h \in mine PROVE ShareOf[h] = cs[at[h]].w_g
    OBVIOUS
  <2>1. PICK c \in made : Made(at[h], c, h)
    BY <1>3
  <2>2. c \in Calls
    OBVIOUS
  <2> QED BY <2>1, <2>2, Authorizations
<1>5. mine \in SUBSET Holders
  BY DEF HoldersOf
<1> HIDE DEF at
<1>6. \A g, h \in mine : at[g] = at[h] => g = h
  <2> HIDE DEF mine, cs
  <2> SUFFICES ASSUME NEW g \in mine, NEW h \in mine, at[g] = at[h] PROVE g = h
    OBVIOUS
  <2>1. ShareOf[g] = ShareOf[h]
    BY <1>4
  <2>2. g \in Holders /\ h \in Holders
    BY <1>5
  <2> QED BY <2>1, <2>2, SharesDistinct
<1>7. at \in Injection(mine, J)
  BY <1>3, <1>6, Fun_IsInj
<1>8. at \in Bijection(mine, J)
  <2>0. IsFiniteSet(mine)
    BY <1>5, FS_Subset DEF DealingAssumption
  <2> HIDE DEF mine, J
  <2>1. at \in Surjection(mine, J)
    BY <1>1, <1>2, <1>7, <2>0, FS_Injection
  <2> QED BY <2>1, <1>7, Fun_IsBij
<1> DEFINE who == Inverse(at, mine, J)
<1>9. who \in Bijection(J, mine) /\ \A h \in mine : who[at[h]] = h
  BY <1>8, Fun_BijInverse
<1>10. \A j \in J : \E h \in mine : at[h] = j
  BY <1>8, Fun_BijectionProperties
<1> HIDE DEF who
<1>11. \A j \in J : \E c \in made : Made(j, c, who[j])
  BY <1>3, <1>9, <1>10
<1>12. Matching(quorum, s, who)
  BY <1>9, <1>11 DEF Matching
<1> QED BY <1>12

\* One contribution of each holder of the gate qualifies, and comes to the
\* ephemeral's multiple of the gate.
LEMMA MatchingQualifies ==
  ASSUME RecoveryAssumption, DealingAssumption, made \subseteq Calls,
         NEW s \in Sealings, s.epoch = Now,
         NEW quorum \in [gate : Gates, contributions : Seq(Handed)],
         NEW who, Matching(quorum, s, who)
  PROVE  LET cs == quorum.contributions
             sum == SumFunction([j \in DOMAIN cs |-> cs[j].w_estar])
         IN  /\ QuorumQualifies(quorum, s.r, Pinned, s.idx)
             /\ Complete(quorum, s)
             /\ sum \in Int /\ Same(sum, s.r * quorum.gate)
<1> DEFINE cs == quorum.contributions
           J == DOMAIN cs
           mine == HoldersOf(quorum.gate)
<1>1. J = 1 .. Len(cs) /\ Len(cs) \in Nat /\ IsFiniteSet(J) /\ Cardinality(J) = Len(cs)
  <2>1. cs \in Seq(Handed)
    OBVIOUS
  <2>2. Len(cs) \in Nat /\ J = 1 .. Len(cs)
    BY <2>1, LenProperties
  <2>3. IsFiniteSet(1 .. Len(cs)) /\ Cardinality(1 .. Len(cs)) = Len(cs)
    BY <2>2, FS_Interval
  <2> QED BY <2>2, <2>3
<1>2. /\ who \in [J -> mine] /\ \A i, j \in J : who[i] = who[j] => i = j
      /\ \A h \in mine : \E j \in J : who[j] = h
  <2>1. who \in Bijection(J, mine)
    BY DEF Matching
  <2> HIDE DEF J, mine
  <2> QED BY <2>1, Fun_BijectionProperties
<1>3. /\ mine \in SUBSET Holders /\ IsFiniteSet(mine)
      /\ quorum.gate \in Scalars \ {0} /\ s.r \in Scalars \ {0}
  <2>1. mine \in SUBSET Holders
    BY DEF HoldersOf
  <2> QED BY <2>1, Dealt, FS_Subset DEF DealingAssumption
<1>4. ASSUME NEW j \in J
      PROVE  /\ cs[j].w_g = ShareOf[who[j]] /\ cs[j].w_estar = Times(ShareOf[who[j]], s.r)
             /\ AuthorizationVerifies(cs[j], s.r, GatedDleqBinding(s.r, Pinned, s.idx, quorum.gate))
  <2>1. PICK c \in made : /\ c.holder = who[j] /\ c.sealing = s /\ c.gate = quorum.gate
                          /\ cs[j] = ContributionOf(c)
    BY DEF Matching
  <2>2. c \in Calls
    OBVIOUS
  <2> QED BY <2>1, <2>2, Authorizations
<1> DEFINE f == [h \in mine |-> ShareOf[h]]
           g == [j \in J |-> cs[j].w_g]
           e == [j \in J |-> cs[j].w_estar]
<1>5. /\ f \in [mine -> Int] /\ g \in [J -> Int] /\ e \in [J -> Int]
      /\ \A j \in J : Same(e[j], s.r * g[j])
  <2>1. \A h \in mine : ShareOf[h] \in Int
    BY <1>3, Dealt
  <2>2. ASSUME NEW j \in J PROVE g[j] \in Int /\ e[j] \in Int /\ Same(e[j], s.r * g[j])
    <3>1. PICK w \in Int : w = ShareOf[who[j]]
      BY <1>2, <2>1
    <3>2. PICK r \in Int : r = s.r
      BY <1>3, Dealt
    <3>3. Times(w, r) \in Scalars /\ Same(Times(w, r), w * r)
      BY SameOperations
    <3>4. w * r = r * w /\ Scalars \subseteq Int
      BY Dealt
    <3> QED BY <1>4, <3>1, <3>2, <3>3, <3>4
  <2> QED BY <2>1, <2>2
<1>6. SumFunction(g) = SumFunction(f)
  <2>1. \A j \in J : g[j] = f[who[j]]
    BY <1>2, <1>4
  <2> HIDE DEF g, f, e, J, mine
  <2>2. Renames(who, g, J, f, mine)
    BY <1>2, <1>5, <2>1 DEF Renames
  <2> QED BY <1>1, <1>3, <2>2, SumReindexed
<1>7. SumFunction(f) % Order = quorum.gate
  <2>1. SumOver(LAMBDA h : ShareOf[h], mine) = quorum.gate
    BY <1>3 DEF DealingAssumption
  <2> QED BY <2>1 DEF SumOver
<1>8. cs # <<>>
  <2> SUFFICES ASSUME cs = <<>> PROVE FALSE
    OBVIOUS
  <2>1. J = {}
    OBVIOUS
  <2>2. SumFunction(g) = 0
    BY <1>5, <2>1, SumEmpty
  <2>3. 0 % Order = 0
    BY Dealt, SameReduces DEF Scalars
  <2> QED BY <1>3, <1>6, <1>7, <2>2, <2>3
<1>9. ASSUME NEW j \in J, NEW k \in 1 .. j - 1 PROVE cs[k].w_g # cs[j].w_g
  <2>1. k \in J /\ k # j
    BY <1>1
  <2>2. who[k] # who[j] /\ who[k] \in Holders /\ who[j] \in Holders
    BY <1>2, <1>3, <2>1
  <2>3. ShareOf[who[k]] # ShareOf[who[j]]
    BY <2>2 DEF DealingAssumption
  <2> QED BY <1>4, <2>1, <2>3
<1>10. SumOver(LAMBDA j : cs[j].w_g, J) = quorum.gate
  BY <1>6, <1>7 DEF SumOver
<1>11. QuorumQualifies(quorum, s.r, Pinned, s.idx)
  BY <1>4, <1>8, <1>9, <1>10 DEF QuorumQualifies
<1>12. Complete(quorum, s)
  <2>1. Len(cs) = Cardinality(mine)
    <3>1. who \in Bijection(J, mine)
      BY DEF Matching
    <3>2. ExistsBijection(J, mine)
      BY <3>1 DEF ExistsBijection
    <3> HIDE DEF J, mine
    <3> QED BY <1>1, <3>2, FS_Bijection
  <2>2. \A h \in mine : \E j \in J : \E c \in made :
          /\ c.holder = h /\ c.sealing = s /\ c.gate = quorum.gate /\ cs[j] = ContributionOf(c)
    BY <1>2 DEF Matching
  <2> QED BY <2>1, <2>2 DEF Complete
<1>13. SumFunction(e) \in Int /\ Same(SumFunction(e), s.r * quorum.gate)
  <2>1. s.r \in Int /\ quorum.gate \in Int
    BY <1>3, Dealt
  <2>2. /\ SumFunction(e) \in Int /\ SumFunction(g) \in Int
        /\ Same(SumFunction(e), s.r * SumFunction(g))
    <3> HIDE DEF e, g, J
    <3> QED BY <1>1, <1>5, <2>1, SumScales
  <2>3. PICK r \in Int, x \in Int, y \in Int, z \in Int :
          r = s.r /\ x = SumFunction(e) /\ y = SumFunction(g) /\ z = quorum.gate
    BY <2>1, <2>2
  <2>4. y % Order = z
    BY <1>6, <1>7, <2>3
  <2>5. Same(z, y)
    BY <2>4, SameReduces
  <2>6. Same(y, z) /\ Same(r, r)
    BY <2>5, SameIsEquivalence
  <2>7. Same(r * y, r * z) /\ r * y \in Int /\ r * z \in Int
    BY <2>6, SameArithmetic
  <2>8. Same(x, r * z)
    BY <2>2, <2>3, <2>7, SameIsEquivalence
  <2> QED BY <2>2, <2>3, <2>8
<1> QED BY <1>11, <1>12, <1>13

----------------------------------------------------------------------------
(* The quorums of one piece.                                               *)

\* Every gate has one complete quorum: the quorums are named by their gates.
CompleteQuorums(quorums, s) ==
  /\ Len(quorums) = Cardinality(Gates)
  /\ \A gate \in Gates : \E q \in DOMAIN quorums :
       quorums[q].gate = gate /\ Complete(quorums[q], s)

LEMMA NamedByGates ==
  ASSUME RecoveryAssumption, DealingAssumption, NEW H, NEW quorums \in QuorumsOver(H),
         Len(quorums) = Cardinality(Gates),
         \A gate \in Gates : \E q \in DOMAIN quorums : quorums[q].gate = gate
  PROVE  /\ IsFiniteSet(DOMAIN quorums)
         /\ \A q \in DOMAIN quorums : quorums[q] \in [gate : Gates, contributions : Seq(H)]
         /\ \A p, q \in DOMAIN quorums : quorums[p].gate = quorums[q].gate => p = q
<1> DEFINE Q == DOMAIN quorums
           at == [q \in Q |-> quorums[q].gate]
<1>1. quorums \in Seq([gate : Gates, contributions : Seq(H)])
  BY DEF QuorumsOver
<1>2. Q = 1 .. Len(quorums) /\ Len(quorums) \in Nat
  BY <1>1, LenProperties
<1>3. IsFiniteSet(Q) /\ Cardinality(Q) = Cardinality(Gates)
  <2>1. IsFiniteSet(1 .. Len(quorums)) /\ Cardinality(1 .. Len(quorums)) = Len(quorums)
    BY <1>2, FS_Interval
  <2> QED BY <1>2, <2>1
<1>4. \A q \in Q : quorums[q] \in [gate : Gates, contributions : Seq(H)]
  BY <1>1, <1>2, ElementOfSeq
<1>5. at \in [Q -> Gates] /\ \A gate \in Gates : \E q \in Q : at[q] = gate
  <2>1. \A q \in Q : quorums[q].gate \in Gates
    BY <1>4
  <2> QED BY <2>1
<1> HIDE DEF Q, at
<1>6. at \in Surjection(Q, Gates)
  BY <1>5, Fun_IsSurj
<1>7. at \in Injection(Q, Gates)
  BY <1>3, <1>6, FS_SurjSameCardinalityImpliesInj
<1>8. \A p, q \in Q : at[p] = at[q] => p = q
  BY <1>7, Fun_InjectionProperties
<1> QED BY <1>3, <1>4, <1>8 DEF Q, at

\* The quorums of a piece qualify exactly when every gate has a complete one.
LEMMA QualifyIffComplete ==
  ASSUME RecoveryAssumption, DealingAssumption, made \subseteq Calls,
         NEW s \in Sealings, s.epoch = Now, NEW quorums \in QuorumsOver(Handed)
  PROVE  QuorumsQualify(quorums, s.r, Pinned, s.idx) <=> CompleteQuorums(quorums, s)
<1>1. Pinned.gates = Gates
  BY DEF Pinned, BindingAt
<1>2. ASSUME QuorumsQualify(quorums, s.r, Pinned, s.idx) PROVE CompleteQuorums(quorums, s)
  <2>1. Len(quorums) = Cardinality(Gates) /\ {quorums[q].gate : q \in DOMAIN quorums} = Gates
    BY <1>1, <1>2 DEF QuorumsQualify
  <2>2. \A gate \in Gates : \E q \in DOMAIN quorums : quorums[q].gate = gate
    BY <2>1
  <2>3. ASSUME NEW q \in DOMAIN quorums PROVE Complete(quorums[q], s)
    <3>1. quorums[q] \in [gate : Gates, contributions : Seq(Handed)]
      BY <2>1, <2>2, NamedByGates
    <3>2. QuorumQualifies(quorums[q], s.r, Pinned, s.idx)
      BY <1>2 DEF QuorumsQualify
    <3>3. PICK who : Matching(quorums[q], s, who)
      BY <3>1, <3>2, QualifiedMatches
    <3> QED BY <3>1, <3>3, MatchingQualifies
  <2> QED BY <2>1, <2>2, <2>3 DEF CompleteQuorums
<1>3. ASSUME CompleteQuorums(quorums, s) PROVE QuorumsQualify(quorums, s.r, Pinned, s.idx)
  <2>1. /\ Len(quorums) = Cardinality(Gates)
        /\ \A gate \in Gates : \E q \in DOMAIN quorums :
             quorums[q].gate = gate /\ Complete(quorums[q], s)
    BY <1>3 DEF CompleteQuorums
  <2>2. ASSUME NEW q \in DOMAIN quorums
        PROVE  quorums[q].gate \in Gates /\ QuorumQualifies(quorums[q], s.r, Pinned, s.idx)
    <3>1. quorums[q] \in [gate : Gates, contributions : Seq(Handed)]
      BY <2>1, NamedByGates
    <3>2. PICK p \in DOMAIN quorums : quorums[p].gate = quorums[q].gate /\ Complete(quorums[p], s)
      BY <2>1, <3>1
    <3>3. p = q
      BY <2>1, <3>2, NamedByGates
    <3>4. PICK who : Matching(quorums[q], s, who)
      BY <3>1, <3>2, <3>3, CompleteMatches
    <3> QED BY <3>1, <3>4, MatchingQualifies
  <2>3. {quorums[q].gate : q \in DOMAIN quorums} = Gates
    BY <2>1, <2>2
  <2> QED BY <1>1, <2>1, <2>2, <2>3 DEF QuorumsQualify
<1> QED BY <1>2, <1>3

\* Complete quorums come to the ephemeral's multiple of the weighted gates.
LEMMA GateSums ==
  ASSUME RecoveryAssumption, DealingAssumption, made \subseteq Calls,
         NEW s \in Sealings, s.epoch = Now, NEW quorums \in QuorumsOver(Handed),
         CompleteQuorums(quorums, s)
  PROVE  /\ WeightedAccessSum(Recipient, Gates) \in Scalars
         /\ GateSum(quorums, Pinned) \in Scalars
         /\ Same(GateSum(quorums, Pinned), s.r * WeightedAccessSum(Recipient, Gates))
<1> DEFINE Q == DOMAIN quorums
           Weight(k) == GateWeight(Recipient, Gates, k)
           Sum(q) == SumFunction([j \in DOMAIN quorums[q].contributions |->
                                    quorums[q].contributions[j].w_estar])
           at == [q \in Q |-> quorums[q].gate]
           f == [q \in Q |-> Times(Weight(quorums[q].gate), Sum(q) % Order)]
           h == [q \in Q |-> Times(Weight(quorums[q].gate), quorums[q].gate)]
           t == [k \in Gates |-> Times(Weight(k), k)]
<1>1. Pinned.gates = Gates /\ Pinned.recipient = Recipient
  BY DEF Pinned, BindingAt
<1>2. /\ IsFiniteSet(Q)
      /\ \A q \in Q : quorums[q] \in [gate : Gates, contributions : Seq(Handed)]
      /\ \A p, q \in Q : quorums[p].gate = quorums[q].gate => p = q
      /\ \A gate \in Gates : \E q \in Q : quorums[q].gate = gate
  <2>1. /\ Len(quorums) = Cardinality(Gates)
        /\ \A gate \in Gates : \E q \in DOMAIN quorums : quorums[q].gate = gate
    BY DEF CompleteQuorums
  <2> QED BY <2>1, NamedByGates
<1>3. ASSUME NEW q \in Q PROVE Sum(q) \in Int /\ Same(Sum(q), s.r * quorums[q].gate)
  <2>1. QuorumQualifies(quorums[q], s.r, Pinned, s.idx)
    BY QualifyIffComplete DEF QuorumsQualify
  <2>2. PICK who : Matching(quorums[q], s, who)
    BY <1>2, <2>1, QualifiedMatches
  <2> QED BY <1>2, <2>2, MatchingQualifies
<1>4. s.r \in Int /\ \A k \in Gates : k \in Int /\ Weight(k) \in Int
  BY Dealt DEF DealingAssumption
<1>5. ASSUME NEW q \in Q PROVE f[q] \in Int /\ h[q] \in Int /\ Same(f[q], s.r * h[q])
  <2>0. quorums[q].gate \in Gates
    BY <1>2
  <2>1. PICK w \in Int, k \in Int, r \in Int, x \in Int :
          w = Weight(quorums[q].gate) /\ k = quorums[q].gate /\ r = s.r /\ x = Sum(q)
    BY <1>3, <1>4, <2>0
  <2>2. Same(x, r * k)
    BY <1>3, <2>1
  <2>3. PICK y \in Int : y = x % Order /\ Same(y, x)
    BY Dealt, SameReduces
  <2>4. Same(y, r * k)
    BY <2>2, <2>3, SameIsEquivalence
  <2>5. Same(w * y, w * (r * k))
    <3>1. Same(w, w) /\ r * k \in Int
      BY SameIsEquivalence
    <3> QED BY <2>4, <3>1, SameArithmetic
  <2>6. PICK a \in Int, b \in Int : a = Times(w, y) /\ b = Times(w, k)
                                  /\ Same(a, w * y) /\ Same(b, w * k)
    BY SameOperations, Dealt
  <2>7. Same(r * b, r * (w * k))
    <3>1. Same(r, r) /\ w * k \in Int
      BY SameIsEquivalence
    <3> QED BY <2>6, <3>1, SameArithmetic
  <2>8. r * (w * k) = w * (r * k)
    OBVIOUS
  <2>9. PICK c \in Int, d \in Int, e \in Int : c = w * y /\ d = w * (r * k) /\ e = r * b
    OBVIOUS
  <2>10. Same(a, c) /\ Same(c, d) /\ Same(e, d)
    BY <2>5, <2>6, <2>7, <2>8, <2>9
  <2>11. Same(a, e)
    BY <2>10, SameIsEquivalence
  <2>12. f[q] = a /\ h[q] = b
    BY <2>1, <2>3, <2>6
  <2> QED BY <2>1, <2>9, <2>11, <2>12
<1>6. f \in [Q -> Int] /\ h \in [Q -> Int]
  BY <1>5
<1>7. t \in [Gates -> Int]
  <2>1. \A k \in Gates : Times(Weight(k), k) \in Int
    BY <1>4, Dealt, SameOperations
  <2> QED BY <2>1
<1>8. SumFunction(h) = SumFunction(t)
  <2>1. /\ at \in [Q -> Gates] /\ \A q \in Q : h[q] = t[at[q]]
        /\ \A p, q \in Q : at[p] = at[q] => p = q
        /\ \A k \in Gates : \E q \in Q : at[q] = k
    BY <1>2
  <2>2. IsFiniteSet(Gates)
    BY DEF DealingAssumption
  <2> HIDE DEF h, t, at, Q
  <2>3. Renames(at, h, Q, t, Gates)
    BY <1>6, <1>7, <2>1 DEF Renames
  <2> QED BY <1>2, <2>2, <2>3, SumReindexed
<1>9. /\ SumFunction(f) \in Int /\ SumFunction(h) \in Int
      /\ Same(SumFunction(f), s.r * SumFunction(h))
  <2> HIDE DEF f, h, Q
  <2> QED BY <1>2, <1>4, <1>5, <1>6, SumScales
<1>10. GateSum(quorums, Pinned) = SumFunction(f) % Order
  BY <1>1 DEF GateSum, SumOver
<1>11. WeightedAccessSum(Recipient, Gates) = SumFunction(t) % Order
  BY DEF WeightedAccessSum, SumOver
<1> HIDE DEF f, h, t
<1>12. PICK x \in Int, y \in Int, r \in Int : x = SumFunction(f) /\ y = SumFunction(h) /\ r = s.r
  BY <1>4, <1>9
<1>13. PICK a \in Scalars, b \in Scalars : a = x % Order /\ b = y % Order /\ Same(a, x) /\ Same(b, y)
  BY SameReduces
<1>14. a \in Int /\ b \in Int /\ r * y \in Int /\ r * b \in Int
  BY Dealt
<1>15. Same(r * b, r * y)
  BY <1>13, <1>14, SameArithmetic, SameIsEquivalence
<1>16. Same(a, r * b)
  BY <1>9, <1>12, <1>13, <1>14, <1>15, SameIsEquivalence
<1> QED BY <1>8, <1>10, <1>11, <1>12, <1>13, <1>16

----------------------------------------------------------------------------
(* One piece.                                                              *)

\* What a mask was added to comes back when it is taken off.
LEMMA UnmasksItself ==
  ASSUME NEW a \in Scalars, NEW m \in Scalars
  PROVE  Minus(Plus(a, m), m) = a
<1>1. a \in Int /\ m \in Int /\ Scalars \subseteq Int
  BY Dealt DEF Scalars
<1>2. PICK p \in Int : p = Plus(a, m) /\ Same(p, a + m)
  BY <1>1, SameOperations
<1>3. PICK d \in Scalars : d = Minus(p, m) /\ Same(d, p - m)
  BY <1>1, SameOperations
<1>4. Same(p - m, (a + m) - m)
  <2>1. Same(m, m) /\ a + m \in Int
    BY <1>1, SameIsEquivalence
  <2>2. PICK c \in Int : c = a + m
    BY <2>1
  <2>3. Same(p - m, c - m)
    BY <1>1, <1>2, <2>1, <2>2, SameArithmetic
  <2> QED BY <2>2, <2>3
<1>5. (a + m) - m = a /\ p - m \in Int /\ d \in Int
  BY <1>1
<1>6. Same(d, a)
  BY <1>1, <1>3, <1>4, <1>5, SameIsEquivalence
<1>7. d % Order = a % Order /\ d % Order = d /\ a % Order = a
  BY <1>1, <1>5, <1>6, SameReduces
<1> QED BY <1>2, <1>3, <1>7

\* The recipient's part and the gates' make up the mask point of the seal.
LEMMA MaskPoint ==
  ASSUME RecoveryAssumption, DealingAssumption, made \subseteq Calls,
         NEW s \in Sealings, s.epoch = Now, NEW quorums \in QuorumsOver(Handed),
         CompleteQuorums(quorums, s)
  PROVE  LET own == Times(RecipientWeight(Recipient, Gates), Times(s.r, Recipient))
         IN  Plus(own, GateSum(quorums, Pinned)) = Times(s.r, Under(Pinned).yStar)
<1>1. PICK w \in Int, x \in Int, r \in Int :
        w = RecipientWeight(Recipient, Gates) /\ x = Recipient /\ r = s.r
  BY Dealt DEF DealingAssumption
<1>2. PICK a \in Scalars, g \in Scalars :
        /\ a = WeightedAccessSum(Recipient, Gates) /\ g = GateSum(quorums, Pinned)
        /\ Same(g, r * a)
  BY <1>1, GateSums
<1>3. a \in Int /\ g \in Int /\ Scalars \subseteq Int
  BY Dealt
<1>4. Under(Pinned).yStar = Plus(Times(w, x), a)
  BY <1>1, <1>2 DEF Under, RosterOf, OpeningBinding, Pinned, BindingAt
<1>5. PICK p \in Int : p = Times(w, x) /\ Same(p, w * x)
  BY <1>3, SameOperations
<1>6. PICK y \in Int : y = Plus(p, a) /\ Same(y, p + a)
  BY <1>3, SameOperations
<1>7. PICK q \in Int : q = Times(r, x) /\ Same(q, r * x)
  BY <1>3, SameOperations
<1>8. PICK own \in Int : own = Times(w, q) /\ Same(own, w * q)
  BY <1>3, SameOperations
<1>9. PICK z \in Scalars : z = Plus(own, g) /\ Same(z, own + g)
  BY <1>3, SameOperations
<1>10. PICK t \in Scalars : t = Times(r, y) /\ Same(t, r * y)
  BY <1>3, SameOperations
<1>11. Same(w, w) /\ Same(r, r) /\ Same(a, a)
  BY <1>3, SameIsEquivalence
<1>12. PICK u \in Int : u = w * x
  OBVIOUS
<1>13. PICK v \in Int : v = r * x
  OBVIOUS
<1>14. PICK k \in Int : k = r * a
  BY <1>3
\* own + g is r*(w*x) + r*a.
<1>15. Same(z, w * v + k)
  <2>0. Same(q, v)
    BY <1>7, <1>13
  <2>1. Same(w * q, w * v) /\ w * q \in Int /\ w * v \in Int
    BY <1>11, <2>0, SameArithmetic
  <2>2. Same(own, w * v)
    BY <1>8, <2>1, SameIsEquivalence
  <2>3. Same(own + g, w * v + k)
    BY <1>2, <1>3, <1>14, <2>1, <2>2, SameArithmetic
  <2>4. own + g \in Int /\ w * v + k \in Int /\ z \in Int
    BY <1>3, <2>1
  <2> QED BY <1>9, <2>3, <2>4, SameIsEquivalence
\* and so is r * yStar.
<1>16. Same(t, r * (u + a))
  <2>0. Same(p, u)
    BY <1>5, <1>12
  <2>1. Same(p + a, u + a) /\ p + a \in Int /\ u + a \in Int
    BY <1>3, <1>11, <2>0, SameArithmetic
  <2>2. Same(y, u + a)
    BY <1>6, <2>1, SameIsEquivalence
  <2>a. PICK c \in Int : c = u + a
    BY <2>1
  <2>b. Same(y, c)
    BY <2>2, <2>a
  <2>c. Same(r * y, r * c) /\ r * y \in Int /\ r * c \in Int
    BY <1>11, <2>b, SameArithmetic
  <2>3. Same(r * y, r * (u + a)) /\ r * y \in Int /\ r * (u + a) \in Int
    BY <2>a, <2>c
  <2> QED BY <1>3, <1>10, <2>3, SameIsEquivalence
<1>17. r * (u + a) = w * v + k
  BY <1>3, <1>12, <1>13, <1>14
<1>18. PICK n \in Int : n = w * v + k
  OBVIOUS
<1>19. Same(z, n) /\ Same(t, n) /\ z \in Int /\ t \in Int
  BY <1>3, <1>15, <1>16, <1>17, <1>18
<1>20. Same(z, t)
  BY <1>19, SameIsEquivalence
<1>21. z = t
  <2>1. z % Order = t % Order /\ z % Order = z /\ t % Order = t
    BY <1>19, <1>20, SameReduces
  <2> QED BY <2>1
<1> QED BY <1>1, <1>2, <1>4, <1>5, <1>6, <1>7, <1>8, <1>9, <1>10, <1>21

\* A piece on an attested seal opens to what was sealed, if every gate has a
\* complete quorum, and fails otherwise.
LEMMA PieceOpens ==
  ASSUME RecoveryAssumption, DealingAssumption, made \subseteq Calls,
         NEW s \in Sealings, s.epoch = Now, NEW piece,
         piece.idx = s.idx, piece.hint = HintOf(s), piece.quorums \in QuorumsOver(Handed)
  PROVE  OpenPieceGated(piece, Recipient, Pinned) =
           IF CompleteQuorums(piece.quorums, s) THEN PieceOf[s.idx] ELSE Failed
<1> DEFINE b == Under(Pinned)
           quorums == piece.quorums
<1>1. s.r \in Scalars \ {0} /\ piece.hint.eStar = s.r /\ Admissible(b)
  BY Dealt DEF Pinned
<1>2. QuorumsQualify(quorums, s.r, Pinned, s.idx) <=> CompleteQuorums(quorums, s)
  BY QualifyIffComplete
<1>3. CASE ~CompleteQuorums(quorums, s)
  <2>1. PublicGateSum(piece.hint.eStar, Pinned, piece.idx, piece.quorums) = Failed
    BY <1>1, <1>2, <1>3 DEF PublicGateSum
  <2> QED BY <1>3, <2>1 DEF OpenPieceGated
<1>4. CASE CompleteQuorums(quorums, s)
  <2> DEFINE own == Times(RecipientWeight(Recipient, Gates), Times(s.r, Recipient))
             z == Plus(own, GateSum(quorums, Pinned))
  <2>1. PublicGateSum(piece.hint.eStar, Pinned, piece.idx, piece.quorums) = GateSum(quorums, Pinned)
    BY <1>1, <1>2, <1>4 DEF PublicGateSum
  <2>2. GateSum(quorums, Pinned) # Failed
    BY <1>4, GateSums DEF Scalars, Failed
  <2>3. RosterOf(Pinned).recipientWeight = RecipientWeight(Recipient, Gates)
    BY DEF RosterOf, OpeningBinding, Pinned, BindingAt
  <2>4. OpenPieceGated(piece, Recipient, Pinned) = Unmask(piece.hint, b, piece.idx, z)
    BY <1>1, <2>1, <2>2, <2>3 DEF OpenPieceGated
  <2>5. z = Times(s.r, b.yStar)
    BY <1>4, MaskPoint
  <2>6. b.yStar \in Scalars \ {0}
    <3>1. b.yStar # 0
      BY <1>1 DEF Admissible, Identity
    <3>2. WeightedAccessSum(Recipient, Gates) \in Int /\ Recipient \in Int
          /\ RecipientWeight(Recipient, Gates) \in Int
      BY <1>4, GateSums, Dealt DEF DealingAssumption
    <3>3. Times(RecipientWeight(Recipient, Gates), Recipient) \in Int
      BY <3>2, SameOperations, Dealt
    <3>4. b.yStar = Plus(Times(RecipientWeight(Recipient, Gates), Recipient),
                         WeightedAccessSum(Recipient, Gates))
      BY DEF Under, RosterOf, OpeningBinding, Pinned, BindingAt
    <3> QED BY <3>1, <3>2, <3>3, <3>4, SameOperations
  <2>7. Times(s.r, b.yStar) # Identity
    BY <1>1, <2>6, NoZeroDivisors DEF Identity
  <2> DEFINE m == MaskOf(s.r, b, s.idx, Times(s.r, b.yStar))
  <2>8. m \in Scalars /\ PieceOf[s.idx] \in Scalars
    BY DEF DealingAssumption, Pinned
  <2>9. piece.hint.ct = Plus(PieceOf[s.idx], m)
    BY DEF HintOf, MintHint, Pinned
  <2>10. Unmask(piece.hint, b, piece.idx, z) = Minus(piece.hint.ct, m)
    BY <1>1, <2>5, <2>7 DEF Unmask
  <2>11. Minus(Plus(PieceOf[s.idx], m), m) = PieceOf[s.idx]
    BY <2>8, UnmasksItself
  <2> QED BY <1>4, <2>4, <2>9, <2>10, <2>11
<1> QED BY <1>3, <1>4

----------------------------------------------------------------------------
(* The pieces of a tray.                                                   *)

Increasing(a, n) == a \in [1 .. n -> Int] /\ \A i \in 1 .. n - 1 : a[i] < a[i + 1]

LEMMA IncreasingThroughout ==
  ASSUME NEW n \in Nat, NEW a, Increasing(a, n)
  PROVE  \A i, j \in 1 .. n : i < j => a[i] < a[j]
<1> SUFFICES ASSUME NEW i \in 1 .. n PROVE \A j \in 1 .. n : i < j => a[i] < a[j]
  OBVIOUS
<1>0. a \in [1 .. n -> Int] /\ \A k \in 1 .. n - 1 : a[k] < a[k + 1]
  BY DEF Increasing
<1> DEFINE T == {d \in Nat : i + d + 1 <= n => a[i] < a[i + d + 1]}
<1>1. 0 \in T
  BY <1>0
<1>2. ASSUME NEW d \in Nat, d \in T PROVE d + 1 \in T
  <2> SUFFICES ASSUME i + (d + 1) + 1 <= n PROVE a[i] < a[i + (d + 1) + 1]
    OBVIOUS
  <2>1. PICK k \in 1 .. n - 1 : k = i + d + 1
    OBVIOUS
  <2>2. a[i] < a[k] /\ a[k] < a[k + 1] /\ i + (d + 1) + 1 = k + 1
    BY <1>0, <1>2, <2>1
  <2>3. a[i] \in Int /\ a[k] \in Int /\ a[k + 1] \in Int
    BY <1>0
  <2> QED BY <2>2, <2>3
<1>3. Nat \subseteq T
  <2> HIDE DEF T
  <2> QED BY <1>1, <1>2, AllNaturals
<1>4. ASSUME NEW j \in 1 .. n, i < j PROVE a[i] < a[j]
  <2>1. j - i - 1 \in Nat /\ i + (j - i - 1) + 1 = j
    BY <1>4
  <2>2. j - i - 1 \in T
    BY <1>3, <2>1
  <2> QED BY <2>1, <2>2
<1> QED BY <1>4

\* Two increasing lists of as many members are the same if their members are.
LEMMA IncreasingSame ==
  ASSUME NEW n \in Nat, NEW a, NEW b, Increasing(a, n), Increasing(b, n),
         {a[i] : i \in 1 .. n} = {b[i] : i \in 1 .. n}
  PROVE  \A i \in 1 .. n : a[i] = b[i]
<1> SUFFICES ASSUME {i \in 1 .. n : a[i] # b[i]} # {} PROVE FALSE
  OBVIOUS
<1>0. a \in [1 .. n -> Int] /\ b \in [1 .. n -> Int]
  BY DEF Increasing
<1>1. PICK k \in {i \in 1 .. n : a[i] # b[i]} : \A j \in {i \in 1 .. n : a[i] # b[i]} : k <= j
  <2> DEFINE T == {i \in 1 .. n : a[i] # b[i]}
  <2>1. T \subseteq Nat /\ T # {}
    OBVIOUS
  <2> HIDE DEF T
  <2>2. PICK k \in T : \A j \in T : k <= j
    BY <2>1, NatLeast
  <2> QED BY <2>2 DEF T
<1>2. k \in 1 .. n /\ a[k] # b[k] /\ \A j \in 1 .. k - 1 : a[j] = b[j]
  BY <1>1
<1>3. PICK i \in 1 .. n : a[i] = b[k]
  BY <1>2
<1>4. PICK j \in 1 .. n : b[j] = a[k]
  BY <1>2
<1>5. \A x, y \in 1 .. n : x < y => a[x] < a[y] /\ b[x] < b[y]
  BY IncreasingThroughout
<1>6. a[i] \in Int /\ a[k] \in Int /\ b[j] \in Int /\ b[k] \in Int
  BY <1>0, <1>2
\* A member of b at k comes no earlier in a, nor that of a in b.
<1>7. i > k
  <2>1. i # k
    BY <1>2, <1>3
  <2>2. i < k => b[i] = b[k] /\ b[i] < b[k]
    BY <1>2, <1>3, <1>5
  <2> QED BY <1>2, <1>6, <2>1, <2>2
<1>8. j > k
  <2>1. j # k
    BY <1>2, <1>4
  <2>2. j < k => a[j] = a[k] /\ a[j] < a[k]
    BY <1>2, <1>4, <1>5
  <2> QED BY <1>2, <1>6, <2>1, <2>2
<1>9. a[k] < b[k] /\ b[k] < a[k]
  BY <1>2, <1>3, <1>4, <1>5, <1>7, <1>8
<1> QED BY <1>6, <1>9

\* The tray lists the attested pieces, in their order.
Aligned ==
  LET attested == AttestedOf[Now]
  IN  /\ Len(tray) = Len(attested)
      /\ \A i \in DOMAIN tray : tray[i].idx = attested[i].idx /\ tray[i].hint = HintOf(attested[i])

\* An attested set is a list of seals of its epoch, in increasing order.
LEMMA Attested ==
  ASSUME RecoveryAssumption, DealingAssumption
  PROVE  LET attested == AttestedOf[Now]
         IN  /\ Len(attested) \in Nat \ {0} /\ DOMAIN attested = 1 .. Len(attested)
             /\ \A i \in DOMAIN attested : attested[i] \in Sealings /\ attested[i].epoch = Now
             /\ Increasing([i \in DOMAIN attested |-> attested[i].idx], Len(attested))
             /\ Admissible(Under(Pinned))
<1> DEFINE attested == AttestedOf[Now]
           n == Len(attested)
<1>1. /\ attested \in Seq(Sealings) /\ attested # <<>>
      /\ \A i \in DOMAIN attested : attested[i].epoch = Now
      /\ \A i \in 1 .. Len(attested) - 1 : attested[i].idx < attested[i + 1].idx
  BY DEF DealingAssumption
<1> HIDE DEF attested
<1>2. n \in Nat \ {0} /\ DOMAIN attested = 1 .. n
  BY <1>1, LenProperties, EmptySeq
<1>3. \A i \in DOMAIN attested : attested[i] \in Sealings
  BY <1>1, <1>2, ElementOfSeq
<1>4. \A i \in DOMAIN attested : attested[i].idx \in Int
  BY <1>3 DEF DealingAssumption
<1>5. \A i \in 1 .. n - 1 : i \in DOMAIN attested /\ i + 1 \in DOMAIN attested
  BY <1>2
<1>6. Increasing([i \in DOMAIN attested |-> attested[i].idx], n)
  BY <1>1, <1>2, <1>4, <1>5 DEF Increasing
<1>7. Admissible(Under(Pinned))
  <2>1. 1 \in DOMAIN attested
    BY <1>2
  <2> QED BY <1>1, <1>3, <2>1, Dealt DEF Pinned
<1> QED BY <1>1, <1>2, <1>3, <1>6, <1>7 DEF attested

LEMMA OnTray ==
  ASSUME tray \in Seq(PiecesOver(Handed))
  PROVE  /\ Len(tray) \in Nat /\ DOMAIN tray = 1 .. Len(tray)
         /\ \A i \in DOMAIN tray : /\ tray[i] \in PiecesOver(Handed)
                                   /\ tray[i].idx \in {s.idx : s \in Sealings}
                                   /\ tray[i].quorums \in QuorumsOver(Handed)
<1>1. Len(tray) \in Nat /\ DOMAIN tray = 1 .. Len(tray)
  BY LenProperties
<1>2. \A i \in DOMAIN tray : tray[i] \in PiecesOver(Handed)
  BY <1>1, ElementOfSeq
<1> QED BY <1>1, <1>2 DEF PiecesOver

\* What the pieces of an aligned tray open to.
LEMMA AlignedOpens ==
  ASSUME RecoveryAssumption, DealingAssumption, IInv, Aligned, NEW i \in DOMAIN tray
  PROVE  OpenPieceGated(tray[i], Recipient, Pinned) =
           IF CompleteQuorums(tray[i].quorums, AttestedOf[Now][i])
             THEN PieceOf[AttestedOf[Now][i].idx] ELSE Failed
<1> DEFINE s == AttestedOf[Now][i]
<1>1. s \in Sealings /\ s.epoch = Now
  <2>1. i \in DOMAIN AttestedOf[Now]
    BY OnTray, Attested DEF Aligned, IInv
  <2> QED BY <2>1, Attested
<1>2. tray[i].idx = s.idx /\ tray[i].hint = HintOf(s) /\ tray[i].quorums \in QuorumsOver(Handed)
  BY OnTray DEF Aligned, IInv
<1> HIDE DEF s
<1>3. made \subseteq Calls
  BY DEF IInv
<1>4. OpenPieceGated(tray[i], Recipient, Pinned) =
        IF CompleteQuorums(tray[i].quorums, s) THEN PieceOf[s.idx] ELSE Failed
  BY <1>1, <1>2, <1>3, PieceOpens
<1> QED BY <1>4 DEF s

----------------------------------------------------------------------------
(* Recovery.                                                               *)

CompleteTray ==
  Aligned /\ \A i \in DOMAIN tray : CompleteQuorums(tray[i].quorums, AttestedOf[Now][i])

\* What recovers is in the attested order: both orders increase.
LEMMA RecoveredIsAligned ==
  ASSUME RecoveryAssumption, DealingAssumption, IInv,
         NEW signature \in Shown, Recovered(signature) # Failed
  PROVE  Aligned
<1> DEFINE attested == AttestedOf[Now]
           n == Len(attested)
           a == [i \in 1 .. n |-> tray[i].idx]
           b == [i \in 1 .. n |-> attested[i].idx]
<1>1. Canonical(tray, Weights)
  BY DEF Recovered, VerifyAndRecoverGated, RecoverGated
<1>2. Len(tray) = n /\ n \in Nat /\ DOMAIN attested = 1 .. n /\ DOMAIN tray = 1 .. n
  BY <1>1, OnTray, Attested DEF Canonical, DealingAssumption, IInv
<1>3. Increasing(a, n)
  <2>1. \A s \in Sealings : s.idx \in Int
    BY DEF DealingAssumption
  <2>2. \A i \in 1 .. n : tray[i].idx \in Int
    BY <1>2, <2>1, OnTray DEF IInv
  <2>3. \A i \in 1 .. n - 1 : i \in 1 .. n /\ i + 1 \in 1 .. n /\ tray[i].idx < tray[i + 1].idx
    BY <1>1, <1>2 DEF Canonical
  <2> HIDE DEF n
  <2> QED BY <2>2, <2>3 DEF Increasing
<1>4. Increasing(b, n)
  <2>1. Increasing([i \in DOMAIN attested |-> attested[i].idx], n)
    BY Attested
  <2> QED BY <1>2, <2>1
<1>5. {<<tray[i].idx, tray[i].hint>> : i \in 1 .. n}
        = {<<attested[i].idx, HintOf(attested[i])>> : i \in 1 .. n}
  BY <1>2, RecoveredWasAttested
<1>6. {a[i] : i \in 1 .. n} = {b[i] : i \in 1 .. n}
  <2>1. ASSUME NEW i \in 1 .. n PROVE \E j \in 1 .. n : a[i] = b[j]
    <3>1. PICK j \in 1 .. n :
            <<tray[i].idx, tray[i].hint>> = <<attested[j].idx, HintOf(attested[j])>>
      BY <1>5
    <3> QED BY <3>1
  <2>2. ASSUME NEW j \in 1 .. n PROVE \E i \in 1 .. n : b[j] = a[i]
    <3>1. PICK i \in 1 .. n :
            <<tray[i].idx, tray[i].hint>> = <<attested[j].idx, HintOf(attested[j])>>
      BY <1>5
    <3> QED BY <3>1
  <2> HIDE DEF a, b, n
  <2> QED BY <2>1, <2>2
<1>7. \A i \in 1 .. n : a[i] = b[i]
  <2> HIDE DEF a, b, n
  <2>1. n \in Nat
    BY <1>2
  <2> QED BY ONLY <2>1, <1>3, <1>4, <1>6, IncreasingSame
<1>8. ASSUME NEW i \in 1 .. n PROVE tray[i].idx = attested[i].idx /\ tray[i].hint = HintOf(attested[i])
  <2>1. tray[i].idx = attested[i].idx
    BY <1>7
  <2>2. PICK j \in 1 .. n :
          <<tray[i].idx, tray[i].hint>> = <<attested[j].idx, HintOf(attested[j])>>
    BY <1>5
  <2>3. b[i] = b[j]
    BY <2>1, <2>2
  <2>4. \A x, y \in 1 .. n : x < y => b[x] < b[y]
    <3> HIDE DEF b, n
    <3> QED BY <1>2, <1>4, IncreasingThroughout
  <2>5. b[i] \in Int
    BY <1>4 DEF Increasing
  <2>6. i = j
    <3> HIDE DEF b
    <3> QED BY <1>2, <2>3, <2>4, <2>5
  <2> QED BY <2>1, <2>2, <2>6
<1> QED BY <1>2, <1>8 DEF Aligned

\* It has complete quorums: a single piece that fails, fails them all.
LEMMA RecoveredIsComplete ==
  ASSUME RecoveryAssumption, DealingAssumption, IInv,
         NEW signature \in Shown, Recovered(signature) # Failed
  PROVE  CompleteTray
<1>1. Aligned
  BY RecoveredIsAligned
<1>2. ASSUME NEW i \in DOMAIN tray PROVE CompleteQuorums(tray[i].quorums, AttestedOf[Now][i])
  <2> DEFINE results == [k \in DOMAIN tray |-> OpenPieceGated(tray[k], Recipient, Pinned)]
  <2>1. Combine(results, Weights, Pinned.vs) # Failed
    BY DEF Recovered, VerifyAndRecoverGated, RecoverGated
  <2>2. \A k \in DOMAIN results : results[k] # Failed
    <3> HIDE DEF results
    <3> QED BY <2>1 DEF Combine
  <2>3. OpenPieceGated(tray[i], Recipient, Pinned) # Failed
    BY <2>2
  <2> QED BY <1>1, <2>3, AlignedOpens
<1> QED BY <1>1, <1>2 DEF CompleteTray

\* A complete tray under the quorum's signature recovers: the pieces sum to
\* the certified secret.
LEMMA CompleteRecovers ==
  ASSUME RecoveryAssumption, DealingAssumption, IInv, CompleteTray,
         NEW signature \in signed, signature.statement.b.epoch = Now
  PROVE  Recovered(signature) # Failed
<1> DEFINE attested == AttestedOf[Now]
           n == Len(attested)
           results == [i \in DOMAIN tray |-> OpenPieceGated(tray[i], Recipient, Pinned)]
<1>1. /\ Len(tray) = n /\ n \in Nat \ {0} /\ DOMAIN attested = 1 .. n /\ DOMAIN tray = 1 .. n
      /\ \A i \in 1 .. n : tray[i].idx = attested[i].idx /\ tray[i].hint = HintOf(attested[i])
  BY OnTray, Attested DEF CompleteTray, Aligned, IInv
<1>2. \A i, j \in 1 .. n : i < j => tray[i].idx < tray[j].idx
  <2> DEFINE b == [i \in DOMAIN attested |-> attested[i].idx]
  <2>1. Increasing(b, n)
    BY Attested
  <2>2. \A i, j \in 1 .. n : i < j => b[i] < b[j]
    <3> HIDE DEF b
    <3> QED BY <1>1, <2>1, IncreasingThroughout
  <2> QED BY <1>1, <2>2
<1>3. \A i \in 1 .. n : tray[i].idx \in Int
  BY <1>1, OnTray DEF DealingAssumption, IInv
<1>4. PinnedVerify(QuorumKey, Pinned, tray, signature)
  <2>1. Attestable(tray)
    <3>1. tray # <<>>
      BY <1>1
    <3>2. ASSUME NEW i \in 1 .. n, NEW j \in 1 .. n, tray[i].idx = tray[j].idx PROVE i = j
      BY <1>1, <1>2, <1>3, <3>2
    <3> QED BY <1>1, <3>1, <3>2 DEF Attestable
  <2>2. PICK epoch \in DOMAIN AttestedOf : signature = Attestation(epoch)
    BY DEF IInv
  <2>3. epoch = Now
    BY <2>2 DEF Attestation, Signed, AttestationStatement, Under, BindingAt
  <2> DEFINE pieces == [i \in DOMAIN attested |-> Piece(attested[i])]
  <2>4. {<<tray[i].idx, tray[i].hint>> : i \in DOMAIN tray}
          = {<<pieces[i].idx, pieces[i].hint>> : i \in DOMAIN pieces}
    <3>1. \A i \in 1 .. n : <<tray[i].idx, tray[i].hint>> = <<pieces[i].idx, pieces[i].hint>>
      BY <1>1 DEF Piece
    <3>2. DOMAIN pieces = 1 .. n
      BY <1>1
    <3> HIDE DEF pieces
    <3> QED BY <1>1, <3>1, <3>2
  <2>5. signature = Signed(QuorumKey, pieces, Pinned)
    BY <2>2, <2>3 DEF Attestation, Pinned
  <2>6. signature = Signed(QuorumKey, tray, Pinned)
    <3> HIDE DEF pieces
    <3> QED BY <2>4, <2>5 DEF Signed, AttestationStatement
  <2> QED BY <2>1, <2>6, Attested DEF PinnedVerify
<1>5. Canonical(tray, Weights)
  <2>1. tray # <<>> /\ Len(tray) = Len(Weights)
    BY <1>1 DEF DealingAssumption
  <2>2. \A i \in 1 .. Len(tray) - 1 : tray[i].idx < tray[i + 1].idx
    BY <1>1, <1>2
  <2> QED BY <2>1, <2>2 DEF Canonical
<1>6. \A i \in 1 .. n : results[i] = PieceOf[attested[i].idx] /\ results[i] # Failed
  <2> SUFFICES ASSUME NEW i \in 1 .. n
               PROVE results[i] = PieceOf[attested[i].idx] /\ results[i] # Failed
    OBVIOUS
  <2>1. results[i] = PieceOf[attested[i].idx]
    BY <1>1, AlignedOpens DEF CompleteTray
  <2>2. PieceOf[attested[i].idx] \in Scalars
    BY <1>1, Attested DEF DealingAssumption
  <2> QED BY <2>1, <2>2 DEF Scalars, Failed
<1>7. DOMAIN results = 1 .. n
  BY <1>1
<1> HIDE DEF results
<1>8. SumOver(LAMBDA i : Times(Weights[i], results[i]), DOMAIN results) = Secret
  <2>1. SumOver(LAMBDA i : Times(Weights[i], PieceOf[attested[i].idx]), 1 .. n) = Secret
    BY <1>1 DEF DealingAssumption
  <2>2. [i \in DOMAIN results |-> Times(Weights[i], results[i])]
          = [i \in 1 .. n |-> Times(Weights[i], PieceOf[attested[i].idx])]
    BY <1>6, <1>7
  <2> QED BY <2>1, <2>2 DEF SumOver
<1>9. Combine(results, Weights, Pinned.vs) = Secret
  BY <1>6, <1>7, <1>8 DEF Combine, Pinned, BindingAt
<1>10. Recovered(signature) = Secret
  BY <1>4, <1>5, <1>9 DEF Recovered, VerifyAndRecoverGated, RecoverGated, results
<1> QED BY <1>10 DEF RecoveryAssumption, Scalars, Failed

\* A tray recovers exactly when it shows, in order, the hints the quorum
\* signed for the pinned epoch, each with one complete quorum per gate
\* (hint.rs gate_sum_inner, PinnedHintVerifier::verify_and_recover_gated).
THEOREM RecoveryIsExact ==
  ASSUME RecoveryAssumption, DealingAssumption PROVE Spec => []RecoversIffAttestedAndComplete
<1>1. ASSUME IInv, NEW signature \in Shown
      PROVE  Recovered(signature) # Failed
               <=> signature \in signed /\ signature.statement.b.epoch = Now /\ CompleteTray
  <2>1. ASSUME Recovered(signature) # Failed
        PROVE  signature \in signed /\ signature.statement.b.epoch = Now /\ CompleteTray
    <3>1. signature \in signed /\ signature = Attestation(Now)
      BY <1>1, <2>1, RecoveredWasAttested
    <3>2. signature.statement.b.epoch = Now
      BY <3>1 DEF Attestation, Signed, AttestationStatement, Under, BindingAt
    <3> QED BY <1>1, <2>1, <3>1, <3>2, RecoveredIsComplete
  <2> QED BY <1>1, <2>1, CompleteRecovers
<1>2. IInv => RecoversIffAttestedAndComplete
  BY <1>1 DEF RecoversIffAttestedAndComplete, CompleteTray, Aligned, CompleteQuorums
<1> QED BY <1>2, InitIInv, NextIInv, PTL DEF Spec

----------------------------------------------------------------------------
(* The escrow's promise.                                                   *)

\* Consent only grows, and a call adds its holder at most.
LEMMA AuthorizeConsents ==
  ASSUME RecoveryAssumption, DealingAssumption, NEW c \in Calls, Authorize(c)
  PROVE  Promise!Consent(c.holder) \/ UNCHANGED Promise!vars
<1>1. made' = made \cup {c} /\ released' = released
  BY DEF Authorize
<1>2. \A h \in Holders : \A s : Authorized(h, s) => Authorized(h, s)'
  BY <1>1 DEF Authorized
<1>3. \A h \in Holders : \A s : Authorized(h, s)' /\ h # c.holder => Authorized(h, s)
  BY <1>1 DEF Authorized
<1>4. c.holder \in Holders
  BY DEF DealingAssumption
<1>5. Consenting \subseteq Consenting' /\ Consenting' \subseteq Consenting \cup {c.holder}
  BY <1>2, <1>3 DEF Consenting
<1>6. Consenting' = Consenting \/ Consenting' = Consenting \cup {c.holder}
  BY <1>5
<1> QED BY <1>1, <1>6 DEF Promise!Consent, Promise!vars

\* A complete tray has every holder's consent.
LEMMA CompleteConsents ==
  ASSUME RecoveryAssumption, DealingAssumption, IInv, CompleteTray
  PROVE  Consenting = Holders
<1> SUFFICES ASSUME NEW h \in Holders, NEW i \in DOMAIN AttestedOf[Now]
             PROVE  Authorized(h, AttestedOf[Now][i])
  BY DEF Consenting
<1>1. i \in DOMAIN tray
  BY OnTray, Attested DEF CompleteTray, Aligned, IInv
<1>2. GateOf[h] \in Gates /\ h \in HoldersOf(GateOf[h])
  BY DEF DealingAssumption, HoldersOf
<1>3. PICK q \in DOMAIN tray[i].quorums :
        tray[i].quorums[q].gate = GateOf[h] /\ Complete(tray[i].quorums[q], AttestedOf[Now][i])
  BY <1>1, <1>2 DEF CompleteTray, CompleteQuorums
<1>4. \E c \in made : c.holder = h /\ c.sealing = AttestedOf[Now][i] /\ c.gate = GateOf[h]
  BY <1>2, <1>3 DEF Complete
<1> QED BY <1>4 DEF Authorized

\* Recovery implements the escrow: what the coordinator lays out, and the
\* quorum's signatures, are steps the promise does not see; a contribution
\* gives at most its holder's consent; and a scalar comes out only of a
\* complete tray, so after everyone's, and is the certified one.
THEOREM RecoveryKeepsPromise ==
  ASSUME RecoveryAssumption, DealingAssumption PROVE Spec => ImplementsEscrow
<1>1. Init => Promise!Init
  <2> SUFFICES ASSUME Init PROVE Promise!Init
    OBVIOUS
  <2>1. \A h \in Holders : \A s : ~Authorized(h, s)
    BY DEF Init, Authorized
  <2>2. 1 \in DOMAIN AttestedOf[Now]
    BY Attested
  <2>3. Consenting = {}
    BY <2>1, <2>2 DEF Consenting
  <2>4. {<<Recipient, m>> : m \in released} = {}
    BY DEF Init
  <2> QED BY <2>3, <2>4 DEF Promise!Init
<1>2. IInv /\ [Next]_vars => [Promise!Next]_(Promise!vars)
  <2> SUFFICES ASSUME IInv, [Next]_vars PROVE Promise!Next \/ UNCHANGED Promise!vars
    OBVIOUS
  <2>1. UNCHANGED <<made, released>> => UNCHANGED Promise!vars
    BY DEF Promise!vars, Consenting, Authorized
  <2>2. ASSUME NEW epoch \in DOMAIN AttestedOf, Attest(epoch) PROVE UNCHANGED Promise!vars
    BY <2>1, <2>2 DEF Attest
  <2>3. ASSUME NEW c \in Calls, Authorize(c) PROVE Promise!Next \/ UNCHANGED Promise!vars
    <3>1. c.holder \in Holders
      BY DEF DealingAssumption
    <3> QED BY <2>3, <3>1, AuthorizeConsents DEF Promise!Next
  <2>4. ASSUME NEW s \in Sealings, Place(s) PROVE UNCHANGED Promise!vars
    BY <2>1, <2>4 DEF Place
  <2>5. ASSUME NEW gate \in Gates, OpenQuorum(gate) PROVE UNCHANGED Promise!vars
    BY <2>1, <2>5 DEF OpenQuorum
  <2>6. ASSUME NEW c \in made, Hand(c) \/ HandAltered(c) PROVE UNCHANGED Promise!vars
    BY <2>1, <2>6 DEF Hand, HandAltered, Give
  <2>7. ASSUME NEW signature \in Shown, Recover(signature) PROVE Promise!Next
    <3>1. CompleteTray /\ Recovered(signature) = Secret
      BY <2>7, RecoveredIsComplete, CombinedIsCertified DEF Recover
    <3>2. Consenting = Holders
      BY <3>1, CompleteConsents
    <3>3. released' = released \cup {Secret} /\ made' = made
      BY <2>7, <3>1 DEF Recover
    <3>4. Consenting' = Consenting
      BY <3>3 DEF Consenting, Authorized
    <3>5. {<<Recipient, m>> : m \in released'}
            = {<<Recipient, m>> : m \in released} \cup {<<Recipient, Secret>>}
      BY <3>3
    <3> QED BY <3>2, <3>4, <3>5 DEF Promise!Next, Promise!Release
  <2>8. CASE UNCHANGED vars
    BY <2>1, <2>8 DEF vars
  <2> QED BY <2>2, <2>3, <2>4, <2>5, <2>6, <2>7, <2>8 DEF Next
<1> QED BY <1>1, <1>2, InitIInv, NextIInv, PTL DEF Spec, ImplementsEscrow, Promise!Spec

----------------------------------------------------------------------------
(* The payload.  What the ingress screen admits.                           *)

\* One of the masks of the package's capsules.
LEMMA MaskOnList ==
  ASSUME NEW package \in Packages, NEW j \in DOMAIN package,
         NEW m \in ToSet(MasksOfPiece[package[j].idx])
  PROVE  LET masks == FlattenSeq([i \in DOMAIN package |-> MasksOfPiece[package[i].idx]])
         IN  masks \in Seq(Scalars) /\ \E k \in DOMAIN masks : masks[k] = m
<1> DEFINE lists == [i \in DOMAIN package |-> MasksOfPiece[package[i].idx]]
           masks == FlattenSeq(lists)
<1>1. PICK n \in Nat : package \in [1 .. n -> StoredSeals]
  BY PayloadAssumption DEF Packages
<1>2. \A i \in 1 .. n : MasksOfPiece[package[i].idx] \in Seq(Scalars)
  BY <1>1, PayloadAssumption
<1>3. lists = [i \in 1 .. n |-> MasksOfPiece[package[i].idx]]
  BY <1>1
<1>4. lists \in Seq(Seq(Scalars)) /\ Len(lists) = n /\ DOMAIN lists = 1 .. n /\ lists[j] = MasksOfPiece[package[j].idx]
  BY <1>1, <1>2, <1>3
<1> HIDE DEF lists
<1>5. PICK at : LaidOut(at, masks, lists, n)
  BY <1>4, FlattenLays
<1>6. PICK l \in DOMAIN lists[j] : lists[j][l] = m
  BY <1>4 DEF ToSet
<1>7. <<j, l>> \in PlacesOf(lists, n)
  <2>1. j \in 1 .. n
    BY <1>1
  <2> QED BY <1>6, <2>1 DEF PlacesOf
<1>8. PICK k \in DOMAIN masks : at[k] = <<j, l>>
  BY <1>5, <1>7 DEF LaidOut
<1>9. masks[k] = lists[j][l]
  BY <1>5, <1>8 DEF LaidOut
<1>10. masks \in Seq(Scalars)
  BY <1>4, FlattenTyped
<1> QED BY <1>6, <1>9, <1>10 DEF lists

\* What passes the screen aliases nothing: a hint that shared its ephemeral,
\* up to sign, with a mask would be its multiple by one, and two hints would
\* be degenerate.
LEMMA PassingAreFresh ==
  ASSUME NEW package \in Passing, NEW i \in DOMAIN package, NEW j \in DOMAIN package
  PROVE  /\ ~AliasesAny(SealedHint(package[i]), ToSet(MasksOfPiece[package[j].idx]))
         /\ i # j => ~AliasesAny(SealedHint(package[i]), {SealedHint(package[j]).eStar})
<1> DEFINE pairs == PairsOf(package)
           masks == FlattenSeq([h \in DOMAIN package |-> MasksOfPiece[package[h].idx]])
           hints == [h \in DOMAIN package |-> package[h].r]
           both == <<masks, hints>>
           mask == MasksOf(both)
<1>1. package \in Packages /\ HintsPass(pairs)
  BY DEF Passing
<1>2. /\ DOMAIN pairs = DOMAIN package
      /\ [h \in DOMAIN pairs |-> pairs[h].masks] = [h \in DOMAIN package |-> MasksOfPiece[package[h].idx]]
      /\ [h \in DOMAIN pairs |-> pairs[h].hint.eStar] = hints
      /\ SealedHint(package[i]).eStar = package[i].r /\ SealedHint(package[j]).eStar = package[j].r
  BY DEF PairsOf, SealedHint, MintHint
<1>3. ~CrossPieceRelation(both) /\ ~DegenerateMask(hints)
  BY <1>1, <1>2 DEF HintsPass
<1>4. package[i].r \in Scalars /\ package[i] \in StoredSeals
  BY <1>1, PayloadAssumption DEF Packages
<1>5. ASSUME i # j PROVE ~AliasesAny(SealedHint(package[i]), {SealedHint(package[j]).eStar})
  <2>1. package[j].r \notin UpToSign(package[i].r)
    BY <1>3, <1>5 DEF DegenerateMask, DegenerateBasic
  <2> QED BY <1>2, <2>1 DEF AliasesAny, UpToSign, Negated
<1>6. ASSUME NEW m \in ToSet(MasksOfPiece[package[j].idx]), m \in UpToSign(package[i].r) PROVE FALSE
  <2>1. masks \in Seq(Scalars) /\ \E k \in DOMAIN masks : masks[k] = m
    BY <1>1, MaskOnList
  <2> HIDE DEF masks
  <2>2. PICK k \in DOMAIN masks : masks[k] = m
    BY <2>1
  <2>3. DOMAIN both = 1 .. 2 /\ both[1] = masks /\ both[2] = hints
    OBVIOUS
  <2>4. DOMAIN mask = UNION {{h} \X DOMAIN both[h] : h \in 1 .. 2}
    BY <2>3 DEF MasksOf
  <2>5. <<1, k>> \in DOMAIN mask /\ <<2, i>> \in DOMAIN mask
    <3>1. <<1, k>> \in {1} \X DOMAIN both[1] /\ <<2, i>> \in {2} \X DOMAIN both[2]
      BY <2>3
    <3>2. 1 \in 1 .. 2 /\ 2 \in 1 .. 2
      OBVIOUS
    <3> QED BY <2>4, <3>1, <3>2
  <2>6. mask[<<1, k>>] = m /\ mask[<<2, i>>] = package[i].r
    BY <2>2, <2>3, <2>5 DEF MasksOf
  <2>7. Multiple(1, m) = m
    <3>1. m \in Scalars
      BY <2>1, <2>2
    <3>2. 1 % Order = 1 /\ m % Order = m /\ 1 * m = m
      BY <3>1, AlgebraAssumption DEF Scalars
    <3> QED BY <3>2 DEF Multiple, Times
  <2>8. 1 \in 1 .. ScalarBound
    BY ScreenAssumption
  <2> HIDE DEF mask, both
  <2>9. CrossPieceRelation(both)
    <3>1. <<1, k>>[1] # <<2, i>>[1]
      OBVIOUS
    <3>2. \E s \in 1 .. ScalarBound : Multiple(s, mask[<<1, k>>]) \in UpToSign(mask[<<2, i>>])
      BY <1>6, <2>6, <2>7, <2>8
    <3>3. \E x, y \in DOMAIN mask :
            x[1] # y[1] /\ \E s \in 1 .. ScalarBound : Multiple(s, mask[x]) \in UpToSign(mask[y])
      BY <2>5, <3>1, <3>2
    <3> QED BY <3>3 DEF CrossPieceRelation, mask
  <2> QED BY <1>3, <2>9
<1>7. ~AliasesAny(SealedHint(package[i]), ToSet(MasksOfPiece[package[j].idx]))
  BY <1>2, <1>6 DEF AliasesAny, UpToSign, Negated
<1> QED BY <1>5, <1>7

AdmittedInv == admitted = <<>> \/ admitted \in Passing

LEMMA AdmittedStep == AdmittedInv /\ [PayloadNext]_payloadVars => AdmittedInv'
<1> SUFFICES ASSUME AdmittedInv, PayloadNext \/ UNCHANGED payloadVars PROVE AdmittedInv'
  OBVIOUS
<1>1. ASSUME NEW package \in Passing, Admit(package) PROVE AdmittedInv'
  BY <1>1 DEF Admit, AdmittedInv
<1>2. ASSUME NEW s, Seal(s) PROVE AdmittedInv'
  BY <1>2 DEF Seal, AdmittedInv
<1>3. ASSUME NEW c, Assemble(c) PROVE AdmittedInv'
  BY <1>3 DEF Assemble, AdmittedInv
<1>4. CASE Alter
  BY <1>4 DEF Alter, AdmittedInv
<1>5. ASSUME NEW x, NEW c, RecoverStored(x, c) PROVE AdmittedInv'
  BY <1>5 DEF RecoverStored, AdmittedInv
<1>6. CASE UNCHANGED payloadVars
  BY <1>6 DEF payloadVars, AdmittedInv
<1> QED BY <1>1, <1>2, <1>3, <1>4, <1>5, <1>6 DEF PayloadNext, PayloadSteps

\* No hint of an admitted package shares its ephemeral, up to sign, with a
\* limb of any capsule of the package or with another hint, whatever is
\* sealed, tried and admitted again (provision.rs,
\* validate_recovery_hints_against_capsules).
THEOREM AdmittedNeverAlias == PayloadSpec => []AdmittedAreFresh
<1>1. PayloadInit => AdmittedInv
  BY DEF PayloadInit, AdmittedInv
<1>2. AdmittedInv => AdmittedAreFresh
  <2>1. CASE admitted = <<>>
    BY <2>1 DEF AdmittedAreFresh
  <2>2. CASE admitted \in Passing
    BY <2>2, PassingAreFresh DEF AdmittedAreFresh
  <2> QED BY <2>1, <2>2 DEF AdmittedInv
<1> QED BY <1>1, <1>2, AdmittedStep, PTL DEF PayloadSpec

----------------------------------------------------------------------------
(* The payload.  What the stored bytes may be.                             *)

\* The sorted list of no gates.
LEMMA NoGatesSorted == Sorted({}) = <<>>
<1>1. Cardinality({}) = 0 /\ 1 .. 0 = {}
  BY FS_EmptySet
<1>2. <<>> \in [1 .. 0 -> {}] /\ DOMAIN <<>> = {} /\ \A f \in [1 .. 0 -> {}] : f = <<>>
  BY <1>1
<1> QED BY <1>1, <1>2 DEF Sorted

StoredPieces == [idx : Nat, hint : [eStar : Scalars, ct : Scalars]]
StoredWires ==
  [ header : {"v1", "v2"}, vs : Scalars, pieces : Seq(StoredPieces), gates : Seq({AddedGate}),
    signature : {NoSignature, "signature"}, rest : {0, 1} ]

StoredInv ==
  /\ sealed \subseteq {s \in StoredSeals : MayMint(BindingIn(s.context, RecipientKey), s.r)}
  /\ AdmittedInv
  /\ blob # Rejected =>
       /\ blob \in StoredWires
       /\ Len(blob.pieces) <= MaxPayloadPieces
       /\ blob.gates = <<>> => blob.signature = NoSignature
  /\ \A r \in opened : r[3] = r[2].vs

\* Sums of scalars are scalars.
LEMMA ScalarSum ==
  ASSUME NEW n \in Nat, NEW f \in [1 .. n -> Int]
  PROVE  SumFunction(f) \in Int /\ SumFunction(f) % Order \in Scalars
<1>1. IsFiniteSet(1 .. n)
  BY FS_Interval
<1>2. Over(f, 1 .. n) = f
  BY DEF Over
<1>3. SumFunction(Over(f, 1 .. n)) \in Int
  BY <1>1, SumOverPart
<1> QED BY <1>2, <1>3, SameReduces

LEMMA TargetsAreScalars == \A c \in Contexts : c.vs \in Scalars
<1> SUFFICES ASSUME NEW c \in Contexts PROVE c.vs \in Scalars
  OBVIOUS
<1> DEFINE f == [idx \in 1 .. PieceCount |-> PieceIn(c, idx)]
<1>1. PieceCount \in Nat /\ Scalars \subseteq Int
  BY PayloadAssumption, AlgebraAssumption DEF Scalars
<1>2. f \in [1 .. PieceCount -> Int]
  BY <1>1, PayloadAssumption
<1>3. c.vs = SumFunction(f) % Order
  BY PayloadAssumption DEF SumOver
<1> HIDE DEF f
<1> QED BY <1>1, <1>2, <1>3, ScalarSum

\* What is sealed is a hint.
LEMMA SealedHints ==
  ASSUME NEW s \in StoredSeals
  PROVE  /\ SealedHint(s) \in [eStar : Scalars, ct : Scalars]
         /\ SealedHint(s).eStar = s.r
         /\ SealedHint(s).ct =
              Plus(PieceIn(s.context, s.idx),
                   MaskOf(s.r, BindingIn(s.context, RecipientKey), s.idx, Times(s.r, RecipientKey)))
<1> DEFINE piece == PieceIn(s.context, s.idx)
           mask == MaskOf(s.r, BindingIn(s.context, RecipientKey), s.idx, Times(s.r, RecipientKey))
<1>1. SealedHint(s) = [eStar |-> s.r, ct |-> Plus(piece, mask)]
  BY DEF SealedHint, MintHint, BindingIn
<1>2. s.r \in Scalars /\ piece \in Scalars /\ mask \in Scalars
  BY PayloadAssumption
<1> HIDE DEF piece, mask
<1>3. piece \in Int /\ mask \in Int
  BY <1>2, AlgebraAssumption DEF Scalars
<1>4. Plus(piece, mask) \in Scalars
  BY <1>3, SameOperations
<1> QED BY <1>1, <1>2, <1>4 DEF piece, mask

\* An altered piece is one that may be stored.
LEMMA AlteredStays ==
  ASSUME NEW piece \in StoredPieces, NEW p \in AlteredPieces(piece)
  PROVE  p \in StoredPieces
<1>1. PICK i \in Nat, e \in Scalars, c \in Scalars : piece = [idx |-> i, hint |-> [eStar |-> e, ct |-> c]]
  BY DEF StoredPieces
<1>2. \/ p = [idx |-> i, hint |-> [eStar |-> e, ct |-> Plus(c, 1)]]
      \/ p = [idx |-> i, hint |-> [eStar |-> e, ct |-> Minus(c, 1)]]
      \/ p = [idx |-> i, hint |-> [eStar |-> Minus(0, e), ct |-> c]]
      \/ p = [idx |-> i + 1, hint |-> [eStar |-> e, ct |-> c]]
  BY <1>1 DEF AlteredPieces
<1>3. PICK one \in Int, zero \in Int : one = 1 /\ zero = 0
  OBVIOUS
<1>4. c \in Int /\ e \in Int
  BY AlgebraAssumption DEF Scalars
<1>5. Plus(c, one) \in Scalars /\ Minus(c, one) \in Scalars /\ Minus(zero, e) \in Scalars
  BY <1>3, <1>4, SameOperations
<1>6. i + 1 \in Nat
  OBVIOUS
<1> QED BY <1>2, <1>3, <1>5, <1>6 DEF StoredPieces

LEMMA StoredStep == StoredInv /\ [PayloadNext]_payloadVars => StoredInv'
<1> SUFFICES ASSUME StoredInv, PayloadNext \/ UNCHANGED payloadVars PROVE StoredInv'
  OBVIOUS
<1>0. AdmittedInv'
  BY AdmittedStep DEF StoredInv
<1>1. ASSUME NEW s \in StoredSeals, Seal(s) PROVE StoredInv'
  BY <1>0, <1>1 DEF Seal, StoredInv
<1>2. ASSUME NEW package \in Passing, Admit(package) PROVE StoredInv'
  BY <1>0, <1>2 DEF Admit, StoredInv
<1>3. ASSUME NEW c \in Contexts, Assemble(c) PROVE StoredInv'
  <2>1. /\ blob' = AssemblePayload(c.vs, PiecesOf(admitted)) /\ blob' # Rejected
        /\ UNCHANGED <<sealed, admitted, opened>>
    BY <1>3 DEF Assemble
  <2> DEFINE pieces == PiecesOf(admitted)
             payload == [vs |-> c.vs, gates |-> ToSet(<<>>), pieces |-> pieces, signature |-> NoSignature]
  <2>2. blob' = Encode(payload) /\ PieceListAdmissible(pieces)
    BY <2>1 DEF AssemblePayload, NewPayload
  <2>3. ToSet(<<>>) = {}
    BY DEF ToSet
  <2>4. blob' = [ header |-> "v1", vs |-> c.vs, pieces |-> pieces, gates |-> <<>>,
                  signature |-> NoSignature, rest |-> 0 ]
    BY <2>2, <2>3, NoGatesSorted DEF Encode
  <2>5. pieces \in Seq(StoredPieces) /\ Len(pieces) <= MaxPayloadPieces
    <3>1. CASE admitted = <<>>
      <4>1. pieces = <<>>
        BY <3>1 DEF PiecesOf
      <4>2. Len(pieces) \in 1 .. MaxPayloadPieces
        BY <2>2 DEF PieceListAdmissible
      <4>3. Len(<<>>) = 0
        OBVIOUS
      <4> QED BY <4>1, <4>2, <4>3
    <3>2. CASE admitted \in Passing
      <4>1. PICK n \in Nat : admitted \in [1 .. n -> StoredSeals]
        BY <3>2, PayloadAssumption DEF Passing, Packages
      <4>2. pieces = [i \in 1 .. n |-> [idx |-> admitted[i].idx, hint |-> SealedHint(admitted[i])]]
        BY <4>1 DEF PiecesOf
      <4>3. ASSUME NEW i \in 1 .. n
            PROVE  [idx |-> admitted[i].idx, hint |-> SealedHint(admitted[i])] \in StoredPieces
        <5>1. admitted[i] \in StoredSeals
          BY <4>1
        <5>2. admitted[i].idx \in Nat
          BY <5>1, PayloadAssumption
        <5> QED BY <5>1, <5>2, SealedHints DEF StoredPieces
      <4>4. pieces \in Seq(StoredPieces)
        BY <4>2, <4>3
      <4>5. Len(pieces) <= MaxPayloadPieces
        <5>1. Len(pieces) \in 1 .. MaxPayloadPieces
          BY <2>2 DEF PieceListAdmissible
        <5>2. MaxPayloadPieces \in Nat
          BY PayloadAssumption
        <5> QED BY <5>1, <5>2
      <4> QED BY <4>4, <4>5
    <3> QED BY <3>1, <3>2 DEF StoredInv, AdmittedInv
  <2>6. c.vs \in Scalars
    BY TargetsAreScalars
  <2> HIDE DEF pieces, payload
  <2>7. /\ blob' \in StoredWires /\ Len(blob'.pieces) <= MaxPayloadPieces
        /\ blob'.gates = <<>> => blob'.signature = NoSignature
    <3>1. <<>> \in Seq({AddedGate})
      OBVIOUS
    <3> QED BY <2>4, <2>5, <2>6, <3>1 DEF StoredWires
  <2> QED BY <1>0, <2>1, <2>7 DEF StoredInv
<1>4. CASE Alter
  <2>1. /\ blob # Rejected /\ blob.pieces # <<>> /\ blob' \in AlteredWires(blob)
        /\ UNCHANGED <<sealed, admitted, opened>>
    BY <1>4 DEF Alter
  <2>2. /\ blob \in StoredWires /\ Len(blob.pieces) <= MaxPayloadPieces
        /\ blob.gates = <<>> => blob.signature = NoSignature
    BY <2>1 DEF StoredInv
  <2>3. PICK ps \in Seq(StoredPieces), v \in Scalars, gs \in Seq({AddedGate}) :
          ps = blob.pieces /\ v = blob.vs /\ gs = blob.gates
    BY <2>2 DEF StoredWires
  <2>4. ps # <<>> /\ Len(ps) <= MaxPayloadPieces /\ Len(ps) \in Nat /\ MaxPayloadPieces \in Nat
    BY <2>1, <2>2, <2>3, PayloadAssumption
  <2> DEFINE Kept(w) == /\ w \in StoredWires /\ Len(w.pieces) <= MaxPayloadPieces
                        /\ w.gates = <<>> => w.signature = NoSignature
  <2>5. ASSUME NEW i \in DOMAIN blob.pieces, NEW p \in AlteredPieces(blob.pieces[i])
        PROVE  Kept([blob EXCEPT !.pieces[i] = p])
    <3>1. p \in StoredPieces
      <4>1. blob.pieces[i] \in StoredPieces
        BY <2>3
      <4> QED BY <2>5, <4>1, AlteredStays
    <3>2. [ps EXCEPT ![i] = p] \in Seq(StoredPieces) /\ Len([ps EXCEPT ![i] = p]) = Len(ps)
      <4>1. i \in DOMAIN ps
        BY <2>3
      <4> QED BY <2>3, <3>1, <4>1
    <3>3. [blob EXCEPT !.pieces[i] = p] = [blob EXCEPT !.pieces = [ps EXCEPT ![i] = p]]
      BY <2>3
    <3> QED BY <2>2, <2>4, <3>2, <3>3 DEF StoredWires
  <2>6. Kept([blob EXCEPT !.pieces = Tail(blob.pieces)])
    <3>1. Tail(ps) \in Seq(StoredPieces) /\ Len(Tail(ps)) = Len(ps) - 1
      BY <2>3, <2>4
    <3> QED BY <2>2, <2>3, <2>4, <3>1, SMTT(60) DEF StoredWires
  <2>7. Kept([blob EXCEPT !.vs = Plus(blob.vs, 1)])
    <3>1. Plus(v, 1) \in Scalars
      <4>1. v \in Int /\ 1 \in Int
        BY AlgebraAssumption DEF Scalars
      <4> QED BY <4>1, SameOperations
    <3> QED BY <2>2, <2>3, <3>1 DEF StoredWires
  <2>8. Kept([blob EXCEPT !.gates = Append(blob.gates, AddedGate), !.signature = "signature"])
    <3>1. Append(gs, AddedGate) \in Seq({AddedGate}) /\ Append(gs, AddedGate) # <<>>
      <4>1. Append(gs, AddedGate) \in Seq({AddedGate}) /\ Len(Append(gs, AddedGate)) = Len(gs) + 1
        BY <2>3
      <4>2. Len(gs) \in Nat /\ Len(<<>>) = 0
        BY <2>3
      <4> QED BY <4>1, <4>2
    <3> QED BY <2>2, <2>3, <3>1 DEF StoredWires
  <2>9. Kept([blob EXCEPT !.header = "v2"]) /\ Kept([blob EXCEPT !.rest = 1])
    BY <2>2 DEF StoredWires
  <2>10. Kept(blob')
    <3> HIDE DEF Kept
    <3>1. \/ \E i \in DOMAIN blob.pieces : \E p \in AlteredPieces(blob.pieces[i]) :
               blob' = [blob EXCEPT !.pieces[i] = p]
          \/ blob' = [blob EXCEPT !.pieces = Tail(blob.pieces)]
          \/ blob' = [blob EXCEPT !.vs = Plus(blob.vs, 1)]
          \/ blob' = [blob EXCEPT !.gates = Append(blob.gates, AddedGate), !.signature = "signature"]
          \/ blob' = [blob EXCEPT !.header = "v2"] \/ blob' = [blob EXCEPT !.rest = 1]
      <4> DEFINE one == UNION {{[blob EXCEPT !.pieces[i] = p] : p \in AlteredPieces(blob.pieces[i])} :
                               i \in DOMAIN blob.pieces}
                 whole == { [blob EXCEPT !.pieces = Tail(@)], [blob EXCEPT !.vs = Plus(@, 1)],
                            [blob EXCEPT !.gates = Append(@, AddedGate), !.signature = "signature"],
                            [blob EXCEPT !.header = "v2"], [blob EXCEPT !.rest = 1] }
      <4>1. AlteredWires(blob) = one \cup whole
        BY DEF AlteredWires
      <4>2. blob' \in one => \E i \in DOMAIN blob.pieces : \E p \in AlteredPieces(blob.pieces[i]) :
                                 blob' = [blob EXCEPT !.pieces[i] = p]
        BY Zenon
      <4>3. blob' \in whole =>
              \/ blob' = [blob EXCEPT !.pieces = Tail(blob.pieces)]
              \/ blob' = [blob EXCEPT !.vs = Plus(blob.vs, 1)]
              \/ blob' = [blob EXCEPT !.gates = Append(blob.gates, AddedGate), !.signature = "signature"]
              \/ blob' = [blob EXCEPT !.header = "v2"] \/ blob' = [blob EXCEPT !.rest = 1]
        BY Zenon
      <4> HIDE DEF one, whole
      <4>4. blob' \in one \/ blob' \in whole
        BY <2>1, <4>1
      <4> QED BY <4>2, <4>3, <4>4
    <3> QED BY <2>5, <2>6, <2>7, <2>8, <2>9, <3>1, ZenonT(60)
  <2> QED BY <1>0, <2>1, <2>10 DEF StoredInv
<1>5. ASSUME NEW x \in TriedKeys, NEW c \in Contexts, RecoverStored(x, c) PROVE StoredInv'
  <2>1. /\ StoredRecovery(x, c) # Failed /\ opened' = opened \cup {<<x, c, StoredRecovery(x, c)>>}
        /\ UNCHANGED <<sealed, admitted, blob>>
    BY <1>5 DEF RecoverStored
  <2>2. StoredRecovery(x, c) = c.vs
    <3>1. RecoverFromPayload(Decode(blob), x, c) # Failed /\ StoredRecovery(x, c) = RecoverFromPayload(Decode(blob), x, c)
      BY <2>1 DEF StoredRecovery
    <3> DEFINE payload == Decode(blob)
    <3>2. PICK results : /\ RecoverFromPayload(payload, x, c) =
                              Combine(results, [i \in DOMAIN payload.pieces |-> 1], BindingIn(c, x).vs)
      BY <3>1 DEF RecoverFromPayload, RecoverRecipientOnly
    <3>3. BindingIn(c, x).vs = c.vs
      BY DEF BindingIn
    <3> QED BY <3>1, <3>2, <3>3 DEF Combine
  <2> QED BY <1>0, <2>1, <2>2 DEF StoredInv
<1>6. CASE UNCHANGED payloadVars
  BY <1>0, <1>6 DEF payloadVars, StoredInv
<1> QED BY <1>1, <1>2, <1>3, <1>4, <1>5, <1>6 DEF PayloadNext, PayloadSteps

----------------------------------------------------------------------------
(* What an intact payload recovers.                                        *)

\* The wire form of an ungated payload decodes to it.
LEMMA DecodesBack ==
  ASSUME NEW vs, vs # Identity, NEW pieces, PieceListAdmissible(pieces),
         \A i \in DOMAIN pieces : Decodes(pieces[i].hint), NEW wire,
         wire = [ header |-> "v1", vs |-> vs, pieces |-> pieces, gates |-> <<>>,
                  signature |-> NoSignature, rest |-> 0 ]
  PROVE  /\ Decode(wire) = [vs |-> vs, gates |-> {}, pieces |-> pieces, signature |-> NoSignature]
         /\ Decode(wire) # Rejected
<1> DEFINE payload == [vs |-> vs, gates |-> {}, pieces |-> pieces, signature |-> NoSignature]
<1>1. RosterAdmissible(<<>>) /\ ToSet(<<>>) = {}
  <2>1. Len(<<>>) = 0 /\ DOMAIN <<>> = {} /\ MaxPayloadGates \in Nat
    BY PayloadAssumption
  <2> QED BY <2>1 DEF RosterAdmissible, ToSet
<1>2. NewPayload(vs, <<>>, pieces, NoSignature) = payload
  BY <1>1 DEF NewPayload
<1>3. payload # Rejected
  <2>1. "vs" \in DOMAIN payload /\ "vs" \notin DOMAIN Rejected
    BY DEF Rejected
  <2> QED BY <2>1
<1>4. Encode(payload) = wire
  BY NoGatesSorted DEF Encode
<1>5. NewPayload(wire.vs, wire.gates, wire.pieces, wire.signature) = payload
  BY <1>2
<1>6. wire.header = "v1" /\ \A i \in DOMAIN wire.pieces : Decodes(wire.pieces[i].hint)
  OBVIOUS
<1> HIDE DEF payload
<1>7. Decode(wire) = payload
  BY <1>3, <1>4, <1>5, <1>6 DEF Decode
<1> QED BY <1>3, <1>7 DEF payload

\* What a piece opens to is its contribution, off by what its ciphertext is.
LEMMA StoredPieceOpens ==
  ASSUME NEW s \in StoredSeals, MayMint(BindingIn(s.context, RecipientKey), s.r),
         NEW hint, hint.eStar = s.r, hint.ct \in Scalars
  PROVE  LET opens == OpenPiece(hint, RecipientKey, BindingIn(s.context, RecipientKey), s.idx)
             off == Minus(hint.ct, SealedHint(s).ct)
             piece == PieceIn(s.context, s.idx)
         IN  /\ opens \in Scalars /\ off \in Scalars /\ piece \in Scalars
             /\ Same(opens, piece + off)
<1> DEFINE b == BindingIn(s.context, RecipientKey)
           mask == MaskOf(s.r, b, s.idx, Times(s.r, RecipientKey))
           piece == PieceIn(s.context, s.idx)
           opens == OpenPiece(hint, RecipientKey, b, s.idx)
           off == Minus(hint.ct, SealedHint(s).ct)
<1>1. s.r \in Scalars /\ RecipientKey \in Scalars /\ piece \in Scalars /\ mask \in Scalars
  BY PayloadAssumption
<1>2. Scalars \subseteq Int
  BY AlgebraAssumption DEF Scalars
<1>3. Admissible(b) /\ s.r # 0 /\ RecipientKey # 0
  BY DEF MayMint, Admissible, BindingIn, Identity
<1>4. Times(RecipientKey, s.r) = Times(s.r, RecipientKey)
  <2>1. PICK r \in Int, x \in Int : r = s.r /\ x = RecipientKey
    BY <1>1, <1>2
  <2>2. x * r = r * x
    OBVIOUS
  <2> QED BY <2>1, <2>2 DEF Times
<1>5. Times(s.r, RecipientKey) # Identity
  BY <1>1, <1>3, NoZeroDivisors DEF Identity
<1>6. opens = Minus(hint.ct, mask)
  BY <1>3, <1>4, <1>5 DEF OpenPiece, Unmask
<1>7. off = Minus(hint.ct, Plus(piece, mask))
  BY SealedHints
<1> HIDE DEF b, mask, piece, opens, off
<1>8. PICK c \in Int, m \in Int, p \in Int : c = hint.ct /\ m = mask /\ p = piece
  BY <1>1, <1>2
<1>9. opens \in Scalars /\ off \in Scalars /\ Same(opens, c - m) /\ Same(off, c - (p + m))
  <2>1. opens = Minus(c, m) /\ off = Minus(c, Plus(p, m))
    BY <1>6, <1>7, <1>8
  <2>2. Plus(p, m) \in Int /\ Same(Plus(p, m), p + m) /\ p + m \in Int /\ Same(c, c)
    <3>1. Plus(p, m) \in Scalars /\ Same(Plus(p, m), p + m)
      BY SameOperations
    <3>2. Same(c, c)
      BY SameIsEquivalence
    <3>3. Plus(p, m) \in Int
      BY <1>2, <3>1
    <3>4. p + m \in Int
      OBVIOUS
    <3> QED BY <3>1, <3>2, <3>3, <3>4
  <2>3. Minus(c, Plus(p, m)) \in Scalars
    BY <2>2, SameOperations
  <2>4. Same(Minus(c, Plus(p, m)), c - (p + m))
    BY <2>2, SameThrough
  <2>5. Minus(c, m) \in Scalars /\ Same(Minus(c, m), c - m)
    BY SameOperations
  <2> QED BY <2>1, <2>3, <2>4, <2>5
<1>10. Same(opens, p + off)
  <2>1. PICK o \in Int, d \in Int : o = opens /\ d = off
    BY <1>2, <1>9
  <2>2. Same(o, c - m) /\ Same(d, c - (p + m))
    BY <1>9, <2>1
  <2>3. PICK q \in Int, t \in Int : o = c - m + Order * q /\ d = c - (p + m) + Order * t
    BY <2>2 DEF Same
  <2>4. PICK nq \in Int, nt \in Int, nn \in Int : nq = Order * q /\ nt = Order * t /\ nn = Order * (q - t)
    BY <2>3, AlgebraAssumption
  <2>5. nn = nq - nt
    BY <2>4, AlgebraAssumption
  <2>6. o = p + d + Order * (q - t)
    BY <2>3, <2>4, <2>5
  <2>7. q - t \in Int
    OBVIOUS
  <2> QED BY <2>1, <2>6, <2>7 DEF Same
<1> QED BY <1>1, <1>8, <1>9, <1>10 DEF b, piece, opens, off

\* Whoever holds the recipient's key recovers from an intact payload.
LEMMA IntactRecovers ==
  ASSUME StoredInv, NEW c \in Contexts, SumIntact(c)
  PROVE  StoredRecovery(RecipientKey, c) = c.vs
<1> DEFINE n == PieceCount
           pieces == blob.pieces
           x == RecipientKey
           b == BindingIn(c, RecipientKey)
<1>1. /\ blob # Rejected /\ blob \in StoredWires /\ blob.header = "v1" /\ blob.rest = 0
      /\ blob.gates = <<>> /\ blob.signature = NoSignature /\ blob.vs # Identity
      /\ Len(pieces) <= MaxPayloadPieces
  BY DEF SumIntact, StoredInv
<1>2. /\ pieces \in Seq(StoredPieces) /\ DOMAIN pieces = 1 .. n /\ Len(pieces) = n
      /\ n \in Nat \ {0}
      /\ \A i \in 1 .. n : /\ pieces[i].idx = i /\ pieces[i].hint.ct \in Scalars
  <2>1. pieces \in Seq(StoredPieces) /\ n \in Nat \ {0}
    BY <1>1, PayloadAssumption DEF StoredWires
  <2>2. [i \in DOMAIN pieces |-> pieces[i].idx] = [i \in 1 .. n |-> i]
    BY DEF SumIntact
  <2> HIDE DEF n, pieces
  <2>3. DOMAIN [i \in DOMAIN pieces |-> pieces[i].idx] = DOMAIN pieces /\ DOMAIN [i \in 1 .. n |-> i] = 1 .. n
    OBVIOUS
  <2>4. DOMAIN pieces = 1 .. n
    BY <2>2, <2>3
  <2>5. Len(pieces) = n
    BY <2>1, <2>4
  <2>6. ASSUME NEW i \in 1 .. n PROVE pieces[i].idx = i /\ pieces[i].hint.ct \in Scalars
    <3>1. [k \in DOMAIN pieces |-> pieces[k].idx][i] = [k \in 1 .. n |-> k][i]
      BY <2>2
    <3>2. pieces[i] \in StoredPieces
      BY <2>1, <2>4
    <3> QED BY <2>4, <3>1, <3>2 DEF StoredPieces
  <2> QED BY <2>1, <2>4, <2>5, <2>6
<1>3. PICK f \in [1 .. n -> sealed] :
        /\ \A i \in 1 .. n : f[i].idx = i /\ f[i].context = c /\ f[i].r = pieces[i].hint.eStar
        /\ SumOver(LAMBDA i : Minus(pieces[i].hint.ct, SealedHint(f[i]).ct), 1 .. n) = 0
  BY DEF SumIntact
<1>4. \A i \in 1 .. n : f[i] \in StoredSeals /\ MayMint(BindingIn(f[i].context, x), f[i].r)
  BY <1>3 DEF StoredInv
<1>5. Decode(blob) = [vs |-> blob.vs, gates |-> {}, pieces |-> pieces, signature |-> NoSignature]
      /\ Decode(blob) # Rejected
  <2>1. \A i \in DOMAIN pieces : Decodes(pieces[i].hint)
    BY <1>2, <1>3, <1>4 DEF Decodes, MayMint, Identity
  <2>2. PieceListAdmissible(pieces)
    <3>1. Len(pieces) \in 1 .. MaxPayloadPieces
      BY <1>1, <1>2, PayloadAssumption
    <3>2. \A i \in 1 .. Len(pieces) - 1 : pieces[i].idx < pieces[i + 1].idx
      <4> SUFFICES ASSUME NEW i \in 1 .. n - 1 PROVE pieces[i].idx < pieces[i + 1].idx
        BY <1>2
      <4>1. i \in 1 .. n /\ i + 1 \in 1 .. n /\ i < i + 1
        BY <1>2
      <4>2. pieces[i].idx = i /\ pieces[i + 1].idx = i + 1
        BY <1>2, <4>1
      <4> QED BY <4>1, <4>2
    <3> QED BY <3>1, <3>2 DEF PieceListAdmissible
  <2>3. blob = [ header |-> "v1", vs |-> blob.vs, pieces |-> pieces, gates |-> <<>>,
                 signature |-> NoSignature, rest |-> 0 ]
    BY <1>1 DEF StoredWires
  <2> HIDE DEF pieces
  <2> QED BY <1>1, <2>1, <2>2, <2>3, DecodesBack
<1> DEFINE ones == [i \in DOMAIN pieces |-> 1]
           results == [i \in DOMAIN pieces |-> OpenPiece(pieces[i].hint, x, b, pieces[i].idx)]
<1>6. StoredRecovery(x, c) = Combine(results, ones, c.vs)
  <2>1. Canonical(pieces, ones)
    <3>1. Len(ones) = n /\ pieces # <<>>
      BY <1>2
    <3>2. \A i \in 1 .. Len(pieces) - 1 : pieces[i].idx < pieces[i + 1].idx
      <4> SUFFICES ASSUME NEW i \in 1 .. n - 1 PROVE pieces[i].idx < pieces[i + 1].idx
        BY <1>2
      <4>1. i \in 1 .. n /\ i + 1 \in 1 .. n /\ i < i + 1
        BY <1>2
      <4>2. pieces[i].idx = i /\ pieces[i + 1].idx = i + 1
        BY <1>2, <4>1
      <4> QED BY <4>1, <4>2
    <3> QED BY <1>2, <3>1, <3>2 DEF Canonical
  <2>2. b.vs = c.vs
    BY DEF BindingIn
  <2>3. RecoverRecipientOnly(pieces, ones, x, b) = Combine(results, ones, c.vs)
    BY <2>1, <2>2 DEF RecoverRecipientOnly
  <2>4. RecoverFromPayload(Decode(blob), x, c) = RecoverRecipientOnly(pieces, ones, x, b)
    BY <1>5 DEF RecoverFromPayload, IsGated
  <2> QED BY <1>1, <1>5, <2>3, <2>4 DEF StoredRecovery
<1> DEFINE parts == [i \in 1 .. n |-> PieceIn(c, i)]
           offs == [i \in 1 .. n |-> Minus(pieces[i].hint.ct, SealedHint(f[i]).ct)]
           counted == [i \in DOMAIN results |-> Times(ones[i], results[i])]
<1>7. \A i \in 1 .. n : results[i] \in Scalars /\ parts[i] \in Scalars /\ offs[i] \in Scalars
                        /\ Same(results[i], parts[i] + offs[i])
  <2> SUFFICES ASSUME NEW i \in 1 .. n
               PROVE  results[i] \in Scalars /\ parts[i] \in Scalars /\ offs[i] \in Scalars
                        /\ Same(results[i], parts[i] + offs[i])
    OBVIOUS
  <2>1. f[i] \in StoredSeals /\ MayMint(BindingIn(f[i].context, RecipientKey), f[i].r)
    BY <1>4
  <2>2. pieces[i].hint.eStar = f[i].r /\ pieces[i].hint.ct \in Scalars
    BY <1>2, <1>3
  <2>3. f[i].context = c /\ f[i].idx = i
    BY <1>3
  <2>4. results[i] = OpenPiece(pieces[i].hint, RecipientKey, BindingIn(f[i].context, RecipientKey), f[i].idx)
    BY <1>2, <2>3
  <2>5. parts[i] = PieceIn(f[i].context, f[i].idx)
        /\ offs[i] = Minus(pieces[i].hint.ct, SealedHint(f[i]).ct)
    BY <2>3
  <2> HIDE DEF results, parts, offs, pieces
  <2> QED BY <2>1, <2>2, <2>4, <2>5, StoredPieceOpens
<1>8. DOMAIN results = 1 .. n /\ \A i \in 1 .. n : ones[i] = 1
  BY <1>2
<1>9. SumFunction(parts) % Order = c.vs /\ SumFunction(offs) % Order = 0
  BY <1>3, PayloadAssumption DEF SumOver
<1> HIDE DEF results, parts, offs, ones, pieces, n
<1>10. Scalars \subseteq Int /\ IsFiniteSet(1 .. n)
  BY <1>2, AlgebraAssumption, FS_Interval DEF Scalars
<1>11. counted \in [1 .. n -> Int] /\ parts \in [1 .. n -> Int] /\ offs \in [1 .. n -> Int]
       /\ \A i \in 1 .. n : Same(counted[i], parts[i] + 1 * offs[i])
  <2>1. ASSUME NEW i \in 1 .. n
        PROVE  counted[i] \in Int /\ Same(counted[i], parts[i] + 1 * offs[i])
    <3>1. PICK r \in Int, p \in Int, d \in Int : r = results[i] /\ p = parts[i] /\ d = offs[i]
      BY <1>7, <1>10
    <3>2. PICK one \in Int : one = 1
      OBVIOUS
    <3>3. counted[i] = Times(one, r) /\ one * r = r /\ p + 1 * d = p + d
      BY <1>8, <3>1, <3>2
    <3>4. Times(one, r) \in Scalars /\ Same(Times(one, r), one * r)
      BY SameOperations
    <3>5. Same(r, p + d)
      BY <1>7, <3>1
    <3>6. Times(one, r) \in Int /\ p + d \in Int /\ Same(Times(one, r), r)
      <4>1. Times(one, r) \in Int
        BY <1>10, <3>4
      <4>2. p + d \in Int
        OBVIOUS
      <4> QED BY <3>3, <3>4, <4>1, <4>2
    <3>7. Same(Times(one, r), p + d)
      BY <3>5, <3>6, SameIsEquivalence
    <3> QED BY <3>1, <3>3, <3>6, <3>7
  <2>2. DOMAIN counted = 1 .. n
    BY <1>8
  <2>3. DOMAIN parts = 1 .. n /\ DOMAIN offs = 1 .. n /\ parts = [i \in 1 .. n |-> parts[i]] /\ offs = [i \in 1 .. n |-> offs[i]]
    BY DEF parts, offs
  <2> HIDE DEF counted
  <2>4. counted = [i \in 1 .. n |-> counted[i]]
    BY <2>2 DEF counted
  <2> QED BY <1>7, <1>10, <2>1, <2>3, <2>4
<1> HIDE DEF counted
<1>12. SumFunction(counted) % Order = c.vs
  <2>1. PICK one \in Int : one = 1
    OBVIOUS
  <2>2. \A i \in 1 .. n : Same(counted[i], parts[i] + one * offs[i])
    BY <1>11, <2>1
  <2>3. /\ SumFunction(counted) \in Int /\ SumFunction(parts) \in Int /\ SumFunction(offs) \in Int
        /\ Same(SumFunction(counted), SumFunction(parts) + one * SumFunction(offs))
    BY <1>10, <1>11, <2>2, SumsCombine
  <2>4. PICK s \in Int, p \in Int, d \in Int :
          s = SumFunction(counted) /\ p = SumFunction(parts) /\ d = SumFunction(offs)
    BY <2>3
  <2>5. Same(s, p + d) /\ one * d = d
    BY <2>1, <2>3, <2>4
  <2>6. Same(d, 0) /\ Same(p, p)
    <3>1. PICK zero \in Int : zero = 0
      OBVIOUS
    <3>2. zero \in Scalars
      BY <3>1, AlgebraAssumption DEF Scalars
    <3>3. zero % Order = zero
      BY <3>2, SameReduces
    <3>4. d % Order = zero % Order
      BY <1>9, <2>4, <3>1, <3>3
    <3>5. Same(d, zero)
      BY <3>4, SameReduces
    <3> QED BY <3>1, <3>5, SameIsEquivalence
  <2>7. Same(p + d, p)
    <3>1. PICK zero \in Int : zero = 0
      OBVIOUS
    <3>2. Same(p + d, p + zero) /\ p + zero = p
      BY <2>6, <3>1, SameArithmetic
    <3> QED BY <3>2
  <2>8. p + d \in Int
    OBVIOUS
  <2>9. Same(s, p)
    BY <2>5, <2>7, <2>8, SameIsEquivalence
  <2>10. s % Order = p % Order
    BY <2>9, SameReduces
  <2> QED BY <1>9, <2>4, <2>10
<1>13. \A i \in 1 .. n : results[i] # Failed
  BY <1>7, AlgebraAssumption DEF Failed, Scalars
<1>14. SumOver(LAMBDA i : Times(ones[i], results[i]), DOMAIN results) = c.vs
  BY <1>12 DEF SumOver, counted
<1>15. Combine(results, ones, c.vs) = c.vs
  BY <1>8, <1>13, <1>14 DEF Combine
<1> QED BY <1>6, <1>15

\* Stored bytes that are intact for a context recover under it, whatever was
\* sealed, retried, altered and reassembled before (recover.rs,
\* recover_recipient_secret_from_payload); and whatever is recovered, under
\* any key, is the certified target (hint.rs, the recheck against VS).
THEOREM IntactPayloadsRecover ==
  PayloadSpec => [](/\ \A c \in Contexts : SumIntact(c) => StoredRecovery(RecipientKey, c) # Failed
                    /\ \A r \in opened : r[3] = r[2].vs)
<1> DEFINE Intact == /\ \A c \in Contexts : SumIntact(c) => StoredRecovery(RecipientKey, c) # Failed
                     /\ \A r \in opened : r[3] = r[2].vs
<1>1. PayloadInit => StoredInv
  BY DEF PayloadInit, StoredInv, AdmittedInv
<1>2. StoredInv => Intact
  <2> SUFFICES ASSUME StoredInv PROVE Intact
    OBVIOUS
  <2>1. ASSUME NEW c \in Contexts, SumIntact(c) PROVE StoredRecovery(RecipientKey, c) # Failed
    <3>1. StoredRecovery(RecipientKey, c) = c.vs
      BY <2>1, IntactRecovers
    <3>2. c.vs \in Scalars
      BY TargetsAreScalars
    <3> QED BY <3>1, <3>2, AlgebraAssumption DEF Scalars, Failed
  <2> QED BY <2>1 DEF StoredInv
<1> HIDE DEF Intact
<1>3. PayloadSpec => []Intact
  BY <1>1, <1>2, StoredStep, PTL DEF PayloadSpec
<1> QED BY <1>3 DEF Intact
=============================================================================
