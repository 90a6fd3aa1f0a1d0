--------------------------- MODULE Opening_proofs ---------------------------
(***************************************************************************)
(* What opening guarantees for every group, roster, list of contributions  *)
(* and alteration: only authentic partials are summed, and a call returns  *)
(* the sealed scalar or an error.  A list opens a capsule, and each piece  *)
(* of a case, exactly when every holder contributed once.                  *)
(***************************************************************************)
EXTENDS CapsuleOpening, CaseOpening, CapsuleAlgebra_proofs, SequenceTheorems, FunctionTheorems

\* What can be on the wire: partials of made contributions, and alterations.
Wire == UNION {{PartialOf(c)} \cup Altered(PartialOf(c)) : c \in made}

IInv ==
  /\ made \subseteq {c \in Contributions : MayContribute(CoreOf(c.capsule), Binding, c.gate)}
  /\ inbox \in Seq(Wire)
  /\ Len(inbox) <= MaxInbox
  /\ released \subseteq TriedSecrets \X {SecretOf[Target]}

----------------------------------------------------------------------------
\* The commitment recheck: an opening that does not fail returns the scalar
\* that C commits to, whatever key and list it was given.
LEMMA OpensToCommitted ==
  ASSUME NEW secret, NEW partials, Unsealed(secret, partials) # Failed
  PROVE  Unsealed(secret, partials) = SecretOf[Target]
<1> DEFINE core == CoreOf(Target)
           masks == AccessMasks(partials, Accepted(partials, core, Binding, TargetCtx), Binding)
<1>1. Unsealed(secret, partials) = OpenWithAccessMasks(core, Binding, secret, masks, LimbModulus)
  BY DEF Unsealed, OpenCore
<1>2. OpenWithAccessMasks(core, Binding, secret, masks, LimbModulus) \in {Failed, core.c}
  BY DEF OpenWithAccessMasks
<1>3. core.c = SecretOf[Target]
  BY DEF CoreOf, SealCore
<1> QED BY <1>1, <1>2, <1>3

\* A partial's shape: the images of its proof, taken apart.
LEMMA PartialShape ==
  ASSUME NEW c \in Contributions
  PROVE  LET p == PartialOf(c)
             images == p.dleq.statement.images
         IN  /\ p = [gate |-> c.gate, w_g |-> Head(images), masks |-> Tail(images), dleq |-> p.dleq]
             /\ p.masks = Tail(images)
             /\ p.dleq.statement.bases = DleqBases(CoreOf(c.capsule))
             /\ p.dleq.statement.binding
                  = ContributionBinding(CoreOf(c.capsule), Binding, c.gate, c.ctx)
             /\ \E S : images \in Seq(S) /\ Len(images) > 1
<1> DEFINE p == PartialOf(c)
           w == ShareOf[c.holder]
           bases == DleqBases(CoreOf(c.capsule))
           images == p.dleq.statement.images
<1>1. p.dleq.statement = [bases |-> bases, images |-> Images(w, bases),
                          binding |-> ContributionBinding(CoreOf(c.capsule), Binding, c.gate, c.ctx)]
  BY DEF PartialOf, Partial, Prove
<1>2. /\ p = [gate |-> c.gate, w_g |-> Head(images), masks |-> Tail(images), dleq |-> p.dleq]
      /\ p.masks = Tail(images)
  BY DEF PartialOf, Partial, Prove
<1>3. \E S : images \in Seq(S) /\ Len(images) > 1
  <2> DEFINE e == CoreOf(c.capsule).e  S == {e[j] : j \in Limbs} \cup {1}
             T == {Times(w, x) : x \in S}
  <2>1. e = [j \in 1 .. LimbCount |-> NoncesOf[c.capsule][j]] /\ LimbCount \in Nat
    BY AlgebraAssumption DEF CoreOf, SealCore, Limbs
  <2>2. e \in Seq(S) /\ <<1>> \in Seq(S)
    BY <2>1 DEF Limbs
  <2> HIDE DEF e, S
  <2>3. bases \in Seq(S) /\ Len(bases) = LimbCount + 1 /\ LimbCount > 0
    BY <2>1, <2>2, AlgebraAssumption DEF DleqBases, e
  <2>4. images = [i \in 1 .. Len(bases) |-> Times(w, bases[i])]
    BY <1>1, <2>3 DEF Images
  <2>5. \A i \in 1 .. Len(bases) : Times(w, bases[i]) \in T
    BY <2>3
  <2> HIDE DEF bases, images, T
  <2>6. images \in Seq(T) /\ Len(images) = LimbCount + 1
    BY <2>1, <2>3, <2>4, <2>5
  <2> QED BY <2>1, <2>3, <2>6
<1> QED BY <1>1, <1>2, <1>3

\* Whatever the wire did to a partial, one that verifies for the target is a
\* partial that a holder made for the target.
LEMMA VerifiedIsAuthentic ==
  ASSUME NEW c \in Contributions, NEW p \in {PartialOf(c)} \cup Altered(PartialOf(c)),
         PartialVerifies(p, CoreOf(Target), Binding, TargetCtx)
  PROVE  ForTarget(c) /\ p = PartialOf(c)
<1> DEFINE mine == PartialOf(c)
           st == mine.dleq.statement
           core == CoreOf(Target)
<1>1. /\ mine = [gate |-> c.gate, w_g |-> Head(st.images), masks |-> Tail(st.images), dleq |-> mine.dleq]
      /\ st.binding = ContributionBinding(CoreOf(c.capsule), Binding, c.gate, c.ctx)
      /\ mine.masks = Tail(st.images)
  BY PartialShape
<1>2. PICK S : st.images \in Seq(S) /\ Len(st.images) > 1
  BY PartialShape
<1>3. /\ p = [gate |-> p.gate, w_g |-> p.w_g, masks |-> p.masks, dleq |-> p.dleq]
      /\ p.dleq = mine.dleq
      /\ p.masks \in {mine.masks, Tail(mine.masks)}
  BY <1>1 DEF Altered
<1>4. st = [bases |-> DleqBases(core), images |-> <<p.w_g>> \o p.masks,
            binding |-> ContributionBinding(core, Binding, p.gate, TargetCtx)]
  BY <1>3 DEF PartialVerifies, ProofVerifies
<1>5. ForTarget(c) /\ p.gate = c.gate
  <2>1. ContributionBinding(core, Binding, p.gate, TargetCtx)
          = ContributionBinding(CoreOf(c.capsule), Binding, c.gate, c.ctx)
    BY <1>1, <1>4
  <2>2. core = CoreOf(c.capsule) /\ p.gate = c.gate /\ TargetCtx = c.ctx
    BY <2>1 DEF ContributionBinding
  <2> QED BY <2>2, DistinctCores, OpeningAssumption DEF ForTarget
<1>6. p.w_g = Head(st.images) /\ p.masks = Tail(st.images)
  <2>1. st.images = <<p.w_g>> \o p.masks
    BY <1>4
  <2>2. Tail(st.images) \in Seq(S) /\ Len(Tail(st.images)) > 0
    BY <1>2
  <2>3. Tail(Tail(st.images)) \in Seq(S)
    BY <2>2
  <2>4. p.masks \in {Tail(st.images), Tail(Tail(st.images))}
    BY <1>1, <1>3
  <2>5. p.masks \in Seq(S)
    BY <2>2, <2>3, <2>4
  <2> QED BY <2>1, <2>5
<1> QED BY <1>1, <1>3, <1>5, <1>6

----------------------------------------------------------------------------
(* The invariant is inductive.                                             *)

\* The initial states satisfy the inductive invariant.
LEMMA InitIInv == Init => IInv
BY OpeningAssumption DEF Init, IInv

\* Every step keeps the inductive invariant, action by action.
LEMMA NextIInv == IInv /\ [Next]_vars => IInv'
<1> SUFFICES ASSUME IInv, [Next]_vars PROVE IInv'
  OBVIOUS
<1> USE DEF IInv
<1>1. ASSUME NEW c \in Contributions, Contribute(c) PROVE IInv'
  <2>1. /\ made' = made \cup {c} /\ inbox' = inbox /\ released' = released
        /\ c \in {d \in Contributions : MayContribute(CoreOf(d.capsule), Binding, d.gate)}
    BY <1>1 DEF Contribute, Make
  <2>2. Wire \subseteq Wire'
    BY <2>1 DEF Wire
  <2>3. inbox \in Seq(Wire')
    BY <2>2
  <2> QED BY <2>1, <2>3
<1>2. ASSUME NEW p \in Wire, Arrive(p) PROVE IInv'
  <2>1. Wire' = Wire
    BY <1>2 DEF Arrive, Wire
  <2>2. inbox' \in Seq(Wire) /\ Len(inbox') = Len(inbox) + 1
    BY <1>2 DEF Arrive
  <2>3. Len(inbox') <= MaxInbox
    BY <1>2, <2>2, OpeningAssumption DEF Arrive
  <2> QED BY <1>2, <2>1, <2>2, <2>3 DEF Arrive
<1>3. ASSUME NEW c \in made, Deliver(c) \/ DeliverAltered(c) PROVE IInv'
  <2>1. {PartialOf(c)} \cup Altered(PartialOf(c)) \subseteq Wire
    BY DEF Wire
  <2>2. PICK p \in {PartialOf(c)} \cup Altered(PartialOf(c)) : Arrive(p)
    BY <1>3 DEF Deliver, DeliverAltered
  <2> QED BY <1>2, <2>1, <2>2
<1>4. ASSUME NEW secret \in TriedSecrets, Unseal(secret) PROVE IInv'
  <2>1. Wire' = Wire
    BY <1>4 DEF Unseal, Return, Wire
  <2> QED BY <1>4, <2>1, OpensToCommitted DEF Unseal, Return
<1>5. CASE UNCHANGED vars
  <2>1. Wire' = Wire
    BY <1>5 DEF vars, Wire
  <2> QED BY <1>5, <2>1 DEF vars
<1> QED BY <1>1, <1>3, <1>4, <1>5 DEF Next

\* The inductive invariant holds in every reachable state; the properties
\* below follow from it.
THEOREM Invariance == Spec => []IInv
<1> QED BY InitIInv, NextIInv, PTL DEF Spec

----------------------------------------------------------------------------
\* The type of the state; in particular no call ever returns an unchecked
\* or missing scalar as a success.
THEOREM TypeCorrect == Spec => []TypeOK
<1>1. SecretOf[Target] \in Scalars
  BY OpeningAssumption
<1>2. IInv => TypeOK
  BY <1>1 DEF IInv, TypeOK
<1> QED BY <1>2, Invariance, PTL

\* Every partial that unseal sums was made by a holder for this capsule, this
\* context and the gate it is counted for (Partial::verify).
THEOREM OnlyAuthenticAccepted == Spec => []AcceptedAreAuthentic
<1>1. ASSUME IInv PROVE AcceptedAreAuthentic
  <2> SUFFICES ASSUME NEW i \in Accepted(inbox, CoreOf(Target), Binding, TargetCtx)
               PROVE  \E c \in made : ForTarget(c) /\ inbox[i] = PartialOf(c)
    BY DEF AcceptedAreAuthentic
  <2>1. i \in DOMAIN inbox /\ PartialVerifies(inbox[i], CoreOf(Target), Binding, TargetCtx)
    BY DEF Accepted
  <2>2. inbox[i] \in Wire
    BY <1>1, <2>1 DEF IInv
  <2>3. PICK c \in made : inbox[i] \in {PartialOf(c)} \cup Altered(PartialOf(c))
    BY <2>2 DEF Wire
  <2>4. c \in Contributions
    BY <1>1, <2>3 DEF IInv
  <2> QED BY <2>1, <2>3, <2>4, VerifiedIsAuthentic
<1> QED BY <1>1, Invariance, PTL

\* A call that returns a scalar returns the sealed one, whoever calls.
THEOREM OnlyTheSealedScalar == Spec => [](\A r \in released : r[2] = SecretOf[Target])
<1>1. IInv => \A r \in released : r[2] = SecretOf[Target]
  BY DEF IInv
<1> QED BY <1>1, Invariance, PTL

----------------------------------------------------------------------------
(* Completeness: what a list of partials comes to that a dealt roster      *)
(* (RosterDealt) made, for one sealed core.                                *)

LEMMA RosterFacts ==
  ASSUME RosterDealt
  PROVE  /\ Order \in Nat \ {0, 1} /\ Scalars \subseteq Int
         /\ LimbCount \in Nat \ {0} /\ Limbs = 1 .. LimbCount
         /\ \A h \in Holders : ShareOf[h] \in Scalars /\ GateOf[h] \in Gates
<1>1. /\ Order \in Nat \ {0, 1} /\ Scalars \subseteq Int
      /\ LimbCount \in Nat \ {0} /\ Limbs = 1 .. LimbCount
  BY AlgebraAssumption DEF Scalars, Limbs
<1>2. \A h \in Holders : ShareOf[h] \in Scalars /\ GateOf[h] \in Gates
  BY DEF RosterDealt
<1> QED BY <1>1, <1>2

\* Every partial in the list that verifies for the core is P[c] for one of the
\* calls, and every call has its own there.
Served(core, ctx, calls, P, nonces) ==
  /\ DOMAIN inbox = 1 .. Len(inbox) /\ Len(inbox) \in 0 .. MaxInbox /\ MaxInbox \in Nat
  /\ nonces \in [Limbs -> Scalars]
  /\ \A i \in DOMAIN inbox :
       PartialVerifies(inbox[i], core, Binding, ctx) => \E c \in calls : inbox[i] = P[c]
  /\ \A c \in calls :
       /\ c.holder \in Holders /\ c.gate \in Gates
       /\ PartialVerifies(P[c], core, Binding, ctx) /\ \E i \in DOMAIN inbox : inbox[i] = P[c]
       /\ P[c].gate = c.gate /\ P[c].w_g = ShareOf[c.holder]
       /\ \A j \in Limbs : P[c].masks[j] = Times(ShareOf[c.holder], nonces[j])
  /\ \A c, d \in calls : P[c] = P[d] => c = d

\* by names the contribution at every position that is summed.
Names(listed, by, calls, nonces) ==
  /\ IsFiniteSet(listed) /\ listed \subseteq 1 .. Len(inbox)
  /\ Len(inbox) \in 0 .. MaxInbox /\ MaxInbox \in Nat
  /\ nonces \in [Limbs -> Scalars]
  /\ \A c \in calls : c.holder \in Holders /\ c.gate \in Gates
  /\ by \in [listed -> calls]
  /\ \A i \in listed :
       /\ inbox[i].gate = by[i].gate /\ inbox[i].w_g = ShareOf[by[i].holder]
       /\ \A j \in Limbs : inbox[i].masks[j] = Times(ShareOf[by[i].holder], nonces[j])
  /\ \A i, k \in listed : by[i] = by[k] => i = k
  /\ \A c \in calls : \E i \in listed : by[i] = c

\* Every call that the list serves is summed, once.
LEMMA ListIsNamed ==
  ASSUME NEW core, NEW ctx, NEW calls, NEW P, NEW nonces, Served(core, ctx, calls, P, nonces)
  PROVE  \E by : Names(Accepted(inbox, core, Binding, ctx), by, calls, nonces)
<1> DEFINE listed == Accepted(inbox, core, Binding, ctx)
<1>1. /\ DOMAIN inbox = 1 .. Len(inbox) /\ Len(inbox) \in 0 .. MaxInbox /\ MaxInbox \in Nat
      /\ nonces \in [Limbs -> Scalars]
      /\ \A c \in calls : c.holder \in Holders /\ c.gate \in Gates
  BY DEF Served
<1>2. listed \subseteq 1 .. Len(inbox) /\ IsFiniteSet(listed)
  <2>1. listed \subseteq 1 .. Len(inbox)
    BY <1>1 DEF Accepted
  <2>2. Len(inbox) \in Int /\ 1 \in Int
    BY <1>1
  <2>3. IsFiniteSet(1 .. Len(inbox))
    BY <2>2, FS_Interval
  <2> QED BY <2>1, <2>3, FS_Subset
<1>4. ASSUME NEW i \in listed PROVE \E c \in calls : inbox[i] = P[c]
  <2>1. i \in DOMAIN inbox /\ PartialVerifies(inbox[i], core, Binding, ctx)
    BY DEF Accepted
  <2> QED BY <2>1 DEF Served
<1>5. ASSUME NEW i \in listed, NEW k \in listed, inbox[i] = inbox[k] PROVE i = k
  <2>1. /\ i \in Int /\ k \in Int /\ \A l \in 1 .. i - 1 : inbox[l] # inbox[i]
        /\ \A l \in 1 .. k - 1 : inbox[l] # inbox[k]
    BY <1>1, <1>2 DEF Accepted
  <2>2. i \in 1 .. Len(inbox) /\ k \in 1 .. Len(inbox)
    BY <1>2
  <2> QED BY <1>1, <1>5, <2>1, <2>2
<1>6. ASSUME NEW c \in calls PROVE \E i \in listed : inbox[i] = P[c]
  <2> DEFINE T == {i \in 1 .. Len(inbox) : inbox[i] = P[c]}
  <2>1. T \subseteq Nat /\ T # {}
    BY <1>1 DEF Served
  <2>2. PICK i \in T : \A k \in T : i <= k
    <3> HIDE DEF T
    <3> QED BY <2>1, NatLeast
  <2>3. \A k \in 1 .. i - 1 : inbox[k] # inbox[i]
    BY <1>1, <2>2
  <2>4. PartialVerifies(inbox[i], core, Binding, ctx)
    BY <2>2 DEF Served
  <2> QED BY <1>1, <2>2, <2>3, <2>4 DEF Accepted
<1> HIDE DEF listed
<1> DEFINE by == [i \in listed |-> CHOOSE c \in calls : inbox[i] = P[c]]
<1>7. by \in [listed -> calls] /\ \A i \in listed : inbox[i] = P[by[i]]
  BY <1>4
<1> HIDE DEF by
<1>8. \A i, k \in listed : by[i] = by[k] => i = k
  BY <1>5, <1>7
<1>9. ASSUME NEW c \in calls PROVE \E i \in listed : by[i] = c
  <2>1. PICK i \in listed : inbox[i] = P[c]
    BY <1>6
  <2>2. P[by[i]] = P[c] /\ by[i] \in calls
    BY <1>7, <2>1
  <2>3. by[i] = c
    BY <2>2 DEF Served
  <2> QED BY <2>3
<1>11. ASSUME NEW i \in listed
       PROVE  /\ inbox[i].gate = by[i].gate /\ inbox[i].w_g = ShareOf[by[i].holder]
              /\ \A j \in Limbs : inbox[i].masks[j] = Times(ShareOf[by[i].holder], nonces[j])
  <2>1. by[i] \in calls /\ inbox[i] = P[by[i]]
    BY <1>7
  <2>2. /\ P[by[i]].gate = by[i].gate /\ P[by[i]].w_g = ShareOf[by[i].holder]
        /\ \A j \in Limbs : P[by[i]].masks[j] = Times(ShareOf[by[i].holder], nonces[j])
    BY <2>1 DEF Served
  <2> QED BY <2>1, <2>2
<1>10. Names(listed, by, calls, nonces)
  BY <1>1, <1>2, <1>7, <1>8, <1>9, <1>11 DEF Names
<1> QED BY <1>10 DEF listed

----------------------------------------------------------------------------
(* The buckets.                                                            *)

Bucket(listed, gate) == {i \in listed : inbox[i].gate = gate}
Given(listed, by, gate, h) == {i \in Bucket(listed, gate) : by[i].holder = h}
Counted(listed, by, gate) == [h \in Holders |-> Cardinality(Given(listed, by, gate, h))]

\* What is in a bucket, position by position.
LEMMA InBucket ==
  ASSUME RosterDealt, NEW listed, NEW by, NEW calls, NEW nonces, Names(listed, by, calls, nonces),
         NEW i \in listed
  PROVE  /\ by[i] \in calls /\ by[i].holder \in Holders /\ by[i].gate \in Gates
         /\ inbox[i].gate = by[i].gate /\ inbox[i].w_g = ShareOf[by[i].holder]
         /\ ShareOf[by[i].holder] \in Int
         /\ \A j \in Limbs : inbox[i].masks[j] = Times(ShareOf[by[i].holder], nonces[j])
<1>1. by[i] \in calls
  BY DEF Names
<1>2. by[i].holder \in Holders /\ by[i].gate \in Gates
  BY <1>1 DEF Names
<1>3. ShareOf[by[i].holder] \in Int
  BY <1>2, RosterFacts
<1> QED BY <1>1, <1>2, <1>3 DEF Names

\* A bucket comes to so many shares of each holder, no more of any than the
\* list is long.
LEMMA BucketSum ==
  ASSUME RosterDealt, NEW listed, NEW by, NEW calls, NEW nonces, Names(listed, by, calls, nonces), NEW gate \in Gates
  PROVE  /\ Counted(listed, by, gate) \in [Holders -> 0 .. MaxInbox]
         /\ SumFunction([i \in Bucket(listed, gate) |-> inbox[i].w_g]) % Order
              = SumFunction([h \in Holders |-> Counted(listed, by, gate)[h] * ShareOf[h]]) % Order
<1> DEFINE B == Bucket(listed, gate)
           count == Counted(listed, by, gate)
           p == [i \in B |-> by[i].holder]
           f == [i \in B |-> inbox[i].w_g]
           g == [h \in Holders |-> SumFunction(Over(f, {i \in B : p[i] = h}))]
           s == [h \in Holders |-> count[h] * ShareOf[h]]
<1>1. /\ IsFiniteSet(listed) /\ listed \subseteq 1 .. Len(inbox) /\ Len(inbox) \in 0 .. MaxInbox
      /\ MaxInbox \in Nat
  BY DEF Names
<1>2. IsFiniteSet(B) /\ B \subseteq listed
  BY <1>1, FS_Subset DEF Bucket
<1>3. ASSUME NEW u \in SUBSET listed PROVE Cardinality(u) \in 0 .. MaxInbox
  <2>1. u \in SUBSET (1 .. Len(inbox)) /\ Len(inbox) \in Nat
    BY <1>1
  <2>2. IsFiniteSet(1 .. Len(inbox)) /\ Cardinality(1 .. Len(inbox)) = Len(inbox)
    <3>1. 1 \in Int /\ Len(inbox) \in Int
      BY <2>1
    <3>2. Cardinality(1 .. Len(inbox)) = IF 1 > Len(inbox) THEN 0 ELSE Len(inbox) - 1 + 1
      BY <3>1, FS_Interval
    <3>3. IsFiniteSet(1 .. Len(inbox))
      BY <3>1, FS_Interval
    <3> HIDE DEF f, g, p, B, count, s
    <3> QED BY <2>1, <3>2, <3>3
  <2>3. Cardinality(u) <= Cardinality(1 .. Len(inbox)) /\ Cardinality(u) \in Nat
    BY <2>1, <2>2, FS_Subset, FS_CardinalityType
  <2> QED BY <1>1, <2>1, <2>2, <2>3
<1>4. \A h \in Holders : Given(listed, by, gate, h) \in SUBSET listed
  BY <1>2 DEF Given
<1>5. count \in [Holders -> 0 .. MaxInbox]
  BY <1>3, <1>4 DEF Counted
<1>6. p \in [B -> Holders] /\ f \in [B -> Int]
  BY <1>2, InBucket
<1>7. g \in [Holders -> Int] /\ SumFunction(f) = SumFunction(g)
  <2> HIDE DEF B, p, f
  <2>1. IsFiniteSet(Holders)
    BY DEF RosterDealt
  <2> QED BY <1>2, <1>6, <2>1, SumByGroups
<1>8. ASSUME NEW h \in Holders PROVE g[h] = s[h]
  <2> DEFINE G == {i \in B : p[i] = h}
  <2>1. G = Given(listed, by, gate, h)
    BY DEF Given
  <2>2. IsFiniteSet(G)
    BY <1>2, FS_Subset
  <2>3. ShareOf[h] \in Int
    BY RosterFacts
  <2>4. Over(f, G) = [i \in G |-> ShareOf[h]]
    <3>1. \A i \in G : f[i] = ShareOf[h]
      BY <1>2, InBucket
    <3> HIDE DEF G, f
    <3> QED BY <3>1 DEF Over
  <2>5. SumFunction([i \in G |-> ShareOf[h]]) = Cardinality(G) * ShareOf[h]
    <3> HIDE DEF G
    <3> QED BY <2>2, <2>3, SumConstant
  <2>6. g[h] = SumFunction(Over(f, G))
    OBVIOUS
  <2>7. s[h] = Cardinality(Given(listed, by, gate, h)) * ShareOf[h]
    BY DEF Counted
  <2> HIDE DEF G, g, s, f
  <2> QED BY <2>1, <2>4, <2>5, <2>6, <2>7
<1>9. g = s
  <2>1. g = [h \in Holders |-> g[h]] /\ s = [h \in Holders |-> s[h]]
    OBVIOUS
  <2> HIDE DEF g, s
  <2> QED BY <1>8, <2>1
<1>10. SumFunction(f) = SumFunction(s)
  BY <1>7, <1>9
<1> QED BY <1>5, <1>10

\* Full buckets hold every holder's contribution, to its own gate, once.
LEMMA FullBuckets ==
  ASSUME RosterDealt, NEW listed, NEW by, NEW calls, NEW nonces, Names(listed, by, calls, nonces),
         GatesQualify(inbox, listed, Binding.gates)
  PROVE  EveryHolderOnce(calls)
<1>1. ASSUME NEW gate \in Gates, NEW h \in Holders
      PROVE  Cardinality(Given(listed, by, gate, h)) = IF GateOf[h] = gate THEN 1 ELSE 0
  <2>1. SumOver(LAMBDA i : inbox[i].w_g, Bucket(listed, gate)) = gate
    BY DEF GatesQualify, Bucket, Binding, OpeningBinding
  <2>2. PICK count \in [Holders -> 0 .. MaxInbox] :
          /\ count = Counted(listed, by, gate)
          /\ SumOver(LAMBDA k : count[k] * ShareOf[k], Holders) = gate
    <3>1. /\ Counted(listed, by, gate) \in [Holders -> 0 .. MaxInbox]
          /\ SumFunction([i \in Bucket(listed, gate) |-> inbox[i].w_g]) % Order
               = SumFunction([k \in Holders |-> Counted(listed, by, gate)[k] * ShareOf[k]]) % Order
      BY BucketSum
    <3>2. SumFunction([k \in Holders |-> Counted(listed, by, gate)[k] * ShareOf[k]]) % Order = gate
      BY <2>1, <3>1 DEF SumOver
    <3> HIDE <2>1
    <3> QED BY <3>1, <3>2 DEF SumOver
  <2>3. \A k \in Holders : count[k] = IF GateOf[k] = gate THEN 1 ELSE 0
    BY <2>2 DEF RosterDealt, SumOver
  <2> QED BY <2>2, <2>3 DEF Counted
<1>2. ASSUME NEW gate \in Gates, NEW h \in Holders
      PROVE  /\ IsFiniteSet(Given(listed, by, gate, h)) /\ Given(listed, by, gate, h) \subseteq listed
             /\ GateOf[h] # gate => Given(listed, by, gate, h) = {}
             /\ GateOf[h] = gate => \E i : Given(listed, by, gate, h) = {i}
  <2>1. Given(listed, by, gate, h) \subseteq listed
    BY DEF Given, Bucket
  <2>2. IsFiniteSet(Given(listed, by, gate, h))
    BY <2>1, FS_Subset DEF Names
  <2>3. GateOf[h] # gate => Given(listed, by, gate, h) = {}
    BY <1>1, <2>2, FS_EmptySet
  <2>4. GateOf[h] = gate => \E i : Given(listed, by, gate, h) = {i}
    BY <1>1, <2>2, FS_Singleton
  <2> QED BY <2>1, <2>2, <2>3, <2>4
<1>3. ASSUME NEW c \in calls
      PROVE  \E i \in listed : /\ by[i] = c /\ c.holder \in Holders /\ c.gate \in Gates
                               /\ i \in Given(listed, by, c.gate, c.holder)
  <2>1. PICK i \in listed : by[i] = c
    BY DEF Names
  <2> QED BY <2>1, InBucket DEF Given, Bucket
<1>4. \A c \in calls : c.gate = GateOf[c.holder]
  BY <1>2, <1>3
<1>5. ASSUME NEW h \in Holders PROVE \E c \in calls : c.holder = h
  <2>1. GateOf[h] \in Gates
    BY RosterFacts
  <2>2. PICK i : Given(listed, by, GateOf[h], h) = {i}
    BY <1>2, <2>1
  <2>3. i \in listed /\ by[i].holder = h
    BY <2>2 DEF Given, Bucket
  <2> QED BY <2>3 DEF Names
<1>6. ASSUME NEW c \in calls, NEW d \in calls, c.holder = d.holder PROVE c = d
  <2>1. PICK i \in listed : /\ by[i] = c /\ c.holder \in Holders /\ c.gate \in Gates
                            /\ i \in Given(listed, by, c.gate, c.holder)
    BY <1>3
  <2>2. PICK k \in listed : by[k] = d /\ k \in Given(listed, by, d.gate, d.holder)
    BY <1>3
  <2>3. c.gate = d.gate /\ GateOf[c.holder] = c.gate
    BY <1>4, <1>6
  <2>4. PICK l : Given(listed, by, c.gate, c.holder) = {l}
    BY <1>2, <2>1, <2>3
  <2> QED BY <1>6, <2>1, <2>2, <2>3, <2>4
<1> QED BY <1>4, <1>5, <1>6 DEF EveryHolderOnce

\* Every position that is summed is one holder's, and every holder has one.
LEMMA OnePosition ==
  ASSUME RosterDealt, NEW listed, NEW by, NEW calls, NEW nonces, Names(listed, by, calls, nonces), EveryHolderOnce(calls)
  PROVE  /\ \A i \in listed : by[i].holder \in Holders /\ inbox[i].gate = GateOf[by[i].holder]
         /\ \A i, k \in listed : by[i].holder = by[k].holder => i = k
         /\ \A h \in Holders : \E i \in listed : by[i].holder = h
<1>1. \A i \in listed : by[i].holder \in Holders /\ inbox[i].gate = GateOf[by[i].holder]
  BY InBucket DEF EveryHolderOnce
<1>2. \A i, k \in listed : by[i].holder = by[k].holder => i = k
  BY DEF EveryHolderOnce, Names
<1>3. ASSUME NEW h \in Holders PROVE \E i \in listed : by[i].holder = h
  <2>1. PICK c \in calls : c.holder = h
    BY DEF EveryHolderOnce
  <2> QED BY <2>1 DEF Names
<1> QED BY <1>1, <1>2, <1>3

\* With every holder's contribution in its place the buckets are full.
LEMMA OnceFills ==
  ASSUME RosterDealt, NEW listed, NEW by, NEW calls, NEW nonces, Names(listed, by, calls, nonces), EveryHolderOnce(calls)
  PROVE  GatesQualify(inbox, listed, Binding.gates)
<1>1. Binding.gates = Gates
  BY DEF Binding, OpeningBinding
<1>2. ASSUME NEW gate \in Gates
      PROVE  SumOver(LAMBDA i : inbox[i].w_g, Bucket(listed, gate)) = gate
  <2> DEFINE B == Bucket(listed, gate)
             H == HoldersOf(gate)
             at == [i \in B |-> by[i].holder]
             f == [i \in B |-> inbox[i].w_g]
             s == [h \in H |-> ShareOf[h]]
  <2>1. IsFiniteSet(B) /\ B \subseteq listed /\ IsFiniteSet(H) /\ H \subseteq Holders
    <3>1. B \subseteq listed /\ H \subseteq Holders
      BY DEF Bucket, HoldersOf
    <3>2. IsFiniteSet(listed) /\ IsFiniteSet(Holders)
      BY DEF Names, RosterDealt
    <3> HIDE DEF B, H
    <3> QED BY <3>1, <3>2, FS_Subset
  <2>2. at \in [B -> H]
    BY <2>1, OnePosition DEF Bucket, HoldersOf
  <2>3. \A i \in B : f[i] \in Int /\ f[i] = s[at[i]]
    <3>1. \A i \in B : inbox[i].w_g \in Int /\ inbox[i].w_g = ShareOf[by[i].holder]
      BY <2>1, InBucket
    <3>2. \A i \in B : by[i].holder \in H
      BY <2>2
    <3> HIDE DEF B, H
    <3> QED BY <3>1, <3>2
  <2>4. \A h \in H : s[h] \in Int
    BY <2>1, RosterFacts
  <2>5. \A i, k \in B : at[i] = at[k] => i = k
    BY <2>1, OnePosition
  <2>6. ASSUME NEW h \in H PROVE \E i \in B : at[i] = h
    <3>1. h \in Holders /\ GateOf[h] = gate
      BY DEF HoldersOf
    <3>2. PICK i \in listed : by[i].holder = h /\ inbox[i].gate = GateOf[by[i].holder]
      BY <3>1, OnePosition
    <3>3. i \in B
      BY <3>1, <3>2 DEF Bucket
    <3> QED BY <3>2, <3>3
  <2>7. f \in [B -> Int] /\ s \in [H -> Int]
    BY <2>3, <2>4
  <2>8. SumOver(LAMBDA i : inbox[i].w_g, Bucket(listed, gate)) = SumFunction(f) % Order
    BY DEF SumOver
  <2>9. SumFunction(s) % Order = gate
    BY DEF SumOver, RosterDealt
  <2> HIDE DEF B, H, at, f, s
  <2>10. Renames(at, f, B, s, H)
    BY <2>2, <2>3, <2>5, <2>6, <2>7 DEF Renames
  <2>11. SumFunction(f) = SumFunction(s)
    BY <2>1, <2>10, SumReindexed
  <2> QED BY <2>8, <2>9, <2>11
<1> QED BY <1>1, <1>2 DEF GatesQualify, Bucket

----------------------------------------------------------------------------
(* The masks.                                                              *)

Weight(gate) == GateWeight(Recipient, Gates, gate)
AccessTotal == WeightedAccessSum(Recipient, Gates)

\* What a holder adds to the weighted access sum.
Stake == [h \in Holders |-> Weight(GateOf[h]) * ShareOf[h]]

\* The holders' stakes come to the weighted access sum of the roster.
LEMMA StakesAreTheRoster ==
  ASSUME RosterDealt
  PROVE  /\ Stake \in [Holders -> Int] /\ AccessTotal \in Scalars
         /\ SumFunction(Stake) \in Int /\ Same(SumFunction(Stake), AccessTotal)
<1> DEFINE p == [h \in Holders |-> GateOf[h]]
           group(gate) == {h \in Holders : p[h] = gate}
           g == [gate \in Gates |-> SumFunction(Over(Stake, group(gate)))]
           t == [gate \in Gates |-> Times(Weight(gate), gate)]
<1>1. /\ IsFiniteSet(Holders) /\ IsFiniteSet(Gates) /\ p \in [Holders -> Gates]
      /\ \A h \in Holders : GateOf[h] \in Gates /\ ShareOf[h] \in Int
      /\ \A gate \in Gates : gate \in Scalars /\ gate \in Int /\ Weight(gate) \in Int
  BY RosterFacts DEF RosterDealt, Weight
<1>2. Stake \in [Holders -> Int]
  <2>1. \A h \in Holders : Weight(GateOf[h]) * ShareOf[h] \in Int
    BY <1>1
  <2> QED BY <2>1 DEF Stake
<1>3. g \in [Gates -> Int] /\ SumFunction(Stake) = SumFunction(g)
  <2> HIDE DEF p
  <2> QED BY <1>1, <1>2, SumByGroups
<1>4. t \in [Gates -> Int]
  <2>1. \A gate \in Gates : Times(Weight(gate), gate) \in Int
    BY <1>1, RosterFacts, SameOperations
  <2> QED BY <2>1
<1>5. ASSUME NEW gate \in Gates PROVE Same(g[gate], 1 * t[gate])
  <2> DEFINE H == HoldersOf(gate)
             f == Over(Stake, H)
             s == [h \in H |-> ShareOf[h]]
  <2>1. H = group(gate) /\ H \subseteq Holders
    BY DEF HoldersOf
  <2>2. g[gate] = SumFunction(f)
    BY <2>1
  <2>3. IsFiniteSet(H)
    BY <1>1, <2>1, FS_Subset
  <2>4. PICK w \in Int : w = Weight(gate)
    BY <1>1
  <2>5. \A h \in H : h \in Holders /\ GateOf[h] = gate
    BY DEF HoldersOf
  <2>6. f \in [H -> Int] /\ s \in [H -> Int] /\ \A h \in H : f[h] = w * s[h]
    BY <1>1, <1>2, <2>4, <2>5 DEF Over, Stake
  <2>7. SumFunction(s) % Order = gate
    BY DEF SumOver, RosterDealt
  <2> HIDE DEF H, f, s
  <2>8. \A h \in H : Same(f[h], w * s[h])
    <3> SUFFICES ASSUME NEW h \in H PROVE Same(f[h], w * s[h])
      OBVIOUS
    <3>1. f[h] \in Int /\ f[h] = w * s[h]
      BY <2>6
    <3>2. Same(f[h], f[h])
      BY <3>1, SameIsEquivalence
    <3> QED BY <3>1, <3>2
  <2>9. /\ SumFunction(f) \in Int /\ SumFunction(s) \in Int
        /\ Same(SumFunction(f), w * SumFunction(s))
    BY <2>3, <2>6, <2>8, SumScales
  <2>10. PICK x \in Int, y \in Int, k \in Int :
           x = SumFunction(f) /\ y = SumFunction(s) /\ k = gate
    BY <1>1, <2>9
  <2>11. Same(y, k)
    <3>1. Same(y % Order, y) /\ y % Order = k
      BY <2>7, <2>10, SameReduces
    <3> QED BY <2>10, <3>1, SameIsEquivalence
  <2>12. Same(w, w)
    BY SameIsEquivalence
  <2>13. Same(w * y, w * k) /\ w * y \in Int /\ w * k \in Int
    BY <2>11, <2>12, SameArithmetic
  <2>14. PICK z \in Int : z = Times(w, k) /\ Same(z, w * k)
    BY RosterFacts, SameOperations
  <2>15. Same(x, w * y)
    BY <2>9, <2>10
  <2>16. Same(x, z)
    <3>1. PICK c \in Int, d \in Int : c = w * y /\ d = w * k
      BY <2>13
    <3>2. Same(x, c) /\ Same(c, d) /\ Same(d, z)
      BY <2>13, <2>14, <2>15, <3>1, SameIsEquivalence
    <3> QED BY <3>1, <3>2, SameIsEquivalence
  <2>17. t[gate] = z /\ 1 * z = z
    BY <2>4, <2>10, <2>14
  <2> HIDE DEF g, t
  <2> QED BY <2>2, <2>10, <2>16, <2>17
<1>6. AccessTotal = SumFunction(t) % Order
  BY DEF AccessTotal, WeightedAccessSum, SumOver, Weight
<1> HIDE DEF g, t
<1>7. SumFunction(g) \in Int /\ SumFunction(t) \in Int /\ Same(SumFunction(g), 1 * SumFunction(t))
  BY <1>1, <1>3, <1>4, <1>5, SumScales, 1 \in Int
<1>8. PICK x \in Int, y \in Int : x = SumFunction(g) /\ y = SumFunction(t)
  BY <1>7
<1>9. Same(x, y) /\ Same(y % Order, y) /\ y % Order \in Scalars /\ y % Order \in Int
  BY <1>7, <1>8, SameReduces, RosterFacts
<1>10. Same(x, y % Order)
  BY <1>9, SameIsEquivalence
<1> QED BY <1>2, <1>3, <1>6, <1>8, <1>9, <1>10

\* With every holder once, the mask of a limb is its ephemeral's multiple of
\* the weighted access sum.
LEMMA MaskSums ==
  ASSUME RosterDealt, NEW listed, NEW by, NEW calls, NEW nonces, Names(listed, by, calls, nonces), EveryHolderOnce(calls), NEW j \in Limbs
  PROVE  LET mask == AccessMasks(inbox, listed, Binding)[j]
         IN  mask \in Scalars /\ Same(mask, nonces[j] * AccessTotal)
<1> DEFINE at == [i \in listed |-> by[i].holder]
           f == [i \in listed |-> Times(inbox[i].masks[j], Weight(inbox[i].gate))]
           e == [i \in listed |-> Stake[by[i].holder]]
<1>1. IsFiniteSet(listed) /\ IsFiniteSet(Holders)
  BY DEF Names, RosterDealt
<1>2. PICK r \in Int : r = nonces[j]
  BY RosterFacts DEF Names
<1>3. ASSUME NEW i \in listed PROVE f[i] \in Int /\ e[i] \in Int /\ Same(f[i], r * e[i])
  <2>1. by[i].holder \in Holders /\ inbox[i].gate = GateOf[by[i].holder]
    BY OnePosition
  <2>2. PICK s \in Int, w \in Int : s = ShareOf[by[i].holder] /\ w = Weight(inbox[i].gate)
    BY <2>1, RosterFacts DEF RosterDealt, Weight
  <2>3. inbox[i].masks[j] = Times(s, r)
    BY <1>2, <2>2, InBucket
  <2>4. e[i] = w * s
    BY <2>1, <2>2 DEF Stake
  <2>5. PICK m \in Int : m = Times(s, r) /\ Same(m, s * r)
    BY RosterFacts, SameOperations
  <2>6. PICK a \in Int : a = s * r
    OBVIOUS
  <2>7. Same(m, a) /\ Same(w, w)
    BY <2>5, <2>6, SameIsEquivalence
  <2>8. Times(m, w) \in Int /\ Same(Times(m, w), a * w)
    BY <2>7, SameThrough
  <2>9. a * w = r * (w * s)
    BY <2>6
  <2>10. f[i] = Times(m, w)
    BY <2>2, <2>3, <2>5
  <2> HIDE DEF f, e
  <2> QED BY <2>4, <2>8, <2>9, <2>10
<1>4. f \in [listed -> Int] /\ e \in [listed -> Int]
  BY <1>3
<1>5. SumFunction(e) = SumFunction(Stake)
  <2>1. at \in [listed -> Holders] /\ \A i \in listed : e[i] = Stake[at[i]]
    BY OnePosition
  <2>2. /\ \A i, k \in listed : at[i] = at[k] => i = k
        /\ \A h \in Holders : \E i \in listed : at[i] = h
    BY OnePosition
  <2>3. Stake \in [Holders -> Int]
    BY StakesAreTheRoster
  <2> HIDE DEF at, e, f
  <2>4. Renames(at, e, listed, Stake, Holders)
    BY <1>4, <2>1, <2>2, <2>3 DEF Renames
  <2> QED BY <1>1, <2>4, SumReindexed
<1>6. AccessMasks(inbox, listed, Binding)[j] = SumFunction(f) % Order
  BY DEF AccessMasks, SumOver, Binding, OpeningBinding, Weight
<1> HIDE DEF f, e
<1>7. SumFunction(f) \in Int /\ SumFunction(e) \in Int /\ Same(SumFunction(f), r * SumFunction(e))
  BY <1>1, <1>3, <1>4, SumScales
<1>8. PICK x \in Int, y \in Int, a \in Int :
        x = SumFunction(f) /\ y = SumFunction(Stake) /\ a = AccessTotal /\ Same(y, a)
  BY <1>5, <1>7, StakesAreTheRoster, RosterFacts
<1>9. PICK m \in Scalars : m = x % Order /\ Same(m, x)
  BY SameReduces
<1>10. Same(r * y, r * a) /\ r * y \in Int /\ r * a \in Int
  <2>1. Same(r, r) /\ Same(y, a)
    BY <1>8, SameIsEquivalence
  <2>2. Same(r * y, r * a)
    BY <2>1, SameArithmetic
  <2>3. r * y \in Int /\ r * a \in Int
    OBVIOUS
  <2> QED BY <2>2, <2>3
<1>11. PICK c \in Int, d \in Int : c = r * y /\ d = r * a
  BY <1>10
<1>12. Same(m, x) /\ Same(x, c) /\ Same(c, d) /\ m \in Int
  BY <1>5, <1>7, <1>8, <1>9, <1>10, <1>11, RosterFacts
<1>13. Same(m, d)
  BY <1>12, SameIsEquivalence
<1> QED BY <1>2, <1>6, <1>8, <1>9, <1>11, <1>13

\* What a sealed core holds for the roster.
LEMMA SealedHolds ==
  ASSUME RosterDealt, NEW secret \in Scalars, NEW nonces \in [Limbs -> Scalars]
  PROVE  LET core == SealCore(secret, nonces, Binding)
         IN  /\ Holds(core, Decompose(secret), nonces, RecipientWeight(Recipient, Gates), Recipient,
                      AccessTotal)
             /\ core.c = secret /\ core.e = nonces
             /\ core.e \in Seq(Int) /\ Len(core.e) = LimbCount
             /\ Decompose(secret) \in [Limbs -> 0 .. LimbModulus - 1]
             /\ Decompose(secret) \in [Limbs -> Int] /\ Integer(Decompose(secret)) = secret
             /\ nonces \in [Limbs -> Int]
<1>1. PICK k \in Int : k = Recipient
  BY RosterFacts DEF RosterDealt
<1>2. RecipientWeight(k, Gates) \in Int /\ WeightedAccessSum(k, Gates) \in Int
  BY <1>1, StakesAreTheRoster, RosterFacts DEF RosterDealt, AccessTotal
<1> DEFINE core == SealCore(secret, nonces, OpeningBinding(k, Gates))
<1>3. /\ Holds(core, Decompose(secret), nonces, RecipientWeight(k, Gates), k, WeightedAccessSum(k, Gates))
      /\ core.c = secret /\ core.e = nonces /\ core.e \in Seq(Int) /\ Len(core.e) = LimbCount
  BY <1>2, SealHolds
<1> HIDE DEF core
<1>4. Decompose(secret) \in [Limbs -> 0 .. LimbModulus - 1] /\ Integer(Decompose(secret)) = secret
  BY IntegerOfDigits
<1>5. LimbModulus \in Int /\ Scalars \subseteq Int
  BY AlgebraAssumption, RosterFacts
<1> DEFINE digits == Decompose(secret)
<1>6. digits \in [Limbs -> Int] /\ nonces \in [Limbs -> Int]
  <2>1. digits \in [Limbs -> 0 .. LimbModulus - 1]
    BY <1>4
  <2> HIDE DEF digits
  <2>2. \A j \in Limbs : digits[j] \in Int
    BY <1>5, <2>1
  <2>3. \A j \in Limbs : nonces[j] \in Int
    BY <1>5
  <2> QED BY <2>1, <2>2, <2>3
<1> QED BY <1>1, <1>3, <1>4, <1>6 DEF Binding, AccessTotal, core

\* One sealed core and a list: it opens only if every holder contributed
\* once; then the masks are the roster's, and the recipient gets the secret.
LEMMA ListOpens ==
  ASSUME RosterDealt, NEW secret \in Scalars, NEW ctx, NEW calls, NEW P, NEW nonces,
         Served(SealCore(secret, nonces, Binding), ctx, calls, P, nonces)
  PROVE  LET core == SealCore(secret, nonces, Binding)
             listed == Accepted(inbox, core, Binding, ctx)
         IN  /\ GatesQualify(inbox, listed, Binding.gates) <=> EveryHolderOnce(calls)
             /\ EveryHolderOnce(calls) =>
                  /\ Masked(AccessMasks(inbox, listed, Binding), nonces, AccessTotal)
                  /\ OpenCore(core, Binding, Recipient, inbox, ctx, LimbModulus) = secret
<1> DEFINE core == SealCore(secret, nonces, Binding)
           listed == Accepted(inbox, core, Binding, ctx)
           masks == AccessMasks(inbox, listed, Binding)
           w == RecipientWeight(Recipient, Gates)
           digits == Decompose(secret)
<1>1. PICK by : Names(listed, by, calls, nonces)
  <2>1. Served(core, ctx, calls, P, nonces)
    OBVIOUS
  <2> HIDE DEF core
  <2>2. \E by : Names(Accepted(inbox, core, Binding, ctx), by, calls, nonces)
    BY <2>1, ListIsNamed
  <2> QED BY <2>2
<1>2. GatesQualify(inbox, listed, Binding.gates) => EveryHolderOnce(calls)
  <2> HIDE DEF listed
  <2> QED BY <1>1, FullBuckets
<1>3. EveryHolderOnce(calls) => GatesQualify(inbox, listed, Binding.gates)
  <2> HIDE DEF listed
  <2> QED BY <1>1, OnceFills
<1>4. ASSUME EveryHolderOnce(calls)
      PROVE  Masked(masks, nonces, AccessTotal)
  <2> HIDE DEF listed
  <2> QED BY <1>1, <1>4, MaskSums DEF Masked, Scalars
<1>5. ASSUME EveryHolderOnce(calls)
      PROVE  OpenCore(core, Binding, Recipient, inbox, ctx, LimbModulus) = secret
  <2>1. nonces \in [Limbs -> Scalars]
    BY DEF Served
  <2>2. /\ Holds(core, digits, nonces, w, Recipient, AccessTotal) /\ core.c = secret
        /\ digits \in [Limbs -> 0 .. LimbModulus - 1] /\ nonces \in [Limbs -> Int]
    BY <2>1, SealedHolds
  <2>3. w \in Int /\ Recipient \in Int /\ AccessTotal \in Int /\ Binding.recipientWeight = w
    BY RosterFacts, StakesAreTheRoster DEF RosterDealt, Binding, OpeningBinding
  <2>4. LimbModulus \in Nat /\ LimbModulus <= Order
    BY AlgebraAssumption
  <2>5. OpenCore(core, Binding, Recipient, inbox, ctx, LimbModulus)
          = OpenWithAccessMasks(core, Binding, Recipient, masks, LimbModulus)
    BY <1>3, <1>5 DEF OpenCore
  <2>6. Masked(masks, nonces, AccessTotal)
    BY <1>4, <1>5
  <2> HIDE DEF core, masks, digits, w, listed
  <2>7. OpenWithAccessMasks(core, Binding, Recipient, masks, LimbModulus) = core.c
    BY <2>2, <2>3, <2>4, <2>6, MasksOpen
  <2> QED BY <2>2, <2>5, <2>7
<1> QED BY <1>2, <1>3, <1>4, <1>5

----------------------------------------------------------------------------
(* Opening a capsule.                                                      *)

\* The capsules as they were sealed.
LEMMA Dealt ==
  ASSUME DealingAssumption
  PROVE  /\ RosterDealt /\ Target \in Capsules /\ SecretOf[Target] \in Scalars
         /\ NoncesOf[Target] \in [Limbs -> Scalars]
         /\ \A k \in Capsules :
              /\ CoreOf(k).e \in Seq(Int) /\ Len(CoreOf(k).e) = LimbCount
              /\ \A j \in Limbs : CoreOf(k).e[j] = NoncesOf[k][j]
<1>1. RosterDealt /\ \A k \in Capsules : NoncesOf[k] \in [Limbs -> Scalars]
  BY DEF DealingAssumption
<1>2. Target \in Capsules /\ \A k \in Capsules : SecretOf[k] \in Scalars
  BY OpeningAssumption
<1>3. ASSUME NEW k \in Capsules
      PROVE  /\ CoreOf(k).e \in Seq(Int) /\ Len(CoreOf(k).e) = LimbCount
             /\ CoreOf(k).e = NoncesOf[k]
  BY <1>1, <1>2, SealedHolds DEF CoreOf
<1> QED BY <1>1, <1>2, <1>3

\* A contribution is the holder's share of G and of every limb's ephemeral.
LEMMA Contributed ==
  ASSUME DealingAssumption, NEW c \in Contributions
  PROVE  LET p == PartialOf(c)
         IN  /\ p.gate = c.gate /\ p.w_g = ShareOf[c.holder]
             /\ Len(p.masks) = LimbCount
             /\ \A j \in Limbs : p.masks[j] = Times(ShareOf[c.holder], NoncesOf[c.capsule][j])
             /\ p.dleq.statement.images = <<p.w_g>> \o p.masks
<1>1. /\ c.holder \in Holders /\ c.capsule \in Capsules /\ ShareOf[c.holder] \in Scalars
      /\ CoreOf(c.capsule).e \in Seq(Int) /\ Len(CoreOf(c.capsule).e) = LimbCount
      /\ \A j \in Limbs : CoreOf(c.capsule).e[j] = NoncesOf[c.capsule][j]
  BY Dealt, RosterFacts, OpeningAssumption
<1>2. PICK w \in Scalars : w = ShareOf[c.holder]
  BY <1>1
<1> DEFINE core == CoreOf(c.capsule)
           gate == c.gate
           ctx == c.ctx
           entropy == c.entropy
           p == Partial(core, Binding, gate, w, ctx, entropy)
<1>5. core.e \in Seq(Int) /\ Len(core.e) = LimbCount
  BY <1>1
<1> HIDE DEF core, gate, ctx, entropy
<1>3. /\ p.gate = gate /\ p.w_g = w /\ Len(p.masks) = LimbCount
      /\ \A j \in Limbs : p.masks[j] = Times(w, core.e[j])
      /\ p.dleq.statement = [ bases |-> DleqBases(core), images |-> <<p.w_g>> \o p.masks,
                              binding |-> ContributionBinding(core, Binding, gate, ctx) ]
  BY <1>5, PartialFields
<1> HIDE DEF p
<1>4. PartialOf(c) = p
  BY <1>2 DEF PartialOf, p, core, gate, ctx, entropy
<1> QED BY <1>1, <1>2, <1>3, <1>4 DEF core, gate

\* It verifies for the opening it was made for.
LEMMA OwnVerifies ==
  ASSUME DealingAssumption, NEW c \in Contributions, ForTarget(c),
         MayContribute(CoreOf(c.capsule), Binding, c.gate)
  PROVE  PartialVerifies(PartialOf(c), CoreOf(Target), Binding, TargetCtx)
<1>1. c.capsule = Target /\ c.ctx = TargetCtx /\ Target \in Capsules /\ c.holder \in Holders
  BY OpeningAssumption DEF ForTarget
<1>2. /\ ShareOf[c.holder] \in Scalars
      /\ CoreOf(Target).e \in Seq(Int) /\ Len(CoreOf(Target).e) = LimbCount
  BY <1>1, Dealt, RosterFacts
<1>3. MayContribute(CoreOf(Target), Binding, c.gate)
  BY <1>1
<1> QED BY <1>1, <1>2, <1>3, PartialVerifiesOwn DEF PartialOf

\* Two contributions to one opening have different partials.
LEMMA PartialsDiffer ==
  ASSUME DealingAssumption, NEW c \in Contributions, NEW d \in Contributions,
         ForTarget(c), ForTarget(d), PartialOf(c) = PartialOf(d)
  PROVE  c = d
<1>1. ASSUME NEW b \in Contributions
      PROVE  PartialOf(b).dleq.nonce = <<b.entropy, ShareOf[b.holder], PartialOf(b).dleq.statement>>
  BY DEF PartialOf, Partial, Prove, StatementBoundNonce
<1>2. c.entropy = d.entropy /\ ShareOf[c.holder] = ShareOf[d.holder]
  BY <1>1
<1>3. c.gate = d.gate
  BY Contributed
<1>4. c.holder = d.holder
  BY <1>2, OpeningAssumption DEF DealingAssumption, RosterDealt
<1> QED BY <1>2, <1>3, <1>4 DEF ForTarget, DealingAssumption

\* The list serves the contributions to the target that arrived.
LEMMA TargetServed ==
  ASSUME DealingAssumption, IInv
  PROVE  Served(CoreOf(Target), TargetCtx, Arrived, [c \in Arrived |-> PartialOf(c)], NoncesOf[Target])
<1> DEFINE P == [c \in Arrived |-> PartialOf(c)]
<1>1. /\ DOMAIN inbox = 1 .. Len(inbox) /\ Len(inbox) \in 0 .. MaxInbox /\ MaxInbox \in Nat
      /\ NoncesOf[Target] \in [Limbs -> Scalars]
      /\ \A i \in DOMAIN inbox : inbox[i] \in Wire
  BY OpeningAssumption, Dealt DEF IInv
<1>2. ASSUME NEW i \in DOMAIN inbox, PartialVerifies(inbox[i], CoreOf(Target), Binding, TargetCtx)
      PROVE  \E c \in Arrived : inbox[i] = P[c]
  <2>1. PICK c \in made : inbox[i] \in {PartialOf(c)} \cup Altered(PartialOf(c))
    BY <1>1 DEF Wire
  <2>2. c \in Contributions
    BY <2>1 DEF IInv
  <2>3. ForTarget(c) /\ inbox[i] = PartialOf(c)
    BY <1>2, <2>1, <2>2, VerifiedIsAuthentic
  <2>4. c \in Arrived
    BY <2>1, <2>3 DEF Arrived
  <2> QED BY <2>3, <2>4
<1>3. ASSUME NEW c \in Arrived
      PROVE  /\ c.holder \in Holders /\ c.gate \in Gates
             /\ PartialVerifies(P[c], CoreOf(Target), Binding, TargetCtx)
             /\ \E i \in DOMAIN inbox : inbox[i] = P[c]
             /\ P[c].gate = c.gate /\ P[c].w_g = ShareOf[c.holder]
             /\ \A j \in Limbs : P[c].masks[j] = Times(ShareOf[c.holder], NoncesOf[Target][j])
  <2>1. /\ c \in Contributions /\ ForTarget(c) /\ MayContribute(CoreOf(c.capsule), Binding, c.gate)
        /\ \E i \in DOMAIN inbox : inbox[i] = PartialOf(c)
    BY DEF Arrived, IInv
  <2>2. c.holder \in Holders /\ c.gate \in Gates
    BY <2>1, OpeningAssumption DEF MayContribute, Binding, OpeningBinding
  <2>3. PartialVerifies(PartialOf(c), CoreOf(Target), Binding, TargetCtx)
    BY <2>1, OwnVerifies
  <2>4. /\ PartialOf(c).gate = c.gate /\ PartialOf(c).w_g = ShareOf[c.holder]
        /\ \A j \in Limbs : PartialOf(c).masks[j] = Times(ShareOf[c.holder], NoncesOf[Target][j])
    BY <2>1, Contributed DEF ForTarget
  <2> QED BY <2>1, <2>2, <2>3, <2>4
<1>4. ASSUME NEW c \in Arrived, NEW d \in Arrived, P[c] = P[d] PROVE c = d
  <2>1. /\ c \in Contributions /\ ForTarget(c) /\ d \in Contributions /\ ForTarget(d)
        /\ PartialOf(c) = PartialOf(d)
    BY <1>4 DEF Arrived, IInv
  <2> QED BY <2>1, PartialsDiffer
<1> HIDE DEF P
<1>5. Served(CoreOf(Target), TargetCtx, Arrived, P, NoncesOf[Target])
  BY <1>1, <1>2, <1>3, <1>4 DEF Served
<1> QED BY <1>5 DEF P

\* What a list makes of the target.
LEMMA TargetOpens ==
  ASSUME DealingAssumption, IInv
  PROVE  LET listed == Accepted(inbox, CoreOf(Target), Binding, TargetCtx)
         IN  /\ GatesQualify(inbox, listed, Binding.gates) <=> EveryHolderOnce(Arrived)
             /\ EveryHolderOnce(Arrived) =>
                  /\ Masked(AccessMasks(inbox, listed, Binding), NoncesOf[Target], AccessTotal)
                  /\ Unsealed(Recipient, inbox) = SecretOf[Target]
<1>1. PICK P : Served(CoreOf(Target), TargetCtx, Arrived, P, NoncesOf[Target])
  BY TargetServed
<1>2. RosterDealt /\ SecretOf[Target] \in Scalars
  BY Dealt
<1>3. CoreOf(Target) = SealCore(SecretOf[Target], NoncesOf[Target], Binding)
  BY DEF CoreOf
<1> DEFINE listed == Accepted(inbox, SealCore(SecretOf[Target], NoncesOf[Target], Binding), Binding, TargetCtx)
<1>4. /\ GatesQualify(inbox, listed, Binding.gates) <=> EveryHolderOnce(Arrived)
      /\ EveryHolderOnce(Arrived) =>
           /\ Masked(AccessMasks(inbox, listed, Binding), NoncesOf[Target], AccessTotal)
           /\ OpenCore(SealCore(SecretOf[Target], NoncesOf[Target], Binding), Binding, Recipient,
                       inbox, TargetCtx, LimbModulus) = SecretOf[Target]
  <2>1. Served(SealCore(SecretOf[Target], NoncesOf[Target], Binding), TargetCtx, Arrived, P, NoncesOf[Target])
    BY <1>1, <1>3
  <2> QED BY <1>2, <2>1, ListOpens
<1> QED BY <1>3, <1>4 DEF Unsealed

\* A list whose buckets are not full opens nothing.
LEMMA OpensOnlyOnce ==
  ASSUME DealingAssumption, IInv, NEW x, Unsealed(x, inbox) # Failed
  PROVE  EveryHolderOnce(Arrived)
<1>1. GatesQualify(inbox, Accepted(inbox, CoreOf(Target), Binding, TargetCtx), Binding.gates)
  BY DEF Unsealed, OpenCore
<1> QED BY <1>1, TargetOpens

\* Any other key that is tried leaves a limb that the search does not find.
LEMMA OthersFail ==
  ASSUME DealingAssumption, OtherKeysMiss, IInv, NEW x \in TriedSecrets, x # Recipient
  PROVE  Unsealed(x, inbox) = Failed
<1> DEFINE core == CoreOf(Target)
           masks == AccessMasks(inbox, Accepted(inbox, core, Binding, TargetCtx), Binding)
           digits == Decompose(SecretOf[Target])
           nonces == NoncesOf[Target]
           w == RecipientWeight(Recipient, Gates)
<1> SUFFICES ASSUME Unsealed(x, inbox) # Failed PROVE FALSE
  OBVIOUS
<1>1. EveryHolderOnce(Arrived)
  BY OpensOnlyOnce
<1>2. Masked(masks, nonces, AccessTotal)
  BY <1>1, TargetOpens
<1>3. RosterDealt /\ SecretOf[Target] \in Scalars /\ nonces \in [Limbs -> Scalars]
  BY Dealt
<1>4. /\ Holds(core, digits, nonces, w, Recipient, AccessTotal)
      /\ digits \in [Limbs -> Int] /\ nonces \in [Limbs -> Int]
  BY <1>3, SealedHolds DEF CoreOf
<1>5. PICK j \in Limbs : /\ x \in Scalars
                         /\ Plus(digits[j], Times(nonces[j], Times(w, Minus(Recipient, x)))) >= LimbModulus
  BY DEF OtherKeysMiss
<1>6. /\ w \in Int /\ Recipient \in Int /\ AccessTotal \in Int /\ x \in Int
      /\ Binding.recipientWeight = w /\ LimbModulus \in Nat
  BY <1>3, <1>5, RosterFacts, StakesAreTheRoster, AlgebraAssumption
     DEF RosterDealt, Binding, OpeningBinding
<1>7. Unsealed(x, inbox) = OpenWithAccessMasks(core, Binding, x, masks, LimbModulus)
  BY DEF Unsealed, OpenCore
<1> HIDE DEF core, masks, digits, nonces, w
<1>8. OpenWithAccessMasks(core, Binding, x, masks, LimbModulus) = Failed
  BY <1>2, <1>4, <1>5, <1>6, MissedFails
<1> QED BY <1>7, <1>8

\* A list opens exactly when every holder's contribution to its own gate is in
\* it, and no second one (open_core): every order, roster and number of
\* holders, and whatever else the wire delivers.
THEOREM OpeningIsExact ==
  ASSUME DealingAssumption PROVE Spec => []OpensIffEveryHolderOnce
<1>1. ASSUME IInv PROVE OpensIffEveryHolderOnce
  <2>1. Unsealed(Recipient, inbox) # Failed => EveryHolderOnce(Arrived)
    BY <1>1, OpensOnlyOnce
  <2>2. EveryHolderOnce(Arrived) => Unsealed(Recipient, inbox) # Failed
    <3>1. SecretOf[Target] # Failed
      BY OpeningAssumption, AlgebraAssumption DEF Scalars, Failed
    <3> QED BY <1>1, <3>1, TargetOpens
  <2> QED BY <2>1, <2>2 DEF OpensIffEveryHolderOnce
<1> QED BY <1>1, Invariance, PTL

\* Opening implements the escrow: a contribution gives at most its holder's
\* consent, what the wire does is a step the promise does not see, and a
\* scalar comes out only under the recipient's key, after every consent, and
\* is the sealed one.
THEOREM OpeningKeepsPromise ==
  ASSUME DealingAssumption, OtherKeysMiss PROVE Spec => ImplementsEscrow
<1>1. Init => Promise!Init
  BY DEF Init, Promise!Init, Consenting
<1>2. IInv /\ [Next]_vars => [Promise!Next]_(Promise!vars)
  <2> SUFFICES ASSUME IInv, [Next]_vars PROVE Promise!Next \/ UNCHANGED Promise!vars
    OBVIOUS
  <2>1. UNCHANGED <<made, released>> => UNCHANGED Promise!vars
    BY DEF Promise!vars, Consenting
  <2>2. ASSUME NEW c \in Contributions, Contribute(c)
        PROVE  Promise!Next \/ UNCHANGED Promise!vars
    <3>1. made' = made \cup {c} /\ released' = released /\ c.holder \in Holders
      BY <2>2, OpeningAssumption DEF Contribute, Make
    <3>2. Consenting' = Consenting \/ Consenting' = Consenting \cup {c.holder}
      <4>1. Consenting \subseteq Consenting' /\ Consenting' \subseteq Consenting \cup {c.holder}
        BY <3>1 DEF Consenting, ForTarget
      <4> QED BY <4>1
    <3> QED BY <3>1, <3>2 DEF Promise!Next, Promise!Consent, Promise!vars
  <2>3. ASSUME NEW c \in made, Deliver(c) \/ DeliverAltered(c) PROVE UNCHANGED Promise!vars
    BY <2>1, <2>3 DEF Deliver, DeliverAltered, Arrive
  <2>4. ASSUME NEW secret \in TriedSecrets, Unseal(secret) PROVE Promise!Next
    <3>1. /\ Unsealed(secret, inbox) # Failed /\ made' = made
          /\ released' = released \cup {<<secret, Unsealed(secret, inbox)>>}
      BY <2>4 DEF Unseal, Return
    <3>2. secret = Recipient /\ Unsealed(secret, inbox) = SecretOf[Target]
      BY <3>1, OthersFail, OpensToCommitted
    <3>3. EveryHolderOnce(Arrived)
      BY <3>1, OpensOnlyOnce
    <3>4. Consenting = Holders
      <4>1. \A h \in Holders : \E c \in made : c.holder = h /\ ForTarget(c) /\ c.gate = GateOf[h]
        BY <3>3 DEF EveryHolderOnce, Arrived
      <4>2. Consenting \subseteq Holders
        BY OpeningAssumption DEF IInv, Consenting
      <4>3. Holders \subseteq Consenting
        BY <4>1 DEF Consenting
      <4> QED BY <4>2, <4>3
    <3>5. Consenting' = Consenting
      BY <3>1 DEF Consenting, ForTarget
    <3> QED BY <3>1, <3>2, <3>4, <3>5 DEF Promise!Next, Promise!Release
  <2>5. CASE UNCHANGED vars
    BY <2>1, <2>5 DEF vars
  <2> QED BY <2>2, <2>3, <2>4, <2>5 DEF Next
<1> QED BY <1>1, <1>2, InitIInv, NextIInv, PTL DEF Spec, ImplementsEscrow, Promise!Spec

----------------------------------------------------------------------------
(* Opening a case: the inductive invariant.                                *)

\* What can be on the wire: a partial per contribution and piece.
CaseWire == {PiecePartial(c, h) : c \in made, h \in Pieces}

CaseInv ==
  /\ made \subseteq {c \in CaseCalls : \A h \in Pieces : MayContribute(PieceCore(h), Binding, c.gate)}
  /\ inbox \in Seq(CaseWire)
  /\ Len(inbox) <= MaxInbox
  /\ released \subseteq TriedSecrets \X {CaseSecret}

\* Both paths recheck the commitment: what they return is what it commits to.
LEMMA CaseOpensToCommitted ==
  ASSUME NEW x
  PROVE  CaseOpened(x) \in {Failed, CaseSecret} /\ BoundOpened(x) \in {Failed, CaseSecret}
<1>1. CaseOpened(x) \in {Failed, CaseSecret}
  BY DEF CaseOpened, CaseUnsealed
<1>2. BoundOpened(x) \in {Failed, CaseSecret}
  <2> DEFINE core == AggregateCore(PieceCores, CaseSecret)
             masks == [j \in Limbs |->
                         SumOver(LAMBDA h : AccessMasks(inbox, [g \in DOMAIN PieceCores |->
                                              Accepted(inbox, PieceCores[g], Binding, TokenCtx)][h], Binding)[j],
                                 DOMAIN PieceCores)]
  <2>1. BoundOpened(x) \in {Failed, OpenWithAccessMasks(core, Binding, x, masks, SummedLimbBound(PieceCores))}
    BY DEF BoundOpened, BoundUnsealed
  <2>2. OpenWithAccessMasks(core, Binding, x, masks, SummedLimbBound(PieceCores)) \in {Failed, core.c}
    BY DEF OpenWithAccessMasks
  <2>3. core.c = CaseSecret
    BY DEF AggregateCore
  <2> QED BY <2>1, <2>2, <2>3
<1> QED BY <1>1, <1>2

\* The initial states satisfy it.
LEMMA InitCaseInv == CaseAssumption /\ Init => CaseInv
BY DEF Init, CaseInv, CaseAssumption

\* Every step keeps it, action by action.
LEMMA NextCaseInv == CaseAssumption /\ CaseInv /\ [CaseNext]_vars => CaseInv'
<1> SUFFICES ASSUME CaseAssumption, CaseInv, [CaseNext]_vars PROVE CaseInv'
  OBVIOUS
<1> USE DEF CaseInv
<1>1. ASSUME NEW c \in CaseCalls, ContributeToCase(c) PROVE CaseInv'
  <2>1. /\ made' = made \cup {c} /\ inbox' = inbox /\ released' = released
        /\ c \in {d \in CaseCalls : \A h \in Pieces : MayContribute(PieceCore(h), Binding, d.gate)}
    BY <1>1 DEF ContributeToCase, Make
  <2>2. CaseWire \subseteq CaseWire'
    BY <2>1 DEF CaseWire
  <2>3. inbox \in Seq(CaseWire')
    BY <2>2
  <2> QED BY <2>1, <2>3
<1>2. ASSUME NEW c \in made, NEW h \in Pieces, DeliverPiece(c, h) PROVE CaseInv'
  <2>1. CaseWire' = CaseWire /\ PiecePartial(c, h) \in CaseWire
    BY <1>2 DEF DeliverPiece, Arrive, CaseWire
  <2>2. PICK p \in CaseWire : Arrive(p)
    BY <1>2, <2>1 DEF DeliverPiece
  <2>3. inbox' \in Seq(CaseWire) /\ Len(inbox') = Len(inbox) + 1
    BY <2>2 DEF Arrive
  <2>4. Len(inbox') <= MaxInbox
    BY <2>2, <2>3 DEF Arrive, CaseAssumption
  <2> QED BY <2>1, <2>2, <2>3, <2>4 DEF Arrive
<1>3. ASSUME NEW x \in TriedSecrets, UnsealCase(x) \/ UnsealBound(x) PROVE CaseInv'
  <2>1. CaseWire' = CaseWire
    BY <1>3 DEF UnsealCase, UnsealBound, Return, CaseWire
  <2> QED BY <1>3, <2>1, CaseOpensToCommitted DEF UnsealCase, UnsealBound, Return
<1>4. CASE UNCHANGED vars
  <2>1. CaseWire' = CaseWire
    BY <1>4 DEF vars, CaseWire
  <2> QED BY <1>4, <2>1 DEF vars
<1> QED BY <1>1, <1>2, <1>3, <1>4 DEF CaseNext

----------------------------------------------------------------------------
(* The pieces of a case, one by one.                                       *)

\* The pieces as they were sealed and screened.
LEMMA CaseDealt ==
  ASSUME CaseAssumption
  PROVE  /\ RosterDealt /\ {MaxInbox, MaxCalls} \subseteq Nat
         /\ Pieces = 1 .. Len(PieceOf) /\ Len(PieceOf) \in Nat \ {0} /\ IsFiniteSet(Pieces)
         /\ \A h \in Pieces : /\ PieceOf[h] \in Scalars /\ PieceNonces[h] \in [Limbs -> Scalars]
                              /\ PieceCore(h).e \in Seq(Int) /\ Len(PieceCore(h).e) = LimbCount
                              /\ PieceCore(h).e = PieceNonces[h]
         /\ \A g, h \in Pieces : PieceCore(g) = PieceCore(h) => g = h
         /\ CaseSecret \in Scalars /\ CaseSecret # Failed
<1>1. RosterDealt /\ {MaxInbox, MaxCalls} \subseteq Nat
  BY DEF CaseAssumption
<1>2. Pieces = 1 .. Len(PieceOf) /\ Len(PieceOf) \in Nat
  BY DEF CaseAssumption, Pieces
<1>3. Len(PieceOf) # 0
  <2> SUFFICES ASSUME Len(PieceOf) = 0 PROVE FALSE
    OBVIOUS
  <2>1. Pieces = {}
    BY <1>2
  <2>2. PieceCores = <<>>
    BY <2>1 DEF PieceCores
  <2> QED BY <2>2 DEF CaseAssumption, CaseScreened, CaseVerifies
<1>4. IsFiniteSet(Pieces)
  <2>1. 1 \in Int /\ Len(PieceOf) \in Int
    BY <1>2
  <2> QED BY <1>2, <2>1, FS_Interval
<1>5. ASSUME NEW h \in Pieces
      PROVE  /\ PieceOf[h] \in Scalars /\ PieceNonces[h] \in [Limbs -> Scalars]
             /\ PieceCore(h).e \in Seq(Int) /\ Len(PieceCore(h).e) = LimbCount
             /\ PieceCore(h).e = PieceNonces[h]
  <2>1. PieceOf[h] \in Scalars /\ PieceNonces[h] \in [Limbs -> Scalars]
    BY <1>2 DEF CaseAssumption
  <2> QED BY <1>1, <2>1, SealedHolds DEF PieceCore
<1>6. ASSUME NEW g \in Pieces, NEW h \in Pieces, PieceCore(g) = PieceCore(h) PROVE g = h
  <2>1. ~DuplicateCores(PieceCores)
    BY DEF CaseAssumption, CaseScreened, CaseVerifies
  <2>2. g \in DOMAIN PieceCores /\ h \in DOMAIN PieceCores /\ PieceCores[g] = PieceCores[h]
    BY <1>6 DEF PieceCores
  <2> QED BY <2>1, <2>2 DEF DuplicateCores
<1>7. CaseSecret \in Scalars /\ CaseSecret # Failed
  <2> DEFINE f == [h \in Pieces |-> PieceOf[h]]
  <2>1. Scalars \subseteq Int /\ \A a \in Scalars : a # Failed
    BY AlgebraAssumption DEF Scalars, Failed
  <2>2. f \in [Pieces -> Int]
    BY <1>5, <2>1
  <2>3. CaseSecret = SumFunction(f) % Order
    BY DEF CaseSecret, SumOver
  <2> HIDE DEF f
  <2>4. PICK y \in Int : y = SumFunction(f)
    BY <1>4, <2>2, SumReduces
  <2>5. y % Order \in Scalars
    BY SameReduces
  <2> QED BY <2>1, <2>3, <2>4, <2>5
<1> QED BY <1>1, <1>2, <1>3, <1>4, <1>5, <1>6, <1>7

\* A partial of a contribution to the case, for a piece.
LEMMA PieceContributed ==
  ASSUME CaseAssumption, NEW c \in CaseCalls, NEW h \in Pieces
  PROVE  LET p == PiecePartial(c, h)
         IN  /\ p.gate = c.gate /\ p.w_g = ShareOf[c.holder]
             /\ \A j \in Limbs : p.masks[j] = Times(ShareOf[c.holder], PieceNonces[h][j])
             /\ p.dleq.statement.binding = ContributionBinding(PieceCore(h), Binding, c.gate, c.ctx)
             /\ p.dleq.nonce = <<c.entropy, ShareOf[c.holder], p.dleq.statement>>
<1>1. c.holder \in Holders /\ RosterDealt
  BY CaseDealt DEF CaseAssumption
<1>2. PICK w \in Scalars : w = ShareOf[c.holder]
  BY <1>1, RosterFacts
<1> DEFINE core == PieceCore(h)
           gate == c.gate
           ctx == c.ctx
           entropy == c.entropy
           p == Partial(core, Binding, gate, w, ctx, entropy)
<1>3. core.e \in Seq(Int) /\ Len(core.e) = LimbCount
  BY CaseDealt
<1>7. core.e = PieceNonces[h]
  BY CaseDealt
<1>4. p.dleq.nonce = <<entropy, w, p.dleq.statement>>
  BY DEF Partial, Prove, StatementBoundNonce
<1> HIDE DEF core, gate, ctx, entropy
<1>5. /\ p.gate = gate /\ p.w_g = w /\ Len(p.masks) = LimbCount
      /\ \A j \in Limbs : p.masks[j] = Times(w, core.e[j])
      /\ p.dleq.statement = [ bases |-> DleqBases(core), images |-> <<p.w_g>> \o p.masks,
                              binding |-> ContributionBinding(core, Binding, gate, ctx) ]
  BY <1>3, PartialFields
<1> HIDE DEF p
<1>6. PiecePartial(c, h) = p
  BY <1>2 DEF PiecePartial, p, core, gate, ctx, entropy
<1> QED BY <1>2, <1>4, <1>5, <1>6, <1>7 DEF core, gate, ctx, entropy

\* A partial verifies for a piece exactly when it was made for that piece and
\* the token's context: the cores of a case differ.
LEMMA PieceVerifies ==
  ASSUME CaseAssumption, NEW c \in CaseCalls, NEW g \in Pieces, NEW h \in Pieces,
         MayContribute(PieceCore(g), Binding, c.gate)
  PROVE  PartialVerifies(PiecePartial(c, g), PieceCore(h), Binding, TokenCtx)
           <=> g = h /\ c.ctx = TokenCtx
<1>1. c.holder \in Holders /\ RosterDealt
  BY CaseDealt DEF CaseAssumption
<1>2. ASSUME PartialVerifies(PiecePartial(c, g), PieceCore(h), Binding, TokenCtx)
      PROVE  g = h /\ c.ctx = TokenCtx
  <2>1. PiecePartial(c, g).dleq.statement.binding
          = ContributionBinding(PieceCore(h), Binding, PiecePartial(c, g).gate, TokenCtx)
    BY <1>2 DEF PartialVerifies, ProofVerifies
  <2>2. PiecePartial(c, g).dleq.statement.binding
          = ContributionBinding(PieceCore(g), Binding, c.gate, c.ctx)
    BY PieceContributed
  <2>3. PieceCore(g) = PieceCore(h) /\ c.ctx = TokenCtx
    BY <2>1, <2>2 DEF ContributionBinding
  <2> QED BY <2>3, CaseDealt
<1>3. ASSUME g = h, c.ctx = TokenCtx
      PROVE  PartialVerifies(PiecePartial(c, g), PieceCore(h), Binding, TokenCtx)
  <2>1. ShareOf[c.holder] \in Scalars /\ PieceCore(h).e \in Seq(Int) /\ Len(PieceCore(h).e) = LimbCount
    BY <1>1, RosterFacts, CaseDealt
  <2> QED BY <1>3, <2>1, PartialVerifiesOwn DEF PiecePartial
<1> QED BY <1>2, <1>3

\* The list serves every piece with the contributions that arrived for it.
LEMMA PieceServed ==
  ASSUME CaseAssumption, CaseInv, NEW h \in Pieces
  PROVE  Served(PieceCore(h), TokenCtx, ArrivedFor(h), [c \in ArrivedFor(h) |-> PiecePartial(c, h)],
                PieceNonces[h])
<1> DEFINE P == [c \in ArrivedFor(h) |-> PiecePartial(c, h)]
<1>1. /\ DOMAIN inbox = 1 .. Len(inbox) /\ Len(inbox) \in 0 .. MaxInbox /\ MaxInbox \in Nat
      /\ PieceNonces[h] \in [Limbs -> Scalars]
      /\ \A i \in DOMAIN inbox : inbox[i] \in CaseWire
  BY CaseDealt DEF CaseInv
<1>2. ASSUME NEW i \in DOMAIN inbox, PartialVerifies(inbox[i], PieceCore(h), Binding, TokenCtx)
      PROVE  \E c \in ArrivedFor(h) : inbox[i] = P[c]
  <2>1. PICK c \in made, g \in Pieces : inbox[i] = PiecePartial(c, g)
    BY <1>1 DEF CaseWire
  <2>2. c \in CaseCalls /\ MayContribute(PieceCore(g), Binding, c.gate)
    BY <2>1 DEF CaseInv
  <2>3. g = h /\ c.ctx = TokenCtx
    BY <1>2, <2>1, <2>2, PieceVerifies
  <2>4. c \in ArrivedFor(h)
    BY <2>1, <2>3 DEF ArrivedFor
  <2> QED BY <2>1, <2>3, <2>4
<1>3. ASSUME NEW c \in ArrivedFor(h)
      PROVE  /\ c.holder \in Holders /\ c.gate \in Gates
             /\ PartialVerifies(P[c], PieceCore(h), Binding, TokenCtx)
             /\ \E i \in DOMAIN inbox : inbox[i] = P[c]
             /\ P[c].gate = c.gate /\ P[c].w_g = ShareOf[c.holder]
             /\ \A j \in Limbs : P[c].masks[j] = Times(ShareOf[c.holder], PieceNonces[h][j])
  <2>1. /\ c \in CaseCalls /\ c.ctx = TokenCtx /\ MayContribute(PieceCore(h), Binding, c.gate)
        /\ \E i \in DOMAIN inbox : inbox[i] = PiecePartial(c, h)
    BY DEF ArrivedFor, CaseInv
  <2>2. c.holder \in Holders /\ c.gate \in Gates
    BY <2>1 DEF CaseAssumption, MayContribute, Binding, OpeningBinding
  <2>3. PartialVerifies(PiecePartial(c, h), PieceCore(h), Binding, TokenCtx)
    BY <2>1, PieceVerifies
  <2>4. /\ PiecePartial(c, h).gate = c.gate /\ PiecePartial(c, h).w_g = ShareOf[c.holder]
        /\ \A j \in Limbs : PiecePartial(c, h).masks[j] = Times(ShareOf[c.holder], PieceNonces[h][j])
    BY <2>1, PieceContributed
  <2> QED BY <2>1, <2>2, <2>3, <2>4
<1>4. ASSUME NEW c \in ArrivedFor(h), NEW d \in ArrivedFor(h), P[c] = P[d] PROVE c = d
  <2>1. /\ c \in CaseCalls /\ c.ctx = TokenCtx /\ d \in CaseCalls /\ d.ctx = TokenCtx
        /\ PiecePartial(c, h) = PiecePartial(d, h) /\ c.holder \in Holders /\ d.holder \in Holders
    BY <1>3, <1>4 DEF ArrivedFor, CaseInv
  <2>2. c.gate = d.gate /\ c.entropy = d.entropy /\ ShareOf[c.holder] = ShareOf[d.holder]
    BY <2>1, PieceContributed
  <2>3. c.holder = d.holder
    BY <2>1, <2>2, CaseDealt DEF RosterDealt
  <2> QED BY <2>1, <2>2, <2>3 DEF CaseAssumption
<1> HIDE DEF P
<1>5. Served(PieceCore(h), TokenCtx, ArrivedFor(h), P, PieceNonces[h])
  BY <1>1, <1>2, <1>3, <1>4 DEF Served
<1> QED BY <1>5 DEF P

\* What a list makes of a piece.
ListedFor(h) == Accepted(inbox, PieceCore(h), Binding, TokenCtx)

LEMMA PieceOpens ==
  ASSUME CaseAssumption, CaseInv, NEW h \in Pieces
  PROVE  /\ GatesQualify(inbox, ListedFor(h), Binding.gates) <=> EveryHolderOnce(ArrivedFor(h))
         /\ EveryHolderOnce(ArrivedFor(h)) =>
              /\ Masked(AccessMasks(inbox, ListedFor(h), Binding), PieceNonces[h], AccessTotal)
              /\ OpenCore(PieceCore(h), Binding, Recipient, inbox, TokenCtx, LimbModulus) = PieceOf[h]
<1>1. PICK P : Served(PieceCore(h), TokenCtx, ArrivedFor(h), P, PieceNonces[h])
  BY PieceServed
<1>2. RosterDealt /\ PieceOf[h] \in Scalars
  BY CaseDealt
<1>3. PieceCore(h) = SealCore(PieceOf[h], PieceNonces[h], Binding)
  BY DEF PieceCore
<1> DEFINE listed == Accepted(inbox, SealCore(PieceOf[h], PieceNonces[h], Binding), Binding, TokenCtx)
<1>4. /\ GatesQualify(inbox, listed, Binding.gates) <=> EveryHolderOnce(ArrivedFor(h))
      /\ EveryHolderOnce(ArrivedFor(h)) =>
           /\ Masked(AccessMasks(inbox, listed, Binding), PieceNonces[h], AccessTotal)
           /\ OpenCore(SealCore(PieceOf[h], PieceNonces[h], Binding), Binding, Recipient,
                       inbox, TokenCtx, LimbModulus) = PieceOf[h]
  <2>1. Served(SealCore(PieceOf[h], PieceNonces[h], Binding), TokenCtx, ArrivedFor(h), P, PieceNonces[h])
    BY <1>1, <1>3
  <2> QED BY <1>2, <2>1, ListOpens
<1> QED BY <1>3, <1>4 DEF ListedFor

\* The roster's numbers.
LEMMA KeyFacts ==
  ASSUME RosterDealt
  PROVE  /\ RecipientWeight(Recipient, Gates) \in Int /\ Recipient \in Int /\ AccessTotal \in Int
         /\ Binding.recipientWeight = RecipientWeight(Recipient, Gates) /\ LimbModulus \in Nat \ {0}
         /\ Order \in Nat \ {0} /\ LimbModulus <= Order
BY RosterFacts, StakesAreTheRoster, AlgebraAssumption DEF RosterDealt, Binding, OpeningBinding

----------------------------------------------------------------------------
(* Opening the case, piece by piece and as a sum.                          *)

\* A piece that does not have every holder's contribution once closes both
\* paths, whoever calls.
LEMMA PieceCloses ==
  ASSUME CaseAssumption, CaseInv, NEW x, NEW h \in Pieces, ~EveryHolderOnce(ArrivedFor(h))
  PROVE  CaseOpened(x) = Failed /\ BoundOpened(x) = Failed
<1>1. ~GatesQualify(inbox, Accepted(inbox, PieceCore(h), Binding, TokenCtx), Binding.gates)
  BY PieceOpens DEF ListedFor
<1>2. h \in DOMAIN PieceCores /\ PieceCores[h] = PieceCore(h)
  BY DEF PieceCores
<1>3. OpenCore(PieceCores[h], Binding, x, inbox, TokenCtx, LimbModulus) = Failed
  BY <1>1, <1>2 DEF OpenCore
<1>4. CaseOpened(x) = Failed
  BY <1>2, <1>3 DEF CaseOpened, CaseUnsealed
<1>5. BoundOpened(x) = Failed
  BY <1>1, <1>2 DEF BoundOpened, BoundUnsealed
<1> QED BY <1>4, <1>5

\* With every piece served, the recipient opens each of them, and their sum
\* is the secret.
LEMMA PiecewiseOpens ==
  ASSUME CaseAssumption, CaseInv, \A h \in Pieces : EveryHolderOnce(ArrivedFor(h))
  PROVE  CaseOpened(Recipient) = CaseSecret
<1> DEFINE opened == [h \in DOMAIN PieceCores |->
                        OpenCore(PieceCores[h], Binding, Recipient, inbox, TokenCtx, LimbModulus)]
           whole == [h \in Pieces |-> PieceOf[h]]
<1>1. DOMAIN PieceCores = Pieces /\ \A h \in Pieces : PieceCores[h] = PieceCore(h)
  BY DEF PieceCores
<1>2. \A h \in Pieces : opened[h] = PieceOf[h] /\ PieceOf[h] # Failed
  <2>1. \A a \in Scalars : a # Failed
    BY AlgebraAssumption DEF Scalars, Failed
  <2> QED BY <1>1, <2>1, PieceOpens, CaseDealt
<1>3. opened = whole
  BY <1>1, <1>2
<1>4. CaseSecret = SumFunction(whole) % Order
  BY DEF CaseSecret, SumOver
<1>5. CaseOpened(Recipient)
        = IF (\E h \in DOMAIN PieceCores : opened[h] = Failed)
             \/ SumFunction([h \in DOMAIN PieceCores |-> opened[h]]) % Order # CaseSecret
            THEN Failed ELSE SumFunction([h \in DOMAIN PieceCores |-> opened[h]]) % Order
  BY DEF CaseOpened, CaseUnsealed, SumOver
<1>6. [h \in DOMAIN PieceCores |-> opened[h]] = opened
  OBVIOUS
<1> HIDE DEF opened, whole
<1> QED BY <1>1, <1>2, <1>3, <1>4, <1>5, <1>6

\* Another key misses a limb of one of the pieces.
LEMMA PiecewiseMissed ==
  ASSUME CaseAssumption, OtherKeysMissCase, CaseInv,
         \A h \in Pieces : EveryHolderOnce(ArrivedFor(h)), NEW x \in TriedSecrets \ {Recipient}
  PROVE  CaseOpened(x) = Failed
<1>1. PICK h \in Pieces, j \in Limbs : x \in Scalars /\ PieceMiss(x, h, j) >= LimbModulus
  BY DEF OtherKeysMissCase
<1> DEFINE core == PieceCore(h)
           masks == AccessMasks(inbox, ListedFor(h), Binding)
           digits == Decompose(PieceOf[h])
           nonces == PieceNonces[h]
           w == RecipientWeight(Recipient, Gates)
<1>2. RosterDealt /\ PieceOf[h] \in Scalars /\ nonces \in [Limbs -> Scalars]
  BY CaseDealt
<1>3. /\ Holds(core, digits, nonces, w, Recipient, AccessTotal)
      /\ digits \in [Limbs -> Int] /\ nonces \in [Limbs -> Int]
  BY <1>2, SealedHolds DEF PieceCore
<1>4. Masked(masks, nonces, AccessTotal)
  BY PieceOpens
<1>5. Plus(digits[j], Times(nonces[j], Times(w, Minus(Recipient, x)))) >= LimbModulus
  BY <1>1 DEF PieceMiss, MissOf
<1>6. /\ w \in Int /\ Recipient \in Int /\ AccessTotal \in Int /\ x \in Int
      /\ Binding.recipientWeight = w /\ LimbModulus \in Nat
  BY <1>1, <1>2, KeyFacts, RosterFacts
<1>7. OpenCore(core, Binding, x, inbox, TokenCtx, LimbModulus)
        \in {Failed, OpenWithAccessMasks(core, Binding, x, masks, LimbModulus)}
  BY DEF OpenCore, ListedFor
<1>8. h \in DOMAIN PieceCores /\ PieceCores[h] = core
  BY DEF PieceCores
<1> HIDE DEF core, masks, digits, nonces, w
<1>9. OpenWithAccessMasks(core, Binding, x, masks, LimbModulus) = Failed
  BY <1>1, <1>3, <1>4, <1>5, <1>6, MissedFails
<1> QED BY <1>7, <1>8, <1>9 DEF CaseOpened, CaseUnsealed

----------------------------------------------------------------------------
(* The sum.                                                                *)

Digits == [h \in Pieces |-> Decompose(PieceOf[h])]
Aggregate == AggregateCore(PieceCores, CaseSecret)
SumOfMasks ==
  [j \in Limbs |-> SumOver(LAMBDA h : AccessMasks(inbox, ListedFor(h), Binding)[j], Pieces)]

\* With every piece served, the sum's ciphertext is opened with the sum of
\* the pieces' masks.
LEMMA BoundCall ==
  ASSUME CaseAssumption, CaseInv, \A h \in Pieces : EveryHolderOnce(ArrivedFor(h)), NEW x
  PROVE  BoundOpened(x) = OpenWithAccessMasks(Aggregate, Binding, x, SumOfMasks,
                                              Len(PieceOf) * LimbModulus)
<1> DEFINE accepted == [h \in DOMAIN PieceCores |-> Accepted(inbox, PieceCores[h], Binding, TokenCtx)]
           masks == [j \in Limbs |->
                       SumOver(LAMBDA h : AccessMasks(inbox, accepted[h], Binding)[j], DOMAIN PieceCores)]
<1>1. /\ DOMAIN PieceCores = Pieces
      /\ \A h \in Pieces : accepted[h] = ListedFor(h)
  BY DEF PieceCores, ListedFor
<1>2. \A h \in DOMAIN PieceCores : GatesQualify(inbox, accepted[h], Binding.gates)
  BY <1>1, PieceOpens
<1>3. ~DegenerateMask(Aggregate.e)
  BY DEF CaseAssumption, CaseScreened, Aggregate
<1>4. masks = SumOfMasks
  BY <1>1 DEF SumOfMasks, SumOver
<1>5. SummedLimbBound(PieceCores) = Len(PieceOf) * LimbModulus
  <2>1. PieceCores = [h \in 1 .. Len(PieceOf) |-> PieceCore(h)] /\ Len(PieceOf) \in Nat
    BY CaseDealt DEF PieceCores
  <2>2. Len(PieceCores) = Len(PieceOf)
    BY <2>1
  <2> QED BY <2>2 DEF SummedLimbBound
<1>6. BoundOpened(x) = IF (\A h \in DOMAIN PieceCores : GatesQualify(inbox, accepted[h], Binding.gates))
                          /\ ~DegenerateMask(Aggregate.e)
                         THEN OpenWithAccessMasks(Aggregate, Binding, x, masks, SummedLimbBound(PieceCores))
                         ELSE Failed
  BY DEF BoundOpened, BoundUnsealed, Aggregate
<1> HIDE DEF accepted, masks
<1> QED BY <1>2, <1>3, <1>4, <1>5, <1>6

\* The pieces hold their digits under their nonces, and the sum what they
\* come to.
LEMMA SumServed ==
  ASSUME CaseAssumption, CaseInv, \A h \in Pieces : EveryHolderOnce(ArrivedFor(h))
  PROVE  LET n == Len(PieceOf)
             w == RecipientWeight(Recipient, Gates)
         IN  /\ PiecesHold(n, PieceCores, Digits, PieceNonces, w, Recipient, AccessTotal)
             /\ Holds(Aggregate, Total(n, Digits), Total(n, PieceNonces), w, Recipient, AccessTotal)
             /\ Masked(SumOfMasks, Total(n, PieceNonces), AccessTotal)
             /\ Total(n, Digits) \in [Limbs -> 0 .. n * LimbModulus - 1]
             /\ Total(n, PieceNonces) \in [Limbs -> Int]
<1> DEFINE w == RecipientWeight(Recipient, Gates)
           M == [h \in Pieces |-> AccessMasks(inbox, ListedFor(h), Binding)]
<1>1. PICK n \in Nat : n = Len(PieceOf) /\ n # 0 /\ Pieces = 1 .. n
  BY CaseDealt
<1>2. RosterDealt /\ w \in Int /\ Recipient \in Int /\ AccessTotal \in Int
  BY CaseDealt, KeyFacts
<1>3. ASSUME NEW h \in 1 .. n
      PROVE  /\ Digits[h] \in [Limbs -> 0 .. LimbModulus - 1] /\ PieceNonces[h] \in [Limbs -> Int]
             /\ Holds(PieceCores[h], Digits[h], PieceNonces[h], w, Recipient, AccessTotal)
             /\ PieceCores[h].c = Integer(Digits[h]) /\ PieceCores[h].e = PieceNonces[h]
             /\ PieceCores[h].c = PieceOf[h]
  <2>1. h \in Pieces /\ PieceOf[h] \in Scalars /\ PieceNonces[h] \in [Limbs -> Scalars]
    BY <1>1, CaseDealt
  <2>2. PieceCores[h] = SealCore(PieceOf[h], PieceNonces[h], Binding) /\ Digits[h] = Decompose(PieceOf[h])
    BY <2>1 DEF PieceCores, PieceCore, Digits
  <2> QED BY <1>2, <2>1, <2>2, SealedHolds
<1>4. PieceNonces \in [1 .. n -> [Limbs -> Int]] /\ Digits \in [1 .. n -> [Limbs -> 0 .. LimbModulus - 1]]
  <2>1. DOMAIN PieceNonces = 1 .. n /\ PieceNonces = [h \in 1 .. n |-> PieceNonces[h]]
    BY <1>1 DEF CaseAssumption
  <2>2. Digits = [h \in 1 .. n |-> Digits[h]]
    BY <1>1 DEF Digits
  <2>3. PieceNonces \in [1 .. n -> [Limbs -> Int]]
    BY <1>3, <2>1
  <2>4. Digits \in [1 .. n -> [Limbs -> 0 .. LimbModulus - 1]]
    BY <1>3, <2>2
  <2> QED BY <2>3, <2>4
<1>5. PiecesHold(n, PieceCores, Digits, PieceNonces, w, Recipient, AccessTotal)
  BY <1>2, <1>3, <1>4 DEF PiecesHold
<1>6. SumsTo(n, PieceCores, Aggregate)
  <2>1. DOMAIN PieceCores = 1 .. n
    BY <1>1 DEF PieceCores
  <2>2. SumOfCommitments(PieceCores) = CaseSecret
    BY DEF CaseAssumption, CaseScreened, CaseVerifies
  <2> QED BY <2>1, <2>2 DEF SumsTo, Aggregate, AggregateCore, SumOfCommitments, SumOver
<1>7. \A h \in 1 .. n : Masked(M[h], PieceNonces[h], AccessTotal)
  BY <1>1, PieceOpens
<1>8. \A j \in Limbs : SumOfMasks[j] = SumFunction([h \in 1 .. n |-> M[h][j]]) % Order
  BY <1>1 DEF SumOfMasks, SumOver
<1> HIDE DEF w, M
<1>9. Holds(Aggregate, Total(n, Digits), Total(n, PieceNonces), w, Recipient, AccessTotal)
  BY <1>1, <1>5, <1>6, SumHolds
<1>10. Masked(SumOfMasks, Total(n, PieceNonces), AccessTotal)
  BY <1>1, <1>5, <1>7, <1>8, SumMasked
<1>11. /\ Total(n, Digits) \in [Limbs -> 0 .. n * LimbModulus - 1]
       /\ Total(n, PieceNonces) \in [Limbs -> Int]
  BY <1>1, <1>5, TotalTypes
<1> QED BY <1>1, <1>5, <1>9, <1>10, <1>11 DEF w

\* The recipient gets the secret out of the sum.
LEMMA SumOpens ==
  ASSUME CaseAssumption, CaseInv, \A h \in Pieces : EveryHolderOnce(ArrivedFor(h))
  PROVE  BoundOpened(Recipient) = CaseSecret
<1> DEFINE n == Len(PieceOf)
           w == RecipientWeight(Recipient, Gates)
           v == Total(n, Digits)
           s == Total(n, PieceNonces)
<1>1. PICK bound \in Nat : bound = n * LimbModulus /\ bound <= Order
  <2>1. n \in Nat /\ LimbModulus \in Nat
    BY CaseDealt, KeyFacts
  <2> QED BY <2>1 DEF CaseAssumption
<1>2. /\ Holds(Aggregate, v, s, w, Recipient, AccessTotal) /\ Masked(SumOfMasks, s, AccessTotal)
      /\ v \in [Limbs -> 0 .. n * LimbModulus - 1] /\ s \in [Limbs -> Int]
  BY SumServed
<1>3. BoundOpened(Recipient) = OpenWithAccessMasks(Aggregate, Binding, Recipient, SumOfMasks, bound)
  BY <1>1, BoundCall
<1>4. w \in Int /\ Recipient \in Int /\ AccessTotal \in Int /\ Binding.recipientWeight = w
  BY CaseDealt, KeyFacts
<1>5. v \in [Limbs -> 0 .. bound - 1]
  BY <1>1, <1>2
<1> HIDE DEF n, v, s, w
<1>6. OpenWithAccessMasks(Aggregate, Binding, Recipient, SumOfMasks, bound) = Aggregate.c
  BY <1>1, <1>2, <1>4, <1>5, MasksOpen
<1> QED BY <1>3, <1>6 DEF Aggregate, AggregateCore

\* Reducing the terms first does not change what a miss comes to.
LEMMA MissReduces ==
  ASSUME NEW a \in Int, NEW b \in Int, NEW y \in Int
  PROVE  Plus(a % Order, Times(b % Order, y)) = Plus(a, Times(b, y))
<1>0. Scalars \subseteq Int
  BY DEF Scalars
<1>1. PICK d \in Int, e \in Int : d = a % Order /\ e = b % Order /\ Same(d, a) /\ Same(e, b)
  BY <1>0, SameReduces
<1>2. Same(y, y)
  BY SameIsEquivalence
<1>3. PICK p \in Int, q \in Int, m \in Int :
        p = Times(e, y) /\ q = Times(b, y) /\ m = b * y /\ Same(p, m) /\ Same(q, m)
  <2>1. PICK m \in Int : m = b * y
    OBVIOUS
  <2>2. Times(e, y) \in Int /\ Same(Times(e, y), m)
    BY <1>1, <1>2, <2>1, SameThrough
  <2>3. Times(b, y) \in Int /\ Same(Times(b, y), m)
    BY <1>0, <2>1, SameOperations
  <2> QED BY <2>1, <2>2, <2>3
<1>4. PICK k \in Int : k = a + m
  OBVIOUS
<1>5. Same(a, a)
  BY SameIsEquivalence
<1>6. Plus(d, p) \in Int /\ Same(Plus(d, p), k)
  BY <1>1, <1>3, <1>4, SameThrough
<1>7. Plus(a, q) \in Int /\ Same(Plus(a, q), k)
  BY <1>3, <1>4, <1>5, SameThrough
<1>8. Plus(d, p) \in Scalars /\ Plus(a, q) \in Scalars
  BY SameOperations
<1>9. Same(Plus(d, p), Plus(a, q))
  <2>1. PICK f \in Int, g \in Int : f = Plus(d, p) /\ g = Plus(a, q) /\ Same(f, k) /\ Same(g, k)
    BY <1>6, <1>7
  <2>2. Same(f, g)
    BY <2>1, SameIsEquivalence
  <2> QED BY <2>1, <2>2
<1>10. Plus(d, p) = Plus(a, q)
  BY <1>8, <1>9, SameScalars
<1> QED BY <1>1, <1>3, <1>10

\* Another key misses a limb of the sum.
LEMMA SumMissed ==
  ASSUME CaseAssumption, OtherKeysMissCase, CaseInv,
         \A h \in Pieces : EveryHolderOnce(ArrivedFor(h)), NEW x \in TriedSecrets \ {Recipient}
  PROVE  BoundOpened(x) = Failed
<1> DEFINE n == Len(PieceOf)
           w == RecipientWeight(Recipient, Gates)
           v == Total(n, Digits)
           s == Total(n, PieceNonces)
<1>1. PICK bound \in Nat : bound = n * LimbModulus
  <2>1. n \in Nat /\ LimbModulus \in Nat
    BY CaseDealt, KeyFacts
  <2> QED BY <2>1
<1>2. /\ Holds(Aggregate, v, s, w, Recipient, AccessTotal) /\ Masked(SumOfMasks, s, AccessTotal)
      /\ v \in [Limbs -> 0 .. n * LimbModulus - 1] /\ s \in [Limbs -> Int]
  BY SumServed
<1>3. BoundOpened(x) = OpenWithAccessMasks(Aggregate, Binding, x, SumOfMasks, bound)
  BY <1>1, BoundCall
<1>4. PICK j \in Limbs : x \in Scalars /\ SumMiss(x, j) >= bound
  BY <1>1 DEF OtherKeysMissCase
<1>5. /\ w \in Int /\ Recipient \in Int /\ AccessTotal \in Int /\ Binding.recipientWeight = w
      /\ x \in Int /\ Scalars \subseteq Int
  BY <1>4, CaseDealt, KeyFacts, RosterFacts
<1>6. v \in [Limbs -> Int]
  <2>1. \A i \in Limbs : v[i] \in Int
    <3>1. \A i \in Limbs : v[i] \in 0 .. bound - 1
      BY <1>1, <1>2
    <3> HIDE DEF v
    <3> QED BY <3>1
  <2>2. v = [i \in Limbs |-> v[i]]
    BY DEF Total
  <2> HIDE DEF v
  <2> QED BY <2>1, <2>2
<1>7. PICK y \in Int : y = Times(w, Minus(Recipient, x))
  <2>1. PICK m \in Int : m = Minus(Recipient, x)
    BY <1>5, SameOperations
  <2>2. Times(w, m) \in Int
    BY <1>5, SameOperations
  <2> QED BY <2>1, <2>2
<1>8. SumMiss(x, j) = Plus(v[j] % Order, Times(s[j] % Order, y))
  <2>1. [h \in Pieces |-> Decompose(PieceOf[h])[j]] = [h \in 1 .. n |-> Digits[h][j]]
    BY CaseDealt DEF Digits
  <2>2. [h \in Pieces |-> PieceNonces[h][j]] = [h \in 1 .. n |-> PieceNonces[h][j]]
    BY CaseDealt
  <2>3. SumOver(LAMBDA h : Decompose(PieceOf[h])[j], Pieces) = v[j] % Order
    BY <2>1 DEF SumOver, Total
  <2>4. SumOver(LAMBDA h : PieceNonces[h][j], Pieces) = s[j] % Order
    BY <2>2 DEF SumOver, Total
  <2> HIDE DEF v, s, n
  <2> QED BY <1>7, <2>3, <2>4 DEF SumMiss, MissOf, w
<1>9. Plus(v[j], Times(s[j], Times(w, Minus(Recipient, x)))) >= bound
  <2>1. PICK a \in Int, b \in Int : a = v[j] /\ b = s[j]
    <3> HIDE DEF v, s
    <3> QED BY <1>2, <1>6
  <2>2. Plus(a % Order, Times(b % Order, y)) = Plus(a, Times(b, y))
    BY MissReduces
  <2> HIDE DEF v, s, w
  <2> QED BY <1>4, <1>7, <1>8, <2>1, <2>2
<1> HIDE DEF n, v, s, w
<1>10. OpenWithAccessMasks(Aggregate, Binding, x, SumOfMasks, bound) = Failed
  BY <1>1, <1>2, <1>4, <1>5, <1>6, <1>9, MissedFails
<1> QED BY <1>3, <1>10

----------------------------------------------------------------------------
(* The theorems about a case.                                              *)

\* What a sound case keeps: only partials of its contributions on the wire,
\* only the committed scalar released.
THEOREM CaseInvariance == ASSUME CaseAssumption PROVE CaseSpec => []CaseInv
<1>1. Init => CaseInv
  BY InitCaseInv
<1>2. CaseInv /\ [CaseNext]_vars => CaseInv'
  BY NextCaseInv
<1> QED BY <1>1, <1>2, PTL DEF CaseSpec

\* A list opens a case exactly when each piece got every holder's contribution
\* once (VerifiedCase::unseal), for any number of pieces, gates and holders.
THEOREM CaseOpeningIsExact ==
  ASSUME CaseAssumption PROVE CaseSpec => []OpensIffEveryPieceQualifies
<1>1. CaseInv => OpensIffEveryPieceQualifies
  BY PieceCloses, PiecewiseOpens, CaseDealt DEF OpensIffEveryPieceQualifies
<1> QED BY <1>1, CaseInvariance, PTL

\* A verified case and its bound, proof-stripped form give the same answer to
\* every key that is tried and every list (BoundCase::unseal).
THEOREM CasePathsAgree ==
  ASSUME CaseAssumption, OtherKeysMissCase PROVE CaseSpec => []PathsAgree
<1>1. ASSUME CaseInv PROVE PathsAgree
  <2> SUFFICES ASSUME NEW x \in TriedSecrets PROVE CaseOpened(x) = BoundOpened(x)
    BY DEF PathsAgree
  <2>1. CASE \E h \in Pieces : ~EveryHolderOnce(ArrivedFor(h))
    BY <1>1, <2>1, PieceCloses
  <2>2. CASE \A h \in Pieces : EveryHolderOnce(ArrivedFor(h))
    <3>1. CASE x = Recipient
      BY <1>1, <2>2, <3>1, PiecewiseOpens, SumOpens
    <3>2. CASE x # Recipient
      BY <1>1, <2>2, <3>2, PiecewiseMissed, SumMissed
    <3> QED BY <3>1, <3>2
  <2> QED BY <2>1, <2>2
<1> QED BY <1>1, CaseInvariance, PTL

\* Both paths implement the escrow of the case's secret: a contribution gives
\* at most its holder's consent, and a scalar comes out only under the
\* recipient's key, after every consent, and is the committed one.
THEOREM CaseKeepsPromise ==
  ASSUME CaseAssumption, OtherKeysMissCase PROVE CaseSpec => CaseImplementsEscrow
<1> DEFINE consenting == {c.holder : c \in {d \in made : d.ctx = TokenCtx /\ d.gate = GateOf[d.holder]}}
<1>1. Init => CasePromise!Init
  BY DEF Init, CasePromise!Init
<1>2. CaseInv /\ [CaseNext]_vars => [CasePromise!Next]_(CasePromise!vars)
  <2> SUFFICES ASSUME CaseInv, [CaseNext]_vars
               PROVE  CasePromise!Next \/ UNCHANGED CasePromise!vars
    OBVIOUS
  <2>1. UNCHANGED <<made, released>> => UNCHANGED CasePromise!vars
    BY DEF CasePromise!vars
  <2>2. ASSUME NEW c \in CaseCalls, ContributeToCase(c)
        PROVE  CasePromise!Next \/ UNCHANGED CasePromise!vars
    <3>1. made' = made \cup {c} /\ released' = released /\ c.holder \in Holders
      BY <2>2 DEF ContributeToCase, Make, CaseAssumption
    <3>2. consenting' = consenting \/ consenting' = consenting \cup {c.holder}
      <4>1. consenting \subseteq consenting' /\ consenting' \subseteq consenting \cup {c.holder}
        BY <3>1
      <4> QED BY <4>1
    <3> QED BY <3>1, <3>2 DEF CasePromise!Next, CasePromise!Consent, CasePromise!vars
  <2>3. ASSUME NEW c \in made, NEW h \in Pieces, DeliverPiece(c, h) PROVE UNCHANGED CasePromise!vars
    BY <2>1, <2>3 DEF DeliverPiece, Arrive
  <2>4. ASSUME NEW x \in TriedSecrets, UnsealCase(x) \/ UnsealBound(x) PROVE CasePromise!Next
    <3>1. PICK m : /\ m \in {CaseOpened(x), BoundOpened(x)} /\ m # Failed /\ made' = made
                   /\ released' = released \cup {<<x, m>>}
      BY <2>4 DEF UnsealCase, UnsealBound, Return
    <3>2. \A h \in Pieces : EveryHolderOnce(ArrivedFor(h))
      BY <3>1, PieceCloses
    <3>3. m = CaseSecret
      BY <3>1, CaseOpensToCommitted
    <3>4. x = Recipient
      BY <3>1, <3>2, PiecewiseMissed, SumMissed
    <3>5. consenting = Holders
      <4>1. PICK h : h \in Pieces
        <5>1. Pieces = 1 .. Len(PieceOf) /\ Len(PieceOf) \in Nat \ {0}
          BY CaseDealt
        <5>2. 1 \in Pieces
          BY <5>1
        <5> QED BY <5>2
      <4>2. EveryHolderOnce(ArrivedFor(h))
        BY <3>2, <4>1
      <4>3. \A g \in Holders : \E c \in made : c.holder = g /\ c.ctx = TokenCtx /\ c.gate = GateOf[g]
        BY <4>2 DEF EveryHolderOnce, ArrivedFor
      <4>4. consenting \subseteq Holders
        BY DEF CaseAssumption, CaseInv
      <4>5. Holders \subseteq consenting
        BY <4>3
      <4> QED BY <4>4, <4>5
    <3>6. consenting' = consenting
      BY <3>1
    <3> QED BY <3>1, <3>3, <3>4, <3>5, <3>6 DEF CasePromise!Next, CasePromise!Release
  <2>5. CASE UNCHANGED vars
    BY <2>1, <2>5 DEF vars
  <2> QED BY <2>2, <2>3, <2>4, <2>5 DEF CaseNext
<1>3. Init => CaseInv
  BY InitCaseInv
<1>4. CaseInv /\ [CaseNext]_vars => CaseInv'
  BY NextCaseInv
<1> QED BY <1>1, <1>2, <1>3, <1>4, PTL DEF CaseSpec, CaseImplementsEscrow, CasePromise!Spec
=============================================================================
