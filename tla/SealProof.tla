------------------------------ MODULE SealProof ------------------------------
(***************************************************************************)
(* The proof of a seal: the carry chain of carry.rs, the linking sigma of  *)
(* linking.rs and their assembly under one challenge (assembly.rs, seal    *)
(* and verify), with the opening it is meant to guarantee (open).          *)
(*                                                                         *)
(* A point is a pair <<a, b>> for a*G + b*H: the logarithm of H is unknown, *)
(* so two points are equal only when both coefficients are.  The range     *)
(* argument (RangeCircuit) is taken at its word here: it shows that limbs  *)
(* and carries are committed below their bounds.  The challenge is that of *)
(* a random oracle, any scalar.                                            *)
(***************************************************************************)
EXTENDS CapsuleAlgebra

CONSTANTS
  SecretKey,         \* sk, with pk = sk*G
  Seeds,             \* what the generator of random numbers may be seeded with
  Draw(_, _, _),     \* (seed, kind, limb) -> the scalar drawn
  Guesses,           \* the challenges hoped for
  OtherValues,       \* what one limb may encrypt instead of its value
  Targets            \* offsets of a claimed C from that of the committed limbs

ASSUME ProofAssumption ==
  /\ SecretKey \in Scalars \ {0}
  /\ \A seed \in Seeds, k \in Limbs :
       \A kind \in {"r", "s", "sBar", "g", "alpha", "beta", "gamma", "rho"} :
         Draw(seed, kind, k) \in Scalars
  /\ Targets \cup Guesses \cup OtherValues \subseteq Scalars
  /\ 2 * LimbModulus < Order

VARIABLES
  sealer,    \* who has announced: nobody, the code's seal, or another sealer
  witness,   \* the values committed to and encrypted, and the seed
  guess      \* the challenge a sealer of a false statement hopes for

vars == <<sealer, witness, guess>>

----------------------------------------------------------------------------
G(a) == <<a % Order, 0>>
HPoint(b) == <<0, b % Order>>
Add(p, q) == <<Plus(p[1], q[1]), Plus(p[2], q[2])>>
Sub(p, q) == <<Minus(p[1], q[1]), Minus(p[2], q[2])>>
Scale(s, p) == <<Times(s, p[1]), Times(s, p[2])>>

Weight(k) == LimbPower[k - 1] % Order              \* limb_weights
Carries == 1 .. LimbCount - 1
LastScalar == Decompose(Order - 1)                  \* (n - 1)_k

----------------------------------------------------------------------------
(* carry.rs                                                                *)

\* The carry out of every limb in the schoolbook addition of v and vBar.
CarriesOut(v, vBar) ==
  LET out[k \in 0 .. LimbCount] ==
        IF k = 0 THEN 0 ELSE (v[k] + vBar[k] + out[k - 1]) \div LimbModulus
  IN  out

\* Slip: the complement is taken of n, not of n - 1.
ComplementOfOrder(m) == (Order - m) % Order

Complement(m) == Order - 1 - m

\* carry_commit succeeds: every sum matches n - 1 and no carry is left over.
CarriesClose(v, vBar) ==
  LET out == CarriesOut(v, vBar)
  IN  /\ \A k \in Limbs : (v[k] + vBar[k] + out[k - 1]) % LimbModulus = LastScalar[k]
      /\ out[LimbCount] = 0

CarryIn(com, k) == IF k = 1 THEN <<0, 0>> ELSE com[k - 1]
CarryOut(com, k) == IF k = LimbCount THEN <<0, 0>> ELSE com[k]

\* Slip: the carry into a limb is left out of its equation.
ResidualWithoutCarryIn(st, k) ==
  Sub(Sub(Add(st.com[k], st.comBar[k]), G(LastScalar[k])),
      Scale(LimbModulus % Order, CarryOut(st.comC, k)))

\* R_k
Residual(st, k) ==
  Sub(Sub(Add(Add(st.com[k], st.comBar[k]), CarryIn(st.comC, k)), G(LastScalar[k])),
      Scale(LimbModulus % Order, CarryOut(st.comC, k)))

CarryVerifies(st, announcements, responses, challenge) ==
  \A k \in Limbs :
    HPoint(responses.rho[k]) = Add(announcements.residual[k], Scale(challenge, Residual(st, k)))

----------------------------------------------------------------------------
(* assembly.rs: the statement that seal_inner_ungated puts together.        *)

Statement(w) ==
  [ e      |-> [k \in Limbs |-> G(Draw(w.seed, "r", k))],
    d      |-> [k \in Limbs |-> G(w.encrypted[k] + SecretKey * Draw(w.seed, "r", k))],
    com    |-> [k \in Limbs |-> <<w.v[k], Draw(w.seed, "s", k)>>],
    comBar |-> [k \in Limbs |-> <<w.vBar[k], Draw(w.seed, "sBar", k)>>],
    comC   |-> [k \in Carries |-> <<w.carry[k], Draw(w.seed, "g", k)>>],
    c      |-> G(w.target) ]

\* w_k, as carry_commit computes it; another sealer answers with what its
\* residual leaves.
ResidualWitness(w, k) ==
  LET g(i) == IF i \in Carries THEN Draw(w.seed, "g", i) ELSE 0
  IN  IF sealer = "other" THEN Residual(Statement(w), k)[2]
      ELSE Minus(Plus(Plus(Draw(w.seed, "s", k), Draw(w.seed, "sBar", k)), g(k - 1)),
                 Times(LimbModulus % Order, g(k)))

\* What range_circuit::verify is there to show of the committed values.
InRange(w) ==
  /\ \A k \in Limbs : w.v[k] \in 0 .. LimbModulus - 1 /\ w.vBar[k] \in 0 .. LimbModulus - 1
  /\ \A k \in Carries : w.carry[k] \in 0 .. 1

----------------------------------------------------------------------------
(* linking.rs                                                              *)

\* Announcements answerable at the challenge `bet`: those of the code when
\* the statement is that of the witness, and where a leg is false, the only
\* ones that leave it a challenge at all.
Announcements(w, bet) ==
  LET st == Statement(w)
      nonce(kind, k) == Draw(w.seed, kind, k)
      shift(p, error) == Sub(p, Scale(bet, error))
      opened(k) == G(w.encrypted[k])
      sum(f(_)) == SumOver(LAMBDA k : Times(Weight(k), f(k)), Limbs)
  IN  [ e   |-> [k \in Limbs |-> G(nonce("beta", k))],
        d   |-> [k \in Limbs |-> G(nonce("alpha", k) + SecretKey * nonce("beta", k))],
        com |-> [k \in Limbs |->
                  shift(<<nonce("alpha", k), nonce("gamma", k)>>,
                        Sub(G(w.v[k]), opened(k)))],
        c   |-> shift(G(sum(LAMBDA k : nonce("alpha", k))),
                      Sub(st.c, G(sum(LAMBDA k : w.encrypted[k])))),
        residual |-> [k \in Limbs |->
                  shift(HPoint(nonce("rho", k)),
                        Sub(Residual(st, k), HPoint(ResidualWitness(w, k))))] ]

\* respond: one response per value, shared by all legs it appears in.
Responses(w, challenge) ==
  LET combine(kind, value, k) == Plus(Draw(w.seed, kind, k), Times(challenge, value))
  IN  [ v   |-> [k \in Limbs |-> combine("alpha", w.encrypted[k], k)],
        r   |-> [k \in Limbs |-> combine("beta", Draw(w.seed, "r", k), k)],
        s   |-> [k \in Limbs |-> combine("gamma", Draw(w.seed, "s", k), k)],
        rho |-> [k \in Limbs |-> combine("rho", ResidualWitness(w, k), k)] ]

\* Slip: the leg of Com does not share its response with that of D.
ComLegLoose(st, announcements, responses, challenge) ==
  \A k \in Limbs :
    responses.s[k] = Add(announcements.com[k], Scale(challenge, st.com[k]))[2]

ComLeg(st, announcements, responses, challenge) ==
  \A k \in Limbs :
    Add(G(responses.v[k]), HPoint(responses.s[k]))
      = Add(announcements.com[k], Scale(challenge, st.com[k]))

LinkingVerifies(st, announcements, responses, challenge) ==
  /\ \A k \in Limbs :
       /\ G(responses.r[k]) = Add(announcements.e[k], Scale(challenge, st.e[k]))
       /\ G(responses.v[k] + SecretKey * responses.r[k])
            = Add(announcements.d[k], Scale(challenge, st.d[k]))
  /\ ComLeg(st, announcements, responses, challenge)
  /\ G(SumOver(LAMBDA k : Times(Weight(k), responses.v[k]), Limbs))
       = Add(announcements.c, Scale(challenge, st.c))

----------------------------------------------------------------------------
\* The challenges at which verify accepts: the range argument, then
\* verify_sigma_algebra.  The masks and commitments that are refused before
\* are the subject of MaskSearch and PedersenScreen.
AcceptedAt ==
  LET st == Statement(witness)
      announcements == Announcements(witness, guess)
  IN  { c \in Scalars :
          /\ InRange(witness)
          /\ CarryVerifies(st, announcements, Responses(witness, c), c)
          /\ LinkingVerifies(st, announcements, Responses(witness, c), c) }

\* open: decrypt every limb, recover it below the limb modulus, recompose and
\* recheck the commitment.
Open(st) ==
  LET limb == [k \in Limbs |->
                RecoverBounded(Sub(st.d[k], Scale(SecretKey, st.e[k]))[1], LimbModulus)]
      missing == \E k \in Limbs : limb[k] = Failed
      m == Recompose([k \in Limbs |-> IF limb[k] = Failed THEN 0 ELSE limb[k]])
  IN  IF missing \/ G(m) # st.c THEN Failed ELSE m

----------------------------------------------------------------------------
None == [v |-> <<>>]

Init == sealer = "nobody" /\ witness = None /\ guess = 0

Seal(m, seed) ==
  LET v == Decompose(m)
      vBar == Decompose(Complement(m))
  IN  /\ sealer = "nobody"
      /\ CarriesClose(v, vBar)
      /\ witness' = [ v |-> v, vBar |-> vBar, encrypted |-> v,
                      carry |-> [k \in Carries |-> CarriesOut(v, vBar)[k]],
                      target |-> m, seed |-> seed ]
      /\ sealer' = "seal"
      /\ UNCHANGED guess

\* Any other sealer: values in range, carries as it likes, one limb encrypted
\* that is not the committed one, a target that is not the sum.
SealOtherwise(v, vBar, carry, limb, value, offset, seed, bet) ==
  /\ sealer = "nobody"
  /\ witness' = [ v |-> v, vBar |-> vBar, carry |-> carry,
                  encrypted |-> [v EXCEPT ![limb] = value],
                  target |-> Plus(Recompose(v), offset), seed |-> seed ]
  /\ guess' = bet
  /\ sealer' = "other"

LimbValues == [Limbs -> 0 .. LimbModulus - 1]

Next ==
  \/ \E m \in Scalars, seed \in Seeds : Seal(m, seed)
  \/ \E v, vBar \in LimbValues, carry \in [Carries -> 0 .. 1], limb \in Limbs, value \in OtherValues :
       \E offset \in Targets, seed \in Seeds, bet \in Guesses :
         SealOtherwise(v, vBar, carry, limb, value, offset, seed, bet)

Spec == Init /\ [][Next]_vars

----------------------------------------------------------------------------
\* Announcements that can be answered at two challenges, which leaves a sealer
\* of a false statement one challenge out of Order.
Sound == sealer # "nobody" /\ Cardinality(AcceptedAt) >= 2

\* Every scalar can be sealed (the carry chain always closes on n - 1), and
\* its proof is accepted whatever the challenge (assembly.rs, seal and verify).
EveryScalarSeals ==
  /\ sealer = "nobody" =>
       \A m \in Scalars : CarriesClose(Decompose(m), Decompose(Complement(m)))
  /\ sealer = "seal" => AcceptedAt = Scalars

\* The carry equations, which hold modulo n, hold over the integers: the limbs
\* committed to are those of a value below n, not of its alias m + n that L
\* limbs have room for (carry.rs: "so M <= n - 1 < n").
CommittedBelowOrder ==
  Sound => Integer(witness.v) + Integer(witness.vBar) = Order - 1

\* What verifies can be opened: the limbs encrypted are the ones in range, and
\* they recompose to the scalar committed to by C (linking.rs).
VerifiedOpens ==
  Sound => Open(Statement(witness)) = witness.target /\ witness.target = Integer(witness.v)

\* Every scalar seals into a proof that every challenge accepts, and a proof
\* that two challenges accept encrypts the limbs of the committed scalar, all
\* below n (assembly.rs seal and verify, carry.rs, linking.rs).
SealsAndOnlyWhatOpens == EveryScalarSeals /\ CommittedBelowOrder /\ VerifiedOpens
=============================================================================
