--------------------------- MODULE SealProof_proofs ---------------------------
(***************************************************************************)
(* What verifies opens, and whatever is sealed verifies, for every prime   *)
(* order, limb width and number of limbs.                                  *)
(*                                                                         *)
(* Two accepted challenges for the same announcements cancel the           *)
(* announcements: every leg then holds of the statement itself.  The carry *)
(* equations are between numbers too small to wrap, so they hold over the  *)
(* integers, and their weighted sum telescopes to v + vBar = n - 1.        *)
(*                                                                         *)
(* The second half is about the transcript that the challenges come from.  *)
(* What is framed can be cut from whatever follows it, so two transcripts  *)
(* are equal only part by part, and a nonce hashed from the whole binding  *)
(* fixes all that its challenge is hashed from.                            *)
(***************************************************************************)
EXTENDS SealProof, ProofNonces, Msm, NormArg, CapsuleAlgebra_proofs

Points == Scalars \X Scalars

\* The weight of a limb is the power of the limb modulus below it.
LEMMA Weights ==
  ASSUME NEW k \in Limbs
  PROVE  Weight(k) \in Scalars /\ Same(Weight(k), LimbPower[k - 1]) /\ LimbPower[k - 1] \in Nat \ {0}
<1>1. k - 1 \in 0 .. LimbCount
  BY ScalarNumbers DEF Limbs
<1> QED BY <1>1, LimbPowers, SameReduces DEF Weight

\* Operations on points are those on their coefficients.
LEMMA PointOperations ==
  ASSUME NEW p \in Points, NEW q \in Points, NEW s \in Int
  PROVE  /\ p[1] \in Scalars /\ p[2] \in Scalars
         /\ G(s) \in Points /\ Same(G(s)[1], s) /\ G(s)[2] = 0
         /\ HPoint(s) \in Points /\ HPoint(s)[1] = 0 /\ Same(HPoint(s)[2], s)
         /\ Add(p, q) \in Points /\ Same(Add(p, q)[1], p[1] + q[1]) /\ Same(Add(p, q)[2], p[2] + q[2])
         /\ Sub(p, q) \in Points /\ Same(Sub(p, q)[1], p[1] - q[1]) /\ Same(Sub(p, q)[2], p[2] - q[2])
         /\ Scale(s, p) \in Points /\ Same(Scale(s, p)[1], s * p[1]) /\ Same(Scale(s, p)[2], s * p[2])
<1>1. /\ p[1] \in Scalars /\ p[2] \in Scalars /\ q[1] \in Scalars /\ q[2] \in Scalars
      /\ p[1] \in Int /\ p[2] \in Int /\ q[1] \in Int /\ q[2] \in Int
  BY ScalarNumbers DEF Points
<1>2. s % Order \in Scalars /\ Same(s % Order, s) /\ 0 \in Scalars
  BY SameReduces, ScalarNumbers
<1>3. G(s) \in Points /\ Same(G(s)[1], s) /\ G(s)[2] = 0
  BY <1>2 DEF G, Points
<1>4. HPoint(s) \in Points /\ HPoint(s)[1] = 0 /\ Same(HPoint(s)[2], s)
  BY <1>2 DEF HPoint, Points
<1>5. Add(p, q) \in Points /\ Same(Add(p, q)[1], p[1] + q[1]) /\ Same(Add(p, q)[2], p[2] + q[2])
  BY <1>1, SameOperations DEF Add, Points
<1>6. Sub(p, q) \in Points /\ Same(Sub(p, q)[1], p[1] - q[1]) /\ Same(Sub(p, q)[2], p[2] - q[2])
  BY <1>1, SameOperations DEF Sub, Points
<1>7. Scale(s, p) \in Points /\ Same(Scale(s, p)[1], s * p[1]) /\ Same(Scale(s, p)[2], s * p[2])
  BY <1>1, SameOperations DEF Scale, Points
<1> QED BY <1>1, <1>3, <1>4, <1>5, <1>6, <1>7

----------------------------------------------------------------------------
(* Special soundness: of any statement, whoever made it.                   *)

StatementShape(st) ==
  /\ st.e \in [Limbs -> Points] /\ st.d \in [Limbs -> Points]
  /\ st.com \in [Limbs -> Points] /\ st.comBar \in [Limbs -> Points]
  /\ st.comC \in [Carries -> Points] /\ st.c \in Points

AnnouncementShape(a) ==
  /\ a.e \in [Limbs -> Points] /\ a.d \in [Limbs -> Points] /\ a.com \in [Limbs -> Points]
  /\ a.residual \in [Limbs -> Points] /\ a.c \in Points

ResponseShape(r) ==
  r.v \in [Limbs -> Scalars] /\ r.r \in [Limbs -> Scalars] /\ r.s \in [Limbs -> Scalars]
    /\ r.rho \in [Limbs -> Scalars]

Accepts(st, a, r, c) == CarryVerifies(st, a, r, c) /\ LinkingVerifies(st, a, r, c)

\* What two answers to the same announcement say of what is announced.
LEMMA TwoAnswers ==
  ASSUME NEW c \in Scalars, NEW d \in Scalars, c # d, NEW x \in Int, NEW a \in Int,
         Same(0, a + c * x), Same(0, a + d * x)
  PROVE  Same(x, 0)
<1>1. c \in Int /\ d \in Int /\ Order \in Int
  BY ScalarNumbers
<1>2. PICK i \in Int : 0 = a + c * x + Order * i
  BY DEF Same
<1>3. PICK j \in Int : 0 = a + d * x + Order * j
  BY DEF Same
<1>4. j - i \in Int /\ c * x = d * x + Order * (j - i)
  BY <1>1, <1>2, <1>3
<1>5. Same(c * x, d * x)
  BY <1>4 DEF Same
<1> QED BY <1>5, Cancel

\* The three legs of one limb share its two responses, so what D hides from E
\* is what Com commits to.
LEMMA LegsAgree ==
  ASSUME NEW c \in Scalars, NEW d \in Scalars, c # d,
         NEW ae \in Int, NEW ad \in Int, NEW ac \in Int, NEW e \in Int, NEW w \in Int, NEW v \in Int,
         NEW z \in Int, NEW r \in Int, NEW y \in Int, NEW s \in Int,
         Same(r, ae + c * e), Same(z + SecretKey * r, ad + c * w), Same(z, ac + c * v),
         Same(s, ae + d * e), Same(y + SecretKey * s, ad + d * w), Same(y, ac + d * v)
  PROVE  Same(w, v + SecretKey * e) /\ Same(z, y + (c - d) * v)
<1>1. c \in Int /\ d \in Int /\ Order \in Int /\ SecretKey \in Int
  BY ScalarNumbers, ProofAssumption
<1>2. PICK i \in Int : r = ae + c * e + Order * i
  BY DEF Same
<1>3. PICK j \in Int : z + SecretKey * r = ad + c * w + Order * j
  BY DEF Same
<1>4. PICK k \in Int : z = ac + c * v + Order * k
  BY DEF Same
<1>5. PICK l \in Int : s = ae + d * e + Order * l
  BY DEF Same
<1>6. PICK m \in Int : y + SecretKey * s = ad + d * w + Order * m
  BY DEF Same
<1>7. PICK n \in Int : y = ac + d * v + Order * n
  BY DEF Same
<1> DEFINE x == v + SecretKey * e - w
           a == ac + SecretKey * ae - ad
<1>8. x \in Int /\ a \in Int
  BY <1>1
<1>9. 0 = a + c * x + Order * (k + SecretKey * i - j)
  <2>1. SecretKey * r = SecretKey * ae + c * (SecretKey * e) + Order * (SecretKey * i)
    BY <1>1, <1>2
  <2> QED BY <1>1, <1>3, <1>4, <2>1
<1>10. 0 = a + d * x + Order * (n + SecretKey * l - m)
  <2>1. SecretKey * s = SecretKey * ae + d * (SecretKey * e) + Order * (SecretKey * l)
    BY <1>1, <1>5
  <2> QED BY <1>1, <1>6, <1>7, <2>1
<1>11. Same(0, a + c * x) /\ Same(0, a + d * x)
  <2>1. k + SecretKey * i - j \in Int /\ n + SecretKey * l - m \in Int
    BY <1>1
  <2> HIDE DEF a, x
  <2> QED BY <1>9, <1>10, <2>1 DEF Same
<1>12. Same(x, 0)
  <2> HIDE DEF a, x
  <2> QED BY <1>8, <1>11, TwoAnswers
<1>13. Same(w, v + SecretKey * e)
  <2>1. PICK q \in Int : x = 0 + Order * q
    BY <1>12 DEF Same
  <2>2. w = v + SecretKey * e + Order * (-q)
    BY <1>1, <2>1
  <2> QED BY <2>2 DEF Same
<1>14. Same(z, y + (c - d) * v)
  <2>1. z = y + (c - d) * v + Order * (k - n)
    BY <1>1, <1>4, <1>7
  <2> QED BY <2>1 DEF Same
<1> QED BY <1>13, <1>14

\* What an equation of the verifier says of the logarithms in base G.
LEMMA Equation ==
  ASSUME NEW t \in Points, NEW p \in Points, NEW q \in Points, NEW c \in Scalars,
         t = Add(p, Scale(c, q)), NEW x \in Int, Same(t[1], x)
  PROVE  Same(x, p[1] + c * q[1])
<1>1. c \in Int /\ Scalars \subseteq Int /\ Order \in Int
  BY ScalarNumbers
<1>2. PICK u \in Points : u = Scale(c, q)
  BY <1>1, PointOperations
<1>3. PICK i \in Int, j \in Int, l \in Int, h \in Int :
        i = t[1] /\ j = p[1] /\ l = q[1] /\ h = u[1]
  BY <1>1, PointOperations
<1>4. PICK e \in Int : h = c * l + Order * e
  <2>1. Same(h, c * l)
    BY <1>1, <1>2, <1>3, PointOperations
  <2> QED BY <2>1 DEF Same
<1>5. PICK f \in Int : i = j + h + Order * f
  <2>1. Same(i, j + h)
    BY <1>1, <1>2, <1>3, PointOperations
  <2> QED BY <2>1 DEF Same
<1>6. PICK g \in Int : i = x + Order * g
  BY <1>3 DEF Same
<1>7. e + f - g \in Int /\ x = j + c * l + Order * (e + f - g)
  BY <1>1, <1>4, <1>5, <1>6
<1> QED BY <1>3, <1>7 DEF Same

\* The carries into and out of a limb are committed, or none.
LEMMA Residuals ==
  ASSUME NEW st, StatementShape(st), NEW k \in Limbs
  PROVE  /\ CarryIn(st.comC, k) \in Points /\ CarryOut(st.comC, k) \in Points
         /\ Residual(st, k) \in Points
         /\ Same(Residual(st, k)[1],
                 st.com[k][1] + st.comBar[k][1] + CarryIn(st.comC, k)[1] - LastScalar[k]
                   - LimbModulus * CarryOut(st.comC, k)[1])
<1>1. Scalars \subseteq Int /\ Order \in Int /\ LimbModulus \in Int /\ LimbCount \in Int
  BY ScalarNumbers
<1>2. CarryIn(st.comC, k) \in Points
  <2>1. k # 1 => k - 1 \in Carries
    BY <1>1 DEF Limbs, Carries
  <2>2. <<0, 0>> \in Points
    BY ScalarNumbers DEF Points
  <2> QED BY <2>1, <2>2 DEF CarryIn, StatementShape
<1>3. CarryOut(st.comC, k) \in Points
  <2>1. k # LimbCount => k \in Carries
    BY <1>1 DEF Limbs, Carries
  <2>2. <<0, 0>> \in Points
    BY ScalarNumbers DEF Points
  <2> QED BY <2>1, <2>2 DEF CarryOut, StatementShape
<1>4. LastScalar[k] \in Int
  <2>1. Order - 1 \in Nat
    BY ScalarNumbers
  <2> QED BY <2>1, LimbsAreDigits DEF LastScalar
<1>5. PICK l \in Int : l = LastScalar[k]
  BY <1>4
<1>6. PICK b \in Int : b = LimbModulus % Order
  BY ScalarNumbers
<1>7. PICK p \in Points, q \in Points, i \in Points, o \in Points :
        p = st.com[k] /\ q = st.comBar[k] /\ i = CarryIn(st.comC, k) /\ o = CarryOut(st.comC, k)
  BY <1>2, <1>3 DEF StatementShape
<1>8. PICK s \in Points : s = Add(p, q) /\ Same(s[1], p[1] + q[1])
  BY <1>7, PointOperations
<1>9. PICK t \in Points : t = Add(s, i) /\ Same(t[1], s[1] + i[1])
  BY PointOperations
<1>10. PICK g \in Points : g = G(l) /\ Same(g[1], l)
  BY PointOperations
<1>11. PICK u \in Points : u = Sub(t, g) /\ Same(u[1], t[1] - g[1])
  BY PointOperations
<1>12. PICK v \in Points : v = Scale(b, o) /\ Same(v[1], b * o[1])
  BY PointOperations
<1>13. PICK w \in Points : w = Sub(u, v) /\ Same(w[1], u[1] - v[1])
  BY PointOperations
<1>14. Residual(st, k) = w
  BY <1>5, <1>6, <1>7, <1>8, <1>9, <1>10, <1>11, <1>12, <1>13 DEF Residual
<1>15. /\ p[1] \in Int /\ q[1] \in Int /\ i[1] \in Int /\ o[1] \in Int /\ s[1] \in Int
       /\ t[1] \in Int /\ g[1] \in Int /\ u[1] \in Int /\ v[1] \in Int /\ w[1] \in Int
  BY <1>1, PointOperations
<1>16. Same(w[1], p[1] + q[1] + i[1] - l - LimbModulus * o[1])
  <2>1. PICK e1 \in Int : s[1] = p[1] + q[1] + Order * e1
    BY <1>8 DEF Same
  <2>2. PICK e2 \in Int : t[1] = s[1] + i[1] + Order * e2
    BY <1>9 DEF Same
  <2>3. PICK e3 \in Int : g[1] = l + Order * e3
    BY <1>10 DEF Same
  <2>4. PICK e4 \in Int : u[1] = t[1] - g[1] + Order * e4
    BY <1>11 DEF Same
  <2>5. PICK e5 \in Int : v[1] = b * o[1] + Order * e5
    BY <1>12 DEF Same
  <2>6. PICK e6 \in Int : w[1] = u[1] - v[1] + Order * e6
    BY <1>13 DEF Same
  <2>7. PICK e7 \in Int : b = LimbModulus + Order * e7
    BY <1>1, <1>6, SameReduces DEF Same
  <2>8. PICK x \in Int : x = o[1]
    BY <1>15
  <2>9. b * x = LimbModulus * x + Order * (e7 * x)
    BY <1>1, <2>7
  <2>10. PICK z \in Int, y \in Int : z = e7 * x /\ y = LimbModulus * x
    BY <1>1
  <2>11. w[1] = p[1] + q[1] + i[1] - l - LimbModulus * o[1]
                  + Order * (e1 + e2 - e3 + e4 - z - e5 + e6)
    BY <1>1, <1>15, <2>1, <2>2, <2>3, <2>4, <2>5, <2>6, <2>8, <2>9, <2>10
  <2> QED BY <2>11 DEF Same
<1> QED BY <1>2, <1>3, <1>5, <1>7, <1>14, <1>16

\* What one accepted challenge says of the logarithms in base G.
LEMMA AcceptedLegs ==
  ASSUME NEW st, NEW a, NEW r, NEW c \in Scalars,
         StatementShape(st), AnnouncementShape(a), ResponseShape(r), Accepts(st, a, r, c)
  PROVE  /\ \A k \in Limbs :
              /\ Same(r.r[k], a.e[k][1] + c * st.e[k][1])
              /\ Same(r.v[k] + SecretKey * r.r[k], a.d[k][1] + c * st.d[k][1])
              /\ Same(r.v[k], a.com[k][1] + c * st.com[k][1])
              /\ Same(0, a.residual[k][1] + c * Residual(st, k)[1])
         /\ Same(SumFunction([k \in Limbs |-> Times(Weight(k), r.v[k])]), a.c[1] + c * st.c[1])
<1>1. Scalars \subseteq Int /\ SecretKey \in Int /\ Order \in Int
  BY ScalarNumbers, ProofAssumption
<1>2. ASSUME NEW k \in Limbs
      PROVE  /\ Same(r.r[k], a.e[k][1] + c * st.e[k][1])
             /\ Same(r.v[k] + SecretKey * r.r[k], a.d[k][1] + c * st.d[k][1])
             /\ Same(r.v[k], a.com[k][1] + c * st.com[k][1])
             /\ Same(0, a.residual[k][1] + c * Residual(st, k)[1])
  <2>1. /\ st.e[k] \in Points /\ st.d[k] \in Points /\ st.com[k] \in Points
        /\ a.e[k] \in Points /\ a.d[k] \in Points /\ a.com[k] \in Points
        /\ a.residual[k] \in Points /\ Residual(st, k) \in Points
        /\ r.v[k] \in Int /\ r.r[k] \in Int /\ r.s[k] \in Int /\ r.rho[k] \in Int
    BY <1>1, <1>2, Residuals DEF StatementShape, AnnouncementShape, ResponseShape
  <2>2. /\ G(r.r[k]) = Add(a.e[k], Scale(c, st.e[k]))
        /\ G(r.v[k] + SecretKey * r.r[k]) = Add(a.d[k], Scale(c, st.d[k]))
        /\ Add(G(r.v[k]), HPoint(r.s[k])) = Add(a.com[k], Scale(c, st.com[k]))
        /\ HPoint(r.rho[k]) = Add(a.residual[k], Scale(c, Residual(st, k)))
    BY <1>2 DEF Accepts, LinkingVerifies, ComLeg, CarryVerifies
  <2>3. PICK v \in Int, x \in Int, s \in Int, y \in Int :
          v = r.v[k] /\ x = r.r[k] /\ s = r.s[k] /\ y = r.rho[k]
    BY <2>1
  <2>4. G(x) \in Points /\ Same(G(x)[1], x)
    BY <2>1, PointOperations
  <2>5. v + SecretKey * x \in Int
    BY <1>1
  <2>6. G(v + SecretKey * x) \in Points /\ Same(G(v + SecretKey * x)[1], v + SecretKey * x)
    BY <2>1, <2>5, PointOperations
  <2>7. PICK g \in Points, h \in Points : g = G(v) /\ h = HPoint(s) /\ Same(g[1], v) /\ h[1] = 0
    BY <2>1, PointOperations
  <2>8. Add(g, h) \in Points /\ Same(Add(g, h)[1], v)
    <3>1. g[1] \in Int /\ Add(g, h) \in Points /\ Add(g, h)[1] \in Int /\ Same(Add(g, h)[1], g[1] + 0)
      BY <1>1, <2>7, PointOperations
    <3>2. g[1] + 0 = g[1]
      BY <3>1
    <3> QED BY <2>7, <3>1, <3>2, SameIsEquivalence
  <2>9. HPoint(y) \in Points /\ Same(HPoint(y)[1], 0)
    <3>1. PICK b \in Points : b = HPoint(y) /\ b[1] = 0
      BY <2>1, PointOperations
    <3>2. 0 \in Int
      OBVIOUS
    <3>3. Same(0, 0)
      BY <3>2, SameIsEquivalence
    <3> QED BY <3>1, <3>3
  <2>10. Same(x, a.e[k][1] + c * st.e[k][1])
    BY <2>1, <2>2, <2>3, <2>4, Equation
  <2>11. Same(v + SecretKey * x, a.d[k][1] + c * st.d[k][1])
    BY <2>1, <2>2, <2>3, <2>5, <2>6, Equation
  <2>12. Same(v, a.com[k][1] + c * st.com[k][1])
    BY <2>1, <2>2, <2>3, <2>7, <2>8, Equation
  <2>13. Same(0, a.residual[k][1] + c * Residual(st, k)[1])
    <3>1. PICK t \in Points, z \in Int : t = HPoint(y) /\ z = 0 /\ Same(t[1], z)
      BY <2>9
    <3>2. t = Add(a.residual[k], Scale(c, Residual(st, k)))
      BY <2>2, <2>3, <3>1
    <3>3. Same(z, a.residual[k][1] + c * Residual(st, k)[1])
      BY <2>1, <3>1, <3>2, Equation
    <3> QED BY <3>1, <3>3
  <2> QED BY <2>3, <2>10, <2>11, <2>12, <2>13
<1>3. Same(SumFunction([k \in Limbs |-> Times(Weight(k), r.v[k])]), a.c[1] + c * st.c[1])
  <2> DEFINE f == [k \in Limbs |-> Times(Weight(k), r.v[k])]
  <2>1. f \in [Limbs -> Int]
    <3> SUFFICES ASSUME NEW k \in Limbs PROVE Times(Weight(k), r.v[k]) \in Int
      OBVIOUS
    <3>1. r.v[k] \in Int /\ Weight(k) \in Int
      BY <1>1, Weights DEF ResponseShape
    <3> QED BY <1>1, <3>1, SameOperations
  <2> HIDE DEF f
  <2>2. PICK x \in Int : x = SumFunction(f)
    BY <2>1, ScalarNumbers, SumSplits
  <2>3. PICK y \in Int : y = x % Order /\ Same(y, x)
    BY <1>1, SameReduces
  <2>4. G(y) = Add(a.c, Scale(c, st.c))
    <3>1. SumOver(LAMBDA k : Times(Weight(k), r.v[k]), Limbs) = y
      BY <2>2, <2>3 DEF SumOver, f
    <3>2. G(SumOver(LAMBDA k : Times(Weight(k), r.v[k]), Limbs)) = Add(a.c, Scale(c, st.c))
      BY DEF Accepts, LinkingVerifies
    <3> QED BY <3>1, <3>2
  <2>5. a.c \in Points /\ st.c \in Points
    BY DEF StatementShape, AnnouncementShape
  <2>6. G(y) \in Points /\ Same(G(y)[1], y) /\ G(y)[1] \in Int
    BY <1>1, <2>5, PointOperations
  <2>7. Same(G(y)[1], x)
    BY <2>3, <2>6, SameIsEquivalence
  <2>8. Same(x, a.c[1] + c * st.c[1])
    BY <2>4, <2>5, <2>6, <2>7, Equation
  <2> QED BY <2>2, <2>8 DEF f
<1> QED BY <1>2, <1>3

----------------------------------------------------------------------------
(* Special soundness of the seal proof: announcements answered at two      *)
(* challenges leave no leg of the statement false.                         *)

Answered(st, a, r, c) == c \in Scalars /\ ResponseShape(r) /\ Accepts(st, a, r, c)

\* Of any statement, by whomever made, with any announcements: what is
\* encrypted under the key is what is committed to, limb by limb, the carry
\* equations hold modulo the order, and C is the weighted sum of the limbs
\* (linking.rs, carry.rs, verify).
THEOREM SpecialSoundness ==
  ASSUME NEW st, NEW a, NEW r, NEW s, NEW c, NEW d,
         StatementShape(st), AnnouncementShape(a),
         Answered(st, a, r, c), Answered(st, a, s, d), c # d
  PROVE  /\ \A k \in Limbs :
              /\ Same(st.d[k][1], st.com[k][1] + SecretKey * st.e[k][1])
              /\ Same(Residual(st, k)[1], 0)
         /\ Same(st.c[1], SumFunction([k \in Limbs |-> Weight(k) * st.com[k][1]]))
<1>1. Scalars \subseteq Int /\ SecretKey \in Int /\ Order \in Int /\ IsFiniteSet(Limbs)
  BY ScalarNumbers, ProofAssumption
<1>2. c \in Scalars /\ d \in Scalars /\ c \in Int /\ d \in Int /\ ResponseShape(r) /\ ResponseShape(s)
      /\ Accepts(st, a, r, c) /\ Accepts(st, a, s, d)
  BY <1>1 DEF Answered
<1>3. \A k \in Limbs :
        /\ Same(r.r[k], a.e[k][1] + c * st.e[k][1])
        /\ Same(r.v[k] + SecretKey * r.r[k], a.d[k][1] + c * st.d[k][1])
        /\ Same(r.v[k], a.com[k][1] + c * st.com[k][1])
        /\ Same(0, a.residual[k][1] + c * Residual(st, k)[1])
  BY <1>2, AcceptedLegs
<1>4. \A k \in Limbs :
        /\ Same(s.r[k], a.e[k][1] + d * st.e[k][1])
        /\ Same(s.v[k] + SecretKey * s.r[k], a.d[k][1] + d * st.d[k][1])
        /\ Same(s.v[k], a.com[k][1] + d * st.com[k][1])
        /\ Same(0, a.residual[k][1] + d * Residual(st, k)[1])
  BY <1>2, AcceptedLegs
<1>5. ASSUME NEW k \in Limbs
      PROVE  /\ Same(st.d[k][1], st.com[k][1] + SecretKey * st.e[k][1])
             /\ Same(r.v[k], s.v[k] + (c - d) * st.com[k][1])
             /\ Same(Residual(st, k)[1], 0)
  <2>1. /\ st.e[k] \in Points /\ st.d[k] \in Points /\ st.com[k] \in Points
        /\ a.e[k] \in Points /\ a.d[k] \in Points /\ a.com[k] \in Points
        /\ a.residual[k] \in Points /\ Residual(st, k) \in Points
        /\ r.v[k] \in Int /\ r.r[k] \in Int /\ s.v[k] \in Int /\ s.r[k] \in Int
    BY <1>1, <1>2, <1>5, Residuals DEF StatementShape, AnnouncementShape, ResponseShape
  <2>2. /\ st.e[k][1] \in Int /\ st.d[k][1] \in Int /\ st.com[k][1] \in Int
        /\ a.e[k][1] \in Int /\ a.d[k][1] \in Int /\ a.com[k][1] \in Int
        /\ a.residual[k][1] \in Int /\ Residual(st, k)[1] \in Int
    BY <1>1, <2>1 DEF Points
  <2>3. Same(Residual(st, k)[1], 0)
    BY <1>2, <1>3, <1>4, <2>2, TwoAnswers
  <2>4. /\ Same(r.r[k], a.e[k][1] + c * st.e[k][1])
        /\ Same(r.v[k] + SecretKey * r.r[k], a.d[k][1] + c * st.d[k][1])
        /\ Same(r.v[k], a.com[k][1] + c * st.com[k][1])
    BY <1>3
  <2>5. /\ Same(s.r[k], a.e[k][1] + d * st.e[k][1])
        /\ Same(s.v[k] + SecretKey * s.r[k], a.d[k][1] + d * st.d[k][1])
        /\ Same(s.v[k], a.com[k][1] + d * st.com[k][1])
    BY <1>4
  <2>6. /\ Same(st.d[k][1], st.com[k][1] + SecretKey * st.e[k][1])
        /\ Same(r.v[k], s.v[k] + (c - d) * st.com[k][1])
    BY <1>2, <2>1, <2>2, <2>4, <2>5, LegsAgree
  <2> QED BY <2>3, <2>6
<1> DEFINE f == [k \in Limbs |-> Times(Weight(k), r.v[k])]
           g == [k \in Limbs |-> Times(Weight(k), s.v[k])]
           h == [k \in Limbs |-> Weight(k) * st.com[k][1]]
<1>6. ASSUME NEW k \in Limbs
      PROVE  /\ Times(Weight(k), r.v[k]) \in Int /\ Times(Weight(k), s.v[k]) \in Int
             /\ Weight(k) * st.com[k][1] \in Int
             /\ Same(Times(Weight(k), r.v[k]),
                     Times(Weight(k), s.v[k]) + (c - d) * (Weight(k) * st.com[k][1]))
  <2>1. PICK w \in Int, x \in Int, y \in Int, v \in Int :
          w = Weight(k) /\ x = r.v[k] /\ y = s.v[k] /\ v = st.com[k][1]
    <3>1. r.v[k] \in Int /\ s.v[k] \in Int /\ Weight(k) \in Int
      BY <1>1, <1>2, Weights DEF ResponseShape
    <3>2. st.com[k] \in Points
      BY DEF StatementShape
    <3>3. st.com[k][1] \in Int
      BY <1>1, <3>2 DEF Points
    <3> QED BY <3>1, <3>3
  <2>2. PICK i \in Int : x = y + (c - d) * v + Order * i
    BY <1>5, <2>1 DEF Same
  <2>3. Times(w, x) \in Int /\ Times(w, y) \in Int /\ Same(Times(w, x), w * x) /\ Same(Times(w, y), w * y)
    BY <1>1, SameOperations
  <2>a. PICK m \in Int, n \in Int : m = Times(w, x) /\ n = Times(w, y)
    BY <2>3
  <2>4. PICK j \in Int : m = w * x + Order * j
    BY <2>3, <2>a DEF Same
  <2>5. PICK l \in Int : n = w * y + Order * l
    BY <2>3, <2>a DEF Same
  <2>6. w * x = w * y + (c - d) * (w * v) + Order * (w * i)
    BY <1>1, <1>2, <2>2
  <2>7. PICK p \in Int, q \in Int, t \in Int, z \in Int : p = w * x /\ q = w * y /\ t = (c - d) * (w * v) /\ z = w * i
    BY <1>2
  <2>b. m = p + Order * j /\ n = q + Order * l /\ p = q + t + Order * z
    BY <2>4, <2>5, <2>6, <2>7
  <2>8. z + j - l \in Int /\ m = n + t + Order * (z + j - l)
    BY <1>1, <2>b
  <2>9. Same(Times(w, x), Times(w, y) + (c - d) * (w * v))
    BY <2>a, <2>7, <2>8 DEF Same
  <2> QED BY <2>1, <2>3, <2>9
<1>7. /\ f \in [Limbs -> Int] /\ g \in [Limbs -> Int] /\ h \in [Limbs -> Int]
      /\ \A k \in Limbs : Same(f[k], g[k] + (c - d) * h[k])
  BY <1>6
<1> HIDE DEF f, g, h
<1>8. PICK x \in Int, y \in Int, z \in Int :
        /\ x = SumFunction(f) /\ y = SumFunction(g) /\ z = SumFunction(h)
        /\ Same(x, y + (c - d) * z)
  <2>1. PICK e \in Int : e = c - d
    BY <1>2
  <2>2. \A k \in Limbs : Same(f[k], g[k] + e * h[k])
    BY <1>7, <2>1
  <2>3. /\ SumFunction(f) \in Int /\ SumFunction(g) \in Int /\ SumFunction(h) \in Int
        /\ Same(SumFunction(f), SumFunction(g) + e * SumFunction(h))
    BY <1>1, <1>7, <2>2, SumsCombine
  <2> QED BY <2>1, <2>3
<1>9. st.c[1] \in Int /\ a.c[1] \in Int
  <2>1. st.c \in Points /\ a.c \in Points
    BY DEF StatementShape, AnnouncementShape
  <2> QED BY <1>1, <2>1 DEF Points
<1>10. PICK t \in Int, b \in Int : t = st.c[1] /\ b = a.c[1]
  BY <1>9
<1>11. Same(x, b + c * t) /\ Same(y, b + d * t)
  <2>1. Same(SumFunction(f), a.c[1] + c * st.c[1])
    BY <1>2, AcceptedLegs DEF f
  <2>2. Same(SumFunction(g), a.c[1] + d * st.c[1])
    BY <1>2, AcceptedLegs DEF g
  <2> QED BY <1>8, <1>10, <2>1, <2>2
<1>12. Same(c * (t - z), d * (t - z))
  <2>1. PICK i \in Int : x = b + c * t + Order * i
    BY <1>11 DEF Same
  <2>2. PICK j \in Int : y = b + d * t + Order * j
    BY <1>11 DEF Same
  <2>3. PICK l \in Int : x = y + (c - d) * z + Order * l
    BY <1>8 DEF Same
  <2>4. j + l - i \in Int /\ c * (t - z) = d * (t - z) + Order * (j + l - i)
    BY <1>1, <1>2, <2>1, <2>2, <2>3
  <2> QED BY <2>4 DEF Same
<1>13. Same(t - z, 0)
  <2>1. t - z \in Int
    OBVIOUS
  <2> QED BY <1>2, <1>12, <2>1, Cancel
<1>14. Same(t, z)
  <2>1. PICK i \in Int : t - z = 0 + Order * i
    BY <1>13 DEF Same
  <2>2. t = z + Order * i
    BY <1>1, <2>1
  <2> QED BY <2>2 DEF Same
<1> QED BY <1>5, <1>8, <1>10, <1>14 DEF h

----------------------------------------------------------------------------
(* The integer that limbs stand for.                                       *)

\* The weighted sum of the linking sigma is that integer, modulo the order.
LEMMA WeightedSum ==
  ASSUME NEW v \in [Limbs -> Int]
  PROVE  /\ SumFunction([k \in Limbs |-> Weight(k) * v[k]]) \in Int
         /\ Same(SumFunction([k \in Limbs |-> Weight(k) * v[k]]), Integer(v))
<1> DEFINE f == [k \in Limbs |-> Weight(k) * v[k]]
<1>1. LimbCount \in Nat /\ Scalars \subseteq Int /\ Order \in Int /\ IsFiniteSet(Limbs)
  BY ScalarNumbers
<1>2. f \in [Limbs -> Int]
  <2>1. \A k \in Limbs : Weight(k) \in Int /\ v[k] \in Int
    BY <1>1, Weights
  <2>2. \A k \in Limbs : Weight(k) * v[k] \in Int
    BY <2>1
  <2> QED BY <2>2
<1>3. PICK g : /\ g \in [0 .. LimbCount -> Int] /\ g[0] = 0 /\ g[LimbCount] = Integer(v)
               /\ \A k \in Limbs : g[k] = g[k - 1] + LimbPower[k - 1] * v[k]
  BY IntegerUnfolds
<1> DEFINE S(u) == SumFunction(Over(f, u))
           T == {k \in Nat : Same(S(1 .. k), g[k])}
<1>4. 0 \in T
  <2>1. 1 .. 0 = {} /\ {} \in SUBSET Limbs
    OBVIOUS
  <2> HIDE DEF f
  <2>2. S(1 .. 0) = 0
    BY <1>1, <1>2, <2>1, SumOverPart
  <2>3. 0 \in Int
    OBVIOUS
  <2>4. Same(0, 0)
    BY <2>3, SameIsEquivalence
  <2> QED BY <1>3, <2>2, <2>4
<1>5. ASSUME NEW k \in 0 .. LimbCount - 1, k \in T PROVE k + 1 \in T
  <2>1. k + 1 \in Limbs /\ (k + 1) - 1 = k /\ k \in 0 .. LimbCount
    BY <1>1 DEF Limbs
  <2>2. 1 .. k \in SUBSET Limbs /\ 1 .. k + 1 \in SUBSET Limbs /\ k + 1 \in 1 .. k + 1
        /\ (1 .. k + 1) \ {k + 1} = 1 .. k
    BY <1>1 DEF Limbs
  <2>3. PICK w \in Int, x \in Int, p \in Int : w = Weight(k + 1) /\ x = v[k + 1] /\ p = LimbPower[k]
                                               /\ Same(w, p)
    <3>1. Weight(k + 1) \in Int /\ v[k + 1] \in Int
      BY <1>1, <2>1, Weights
    <3>2. Same(Weight(k + 1), LimbPower[(k + 1) - 1]) /\ LimbPower[(k + 1) - 1] \in Int
      BY <2>1, Weights
    <3> QED BY <2>1, <3>1, <3>2
  <2>4. f[k + 1] = w * x
    BY <2>1, <2>3
  <2> HIDE DEF f
  <2>5. PICK s \in Int : s = S(1 .. k)
    BY <1>1, <1>2, <2>2, SumOverPart
  <2>6. S(1 .. k + 1) = w * x + s
    <3>1. PICK u \in SUBSET Limbs : u = 1 .. k + 1
      BY <2>2
    <3>2. \A z \in u : S(u) = f[z] + S(u \ {z})
      BY <1>1, <1>2, SumOverPart
    <3>3. S(u) = f[k + 1] + S(u \ {k + 1})
      BY <2>2, <3>1, <3>2
    <3> HIDE DEF S
    <3> QED BY <2>2, <2>4, <2>5, <3>1, <3>3
  <2>7. PICK y \in Int : y = g[k]
    BY <1>3, <2>1
  <2>8. g[k + 1] = y + p * x
    BY <1>3, <2>1, <2>3, <2>7
  <2>9. PICK i \in Int : w = p + Order * i
    BY <2>3 DEF Same
  <2>10. PICK j \in Int : s = y + Order * j
    BY <1>5, <2>5, <2>7 DEF Same
  <2>11. w * x + s = (y + p * x) + Order * (i * x + j) /\ i * x + j \in Int
    BY <1>1, <2>9, <2>10
  <2>12. Same(w * x + s, y + p * x)
    BY <2>11 DEF Same
  <2> QED BY <2>6, <2>8, <2>12
<1>6. LimbCount \in T
  <2> HIDE DEF T
  <2> QED BY <1>1, <1>4, <1>5, AllUpTo
<1>7. Over(f, 1 .. LimbCount) = f
  BY DEF Over, Limbs
<1>8. SumFunction(f) \in Int
  <2> HIDE DEF f
  <2> QED BY <1>1, <1>2, SumSplits
<1>9. Same(SumFunction(f), Integer(v))
  <2> HIDE DEF f
  <2> QED BY <1>3, <1>6, <1>7
<1> QED BY <1>8, <1>9

\* Limbs that are not negative stand for an integer that is not.
LEMMA IntegerIsNat ==
  ASSUME NEW v \in [Limbs -> Nat]
  PROVE  Integer(v) \in Nat
<1>1. LimbCount \in Nat /\ v \in [Limbs -> Int]
  BY ScalarNumbers
<1>2. PICK g : /\ g \in [0 .. LimbCount -> Int] /\ g[0] = 0 /\ g[LimbCount] = Integer(v)
               /\ \A k \in Limbs : g[k] = g[k - 1] + LimbPower[k - 1] * v[k]
  BY <1>1, IntegerUnfolds
<1> DEFINE T == {k \in Nat : g[k] \in Nat}
<1>3. 0 \in T
  BY <1>2
<1>4. ASSUME NEW k \in 0 .. LimbCount - 1, k \in T PROVE k + 1 \in T
  <2>1. k + 1 \in Limbs /\ (k + 1) - 1 = k /\ k \in 0 .. LimbCount
    BY <1>1 DEF Limbs
  <2>2. PICK p \in Nat, x \in Nat, y \in Nat : p = LimbPower[k] /\ x = v[k + 1] /\ y = g[k]
    BY <1>4, <2>1, LimbPowers
  <2>3. g[k + 1] = y + p * x
    BY <1>2, <2>1, <2>2
  <2>4. y + p * x \in Nat
    OBVIOUS
  <2> QED BY <2>3, <2>4
<1>5. LimbCount \in T
  <2> HIDE DEF T
  <2> QED BY <1>1, <1>3, <1>4, AllUpTo
<1> QED BY <1>2, <1>5

\* A carry chain that starts and ends with nothing adds integers.
LEMMA ChainAdds ==
  ASSUME NEW u \in [Limbs -> Int], NEW v \in [Limbs -> Int], NEW w \in [Limbs -> Int],
         NEW x \in [0 .. LimbCount -> Int], x[0] = 0, x[LimbCount] = 0,
         \A k \in Limbs : u[k] + v[k] + x[k - 1] = w[k] + LimbModulus * x[k]
  PROVE  Integer(u) + Integer(v) = Integer(w)
<1>1. LimbCount \in Nat /\ LimbModulus \in Int
  BY ScalarNumbers
<1>2. PICK f : /\ f \in [0 .. LimbCount -> Int] /\ f[0] = 0 /\ f[LimbCount] = Integer(u)
               /\ \A k \in Limbs : f[k] = f[k - 1] + LimbPower[k - 1] * u[k]
  BY IntegerUnfolds
<1>3. PICK g : /\ g \in [0 .. LimbCount -> Int] /\ g[0] = 0 /\ g[LimbCount] = Integer(v)
               /\ \A k \in Limbs : g[k] = g[k - 1] + LimbPower[k - 1] * v[k]
  BY IntegerUnfolds
<1>4. PICK h : /\ h \in [0 .. LimbCount -> Int] /\ h[0] = 0 /\ h[LimbCount] = Integer(w)
               /\ \A k \in Limbs : h[k] = h[k - 1] + LimbPower[k - 1] * w[k]
  BY IntegerUnfolds
<1> DEFINE T == {k \in Nat : f[k] + g[k] = h[k] + LimbPower[k] * x[k]}
<1>5. 0 \in T
  BY <1>2, <1>3, <1>4, LimbPowers
<1>6. ASSUME NEW k \in 0 .. LimbCount - 1, k \in T PROVE k + 1 \in T
  <2>1. k + 1 \in Limbs /\ (k + 1) - 1 = k /\ k \in 0 .. LimbCount /\ k + 1 \in 0 .. LimbCount
    BY <1>1 DEF Limbs
  <2>2. PICK p \in Int, a \in Int, b \in Int, c \in Int, i \in Int, o \in Int :
          p = LimbPower[k] /\ a = u[k + 1] /\ b = v[k + 1] /\ c = w[k + 1]
            /\ i = x[k] /\ o = x[k + 1]
    <3>1. LimbPower[k] \in Int /\ u[k + 1] \in Int /\ v[k + 1] \in Int /\ w[k + 1] \in Int
      BY <2>1, LimbPowers
    <3>2. x[k] \in Int /\ x[k + 1] \in Int
      BY <2>1
    <3> QED BY <3>1, <3>2
  <2>3. PICK y \in Int, z \in Int, t \in Int : y = f[k] /\ z = g[k] /\ t = h[k]
    BY <1>2, <1>3, <1>4, <2>1
  <2>4. f[k + 1] = y + p * a /\ g[k + 1] = z + p * b /\ h[k + 1] = t + p * c
    BY <1>2, <1>3, <1>4, <2>1, <2>2, <2>3
  <2>5. LimbPower[k + 1] = LimbModulus * p
    BY <2>1, <2>2, LimbPowers
  <2>6. a + b + i = c + LimbModulus * o
    BY <2>1, <2>2
  <2>7. y + z = t + p * i
    BY <1>6, <2>2, <2>3
  <2>8. (y + p * a) + (z + p * b) = t + p * (a + b + i)
    BY <2>7
  <2>9. p * (c + LimbModulus * o) = p * c + (LimbModulus * p) * o
    BY <1>1
  <2>10. (y + p * a) + (z + p * b) = t + (p * c + (LimbModulus * p) * o)
    BY <2>6, <2>8, <2>9
  <2>11. PICK q \in Int, r \in Int : q = p * c /\ r = (LimbModulus * p) * o
    BY <1>1
  <2>12. (y + p * a) + (z + p * b) = (t + q) + r
    BY <2>10, <2>11
  <2>13. f[k + 1] + g[k + 1] = h[k + 1] + LimbPower[k + 1] * x[k + 1]
    BY <2>2, <2>4, <2>5, <2>11, <2>12
  <2> QED BY <2>13
<1>7. LimbCount \in T
  <2>1. \A k \in 0 .. LimbCount - 1 : k \in T => k + 1 \in T
    BY <1>6
  <2> HIDE DEF T
  <2>2. \A k \in 0 .. LimbCount : k \in T
    BY <1>1, <1>5, <2>1, AllUpTo
  <2> QED BY <1>1, <2>2
<1>8. LimbPower[LimbCount] \in Int /\ h[LimbCount] \in Int
  BY <1>1, <1>4, LimbPowers
<1> QED BY <1>2, <1>3, <1>4, <1>7, <1>8

----------------------------------------------------------------------------
(* The carry chain of carry_commit.                                        *)

LEMMA CarriesUnfold ==
  ASSUME NEW v \in [Limbs -> Int], NEW vBar \in [Limbs -> Int]
  PROVE  LET out == CarriesOut(v, vBar)
         IN  /\ out \in [0 .. LimbCount -> Int] /\ out[0] = 0
             /\ \A k \in Limbs : out[k] = (v[k] + vBar[k] + out[k - 1]) \div LimbModulus
<1> DEFINE Eq(h) == h = [k \in 0 .. LimbCount |->
                          IF k = 0 THEN 0 ELSE (v[k] + vBar[k] + h[k - 1]) \div LimbModulus]
           step == [k \in 1 .. LimbCount |-> [x \in Int |-> (v[k] + vBar[k] + x) \div LimbModulus]]
           out == CarriesOut(v, vBar)
<1>1. LimbCount \in Nat /\ LimbModulus \in Nat \ {0}
  BY ScalarNumbers
<1>2. \A k \in 1 .. LimbCount : \A x \in Int : (v[k] + vBar[k] + x) \div LimbModulus \in Int
  <2> SUFFICES ASSUME NEW k \in 1 .. LimbCount, NEW x \in Int
               PROVE  (v[k] + vBar[k] + x) \div LimbModulus \in Int
    OBVIOUS
  <2>1. v[k] + vBar[k] + x \in Int
    BY DEF Limbs
  <2> QED BY <1>1, <2>1
<1>3. Steps(LimbCount, step)
  BY <1>1, <1>2 DEF Steps
<1> HIDE DEF step
<1>4. PICK h : Solves(h, LimbCount, 0, step)
  BY <1>1, <1>3, Recursion
<1>5. \A k \in 1 .. LimbCount : step[k][h[k - 1]] = (v[k] + vBar[k] + h[k - 1]) \div LimbModulus
  <2>1. \A k \in 1 .. LimbCount : h[k - 1] \in Int
    BY <1>1, <1>4 DEF Solves
  <2> QED BY <2>1 DEF step
<1>6. Eq(h)
  BY <1>1, <1>4, <1>5 DEF Solves
<1>7. Eq(out)
  <2>1. out = CHOOSE g : Eq(g)
    BY DEF CarriesOut
  <2> HIDE DEF Eq, out
  <2> QED BY <1>6, <2>1
<1> HIDE DEF out
<1>8. out[0] = 0 /\ \A k \in Limbs : out[k] = (v[k] + vBar[k] + out[k - 1]) \div LimbModulus
  BY <1>1, <1>7 DEF Limbs
<1>9. ASSUME NEW k \in 0 .. LimbCount PROVE out[k] \in Int
  <2> DEFINE T == {i \in Nat : out[i] \in Int}
  <2>1. 0 \in T
    BY <1>8
  <2>2. ASSUME NEW i \in 0 .. LimbCount - 1, i \in T PROVE i + 1 \in T
    <3>1. i + 1 \in 1 .. LimbCount /\ (i + 1) - 1 = i /\ out[i] \in Int
      BY <1>1, <2>2
    <3>2. out[i + 1] = (v[i + 1] + vBar[i + 1] + out[i]) \div LimbModulus
      <4> HIDE DEF Eq, T
      <4> QED BY <1>8, <3>1 DEF Limbs
    <3>3. out[i + 1] \in Int
      <4> HIDE DEF Eq, T
      <4> QED BY <1>2, <3>1, <3>2
    <3> HIDE DEF Eq
    <3> QED BY <3>3
  <2>3. \A i \in 0 .. LimbCount : i \in T
    <3> HIDE DEF T
    <3> QED BY <1>1, <2>1, <2>2, AllUpTo
  <2> QED BY <2>3
<1>10. out \in [0 .. LimbCount -> Int]
  BY <1>7, <1>9
<1> HIDE DEF Eq
<1> QED BY <1>8, <1>10 DEF out

\* The limbs of m and of n - 1 - m add up to those of n - 1, with a carry of
\* at most one out of every limb and none out of the last: a carry is what the
\* quotients of the two leave of that of n - 1.
LEMMA CarriesCloseOnOrder ==
  ASSUME NEW m \in Scalars
  PROVE  LET v == Decompose(m)
             vBar == Decompose(Complement(m))
             out == CarriesOut(v, vBar)
         IN  /\ Complement(m) \in Scalars
             /\ CarriesClose(v, vBar)
             /\ out \in [0 .. LimbCount -> 0 .. 1] /\ out[0] = 0 /\ out[LimbCount] = 0
             /\ \A k \in Limbs :
                  v[k] + vBar[k] + out[k - 1] = LastScalar[k] + LimbModulus * out[k]
<1> DEFINE mBar == Complement(m)
           last == Order - 1
           v == Decompose(m)
           vBar == Decompose(mBar)
           out == CarriesOut(v, vBar)
<1>1. /\ m \in Nat /\ mBar \in Nat /\ last \in Nat /\ last = m + mBar
      /\ m < Order /\ mBar < Order /\ last < Order /\ mBar \in Scalars
  BY ScalarNumbers DEF Scalars, Complement
<1>2. LimbCount \in Nat \ {0} /\ LimbModulus \in Nat \ {0, 1}
  BY ScalarNumbers
<1> HIDE DEF mBar, last
<1>3. /\ v \in [Limbs -> 0 .. LimbModulus - 1] /\ vBar \in [Limbs -> 0 .. LimbModulus - 1]
  <2>1. \A k \in Limbs : v[k] \in 0 .. LimbModulus - 1 /\ vBar[k] \in 0 .. LimbModulus - 1
    BY <1>1, LimbsAreDigits
  <2> QED BY <2>1 DEF Decompose
<1>4. \A k \in Limbs : LastScalar[k] \in 0 .. LimbModulus - 1
  BY <1>1, LimbsAreDigits DEF LastScalar, last
<1>5. /\ out \in [0 .. LimbCount -> Int] /\ out[0] = 0
      /\ \A k \in Limbs : out[k] = (v[k] + vBar[k] + out[k - 1]) \div LimbModulus
  <2>1. v \in [Limbs -> Int] /\ vBar \in [Limbs -> Int]
    BY <1>2, <1>3
  <2> HIDE DEF v, vBar
  <2> QED BY <2>1, CarriesUnfold
<1>6. ASSUME NEW k \in Limbs
      PROVE  /\ m \div LimbPower[k - 1] = LimbModulus * (m \div LimbPower[k]) + v[k]
             /\ mBar \div LimbPower[k - 1] = LimbModulus * (mBar \div LimbPower[k]) + vBar[k]
             /\ last \div LimbPower[k - 1] = LimbModulus * (last \div LimbPower[k]) + LastScalar[k]
  BY <1>1, LimbsAreDigits DEF LastScalar, last
<1>7. \A k \in 0 .. LimbCount : /\ m \div LimbPower[k] \in Nat
                               /\ mBar \div LimbPower[k] \in Nat
                               /\ last \div LimbPower[k] \in Nat
  BY <1>1, LimbsAreDigits
<1>8. /\ m \div LimbPower[0] = m /\ mBar \div LimbPower[0] = mBar /\ last \div LimbPower[0] = last
      /\ m \div LimbPower[LimbCount] = 0 /\ mBar \div LimbPower[LimbCount] = 0
      /\ last \div LimbPower[LimbCount] = 0
  BY <1>1, LimbsAreDigits
<1> HIDE DEF v, vBar, out
<1> DEFINE Left(k) == (last \div LimbPower[k]) - (m \div LimbPower[k]) - (mBar \div LimbPower[k])
           T == {k \in Nat : out[k] = Left(k)}
\* Of one limb, whose carry in is what the quotients leave.
<1>9. ASSUME NEW k \in Limbs, out[k - 1] = Left(k - 1)
      PROVE  /\ v[k] + vBar[k] + out[k - 1] = LastScalar[k] + LimbModulus * Left(k)
             /\ (v[k] + vBar[k] + out[k - 1]) \div LimbModulus = Left(k)
             /\ (v[k] + vBar[k] + out[k - 1]) % LimbModulus = LastScalar[k]
  <2>1. k \in 0 .. LimbCount /\ k - 1 \in 0 .. LimbCount
    BY <1>2 DEF Limbs
  <2>2. PICK a \in Int, b \in Int, c \in Int :
          a = m \div LimbPower[k] /\ b = mBar \div LimbPower[k] /\ c = last \div LimbPower[k]
    BY <1>7, <2>1
  <2>3. PICK x \in Int, y \in Int, z \in 0 .. LimbModulus - 1 :
          x = v[k] /\ y = vBar[k] /\ z = LastScalar[k]
    BY <1>3, <1>4
  <2>4. Left(k - 1) = (LimbModulus * c + z) - (LimbModulus * a + x) - (LimbModulus * b + y)
    BY <1>6, <2>2, <2>3
  <2>5. PICK q \in Int : q = c - a - b
    OBVIOUS
  <2>6. Left(k) = q
    BY <2>2, <2>5
  <2> HIDE DEF Left
  <2>7. v[k] + vBar[k] + out[k - 1] = LimbModulus * q + z
    BY <1>2, <1>9, <2>3, <2>4, <2>5
  <2>8. (LimbModulus * q + z) \div LimbModulus = q /\ (LimbModulus * q + z) % LimbModulus = z
    BY <1>2, DivisionUnique
  <2> QED BY <1>2, <2>3, <2>6, <2>7, <2>8
<1>10. ASSUME NEW k \in 0 .. LimbCount PROVE out[k] = Left(k)
  <2>1. 0 \in T
    BY <1>1, <1>5, <1>8
  <2>2. ASSUME NEW i \in 0 .. LimbCount - 1, i \in T PROVE i + 1 \in T
    <3>1. i + 1 \in Limbs /\ (i + 1) - 1 = i
      BY <1>2 DEF Limbs
    <3>2. out[i + 1] = Left(i + 1)
      <4>1. out[i] = Left(i)
        BY <2>2
      <4> HIDE DEF Left, T
      <4> QED BY <1>5, <1>9, <3>1, <4>1
    <3> HIDE DEF Left
    <3> QED BY <3>2
  <2>3. \A i \in 0 .. LimbCount : i \in T
    <3> HIDE DEF T
    <3> QED BY <1>2, <2>1, <2>2, AllUpTo
  <2> HIDE DEF Left
  <2> QED BY <2>3
<1>11. ASSUME NEW k \in Limbs
       PROVE  /\ v[k] + vBar[k] + out[k - 1] = LastScalar[k] + LimbModulus * out[k]
              /\ (v[k] + vBar[k] + out[k - 1]) % LimbModulus = LastScalar[k]
  <2>1. k \in 0 .. LimbCount /\ k - 1 \in 0 .. LimbCount
    BY <1>2 DEF Limbs
  <2>2. out[k - 1] = Left(k - 1) /\ out[k] = Left(k)
    BY <1>10, <2>1
  <2> HIDE DEF Left
  <2> QED BY <1>9, <2>2
<1>12. out[LimbCount] = 0
  BY <1>2, <1>8, <1>10
<1>13. CarriesClose(v, vBar)
  BY <1>11, <1>12 DEF CarriesClose, out
<1>14. ASSUME NEW k \in 0 .. LimbCount PROVE out[k] \in 0 .. 1
  <2> DEFINE U == {i \in Nat : out[i] \in 0 .. 1}
  <2>1. 0 \in U
    BY <1>5
  <2>2. ASSUME NEW i \in 0 .. LimbCount - 1, i \in U PROVE i + 1 \in U
    <3>1. i + 1 \in Limbs /\ (i + 1) - 1 = i /\ i + 1 \in 0 .. LimbCount
      BY <1>2 DEF Limbs
    <3>2. PICK x \in 0 .. LimbModulus - 1, y \in 0 .. LimbModulus - 1, z \in 0 .. LimbModulus - 1,
               c \in 0 .. 1, o \in Int :
            x = v[i + 1] /\ y = vBar[i + 1] /\ z = LastScalar[i + 1] /\ c = out[i] /\ o = out[i + 1]
      <4>1. out[i + 1] \in Int /\ out[i] \in 0 .. 1
        BY <1>5, <2>2, <3>1
      <4> QED BY <1>3, <1>4, <3>1, <4>1
    <3>3. x + y + c = z + LimbModulus * o
      BY <1>11, <3>1, <3>2
    <3>4. o >= 2 => LimbModulus * o >= 2 * LimbModulus
      BY <1>2
    <3>5. o <= -1 => LimbModulus * o <= -LimbModulus
      BY <1>2
    <3>6. PICK p \in Int : p = LimbModulus * o
      BY <1>2
    <3>7. o \in 0 .. 1
      BY <1>2, <3>3, <3>4, <3>5, <3>6
    <3> QED BY <3>2, <3>7
  <2>3. \A i \in 0 .. LimbCount : i \in U
    <3> HIDE DEF U
    <3> QED BY <1>2, <2>1, <2>2, AllUpTo
  <2> QED BY <2>3
<1>15. out \in [0 .. LimbCount -> 0 .. 1]
  BY <1>5, <1>14
<1> QED BY <1>1, <1>5, <1>11, <1>12, <1>13, <1>15 DEF out, v, vBar, mBar

----------------------------------------------------------------------------
(* The states of the model.                                                *)

\* What any sealer commits to and encrypts.
Committed(w) ==
  /\ w.v \in LimbValues /\ w.vBar \in LimbValues /\ w.carry \in [Carries -> 0 .. 1]
  /\ w.encrypted \in [Limbs -> Scalars] /\ w.target \in Scalars /\ w.seed \in Seeds

\* What seal does.
SealedAs(w, m) ==
  /\ w.v = Decompose(m) /\ w.vBar = Decompose(Complement(m)) /\ w.encrypted = w.v
  /\ w.carry = [k \in Carries |-> CarriesOut(w.v, w.vBar)[k]] /\ w.target = m

ProofInv ==
  /\ sealer \in {"nobody", "seal", "other"} /\ guess \in Scalars
  /\ sealer # "other" => guess = 0
  /\ sealer # "nobody" => Committed(witness)
  /\ sealer = "seal" => \E m \in Scalars : SealedAs(witness, m)

LEMMA LimbRanges ==
  /\ 0 .. LimbModulus - 1 \subseteq Scalars /\ 0 .. 1 \subseteq Scalars
  /\ Carries \subseteq Limbs
<1>1. LimbModulus <= Order /\ Order \in Nat \ {0, 1} /\ LimbModulus \in Nat /\ LimbCount \in Nat
  BY AlgebraAssumption
<1> QED BY <1>1 DEF Scalars, Carries, Limbs

LEMMA ProofInvariant == Spec => []ProofInv
<1>1. Init => ProofInv
  BY ScalarNumbers DEF Init, ProofInv
<1>2. ASSUME ProofInv, [Next]_vars PROVE ProofInv'
  <2>1. CASE UNCHANGED vars
    BY <1>2, <2>1 DEF ProofInv, vars, Committed, SealedAs
  <2>2. ASSUME NEW m \in Scalars, NEW seed \in Seeds, Seal(m, seed) PROVE ProofInv'
    <3>1. /\ sealer = "nobody" /\ sealer' = "seal" /\ guess' = guess
          /\ witness' = [ v |-> Decompose(m), vBar |-> Decompose(Complement(m)),
                          encrypted |-> Decompose(m),
                          carry |-> [k \in Carries |->
                                      CarriesOut(Decompose(m), Decompose(Complement(m)))[k]],
                          target |-> m, seed |-> seed ]
      BY <2>2 DEF Seal
    <3>2. SealedAs(witness', m)
      BY <3>1 DEF SealedAs
    <3>3. Committed(witness')
      <4>1. Complement(m) \in Scalars
        BY CarriesCloseOnOrder
      <4>2. Decompose(m) \in LimbValues /\ Decompose(Complement(m)) \in LimbValues
        BY <4>1, IntegerOfDigits DEF LimbValues
      <4>3. Decompose(m) \in [Limbs -> Scalars]
        BY <4>2, LimbRanges DEF LimbValues
      <4>4. CarriesOut(Decompose(m), Decompose(Complement(m))) \in [0 .. LimbCount -> 0 .. 1]
        BY CarriesCloseOnOrder
      <4>5. Carries \subseteq 0 .. LimbCount
        BY ScalarNumbers DEF Carries
      <4>6. witness'.carry \in [Carries -> 0 .. 1]
        BY <3>1, <4>4, <4>5
      <4> QED BY <3>1, <4>2, <4>3, <4>6 DEF Committed
    <3> QED BY <1>2, <3>1, <3>2, <3>3 DEF ProofInv
  <2>3. ASSUME NEW v \in LimbValues, NEW vBar \in LimbValues, NEW carry \in [Carries -> 0 .. 1],
               NEW limb \in Limbs, NEW value \in OtherValues, NEW delta \in Targets,
               NEW seed \in Seeds, NEW bet \in Guesses,
               SealOtherwise(v, vBar, carry, limb, value, delta, seed, bet)
        PROVE  ProofInv'
    <3>1. /\ sealer' = "other" /\ guess' = bet
          /\ witness' = [ v |-> v, vBar |-> vBar, carry |-> carry,
                          encrypted |-> [v EXCEPT ![limb] = value],
                          target |-> Plus(Recompose(v), delta), seed |-> seed ]
      BY <2>3 DEF SealOtherwise
    <3>2. bet \in Scalars /\ value \in Scalars /\ delta \in Scalars /\ delta \in Int
      BY ProofAssumption, ScalarNumbers
    <3>3. [v EXCEPT ![limb] = value] \in [Limbs -> Scalars]
      BY <3>2, LimbRanges DEF LimbValues
    <3>4. Plus(Recompose(v), delta) \in Scalars
      <4>1. v \in [Limbs -> Int]
        BY ScalarNumbers, LimbRanges DEF LimbValues
      <4>2. Recompose(v) \in Int
        BY <4>1, RecomposeIsInteger, ScalarNumbers
      <4> QED BY <3>2, <4>2, SameOperations
    <3>5. Committed(witness')
      BY <3>1, <3>3, <3>4 DEF Committed
    <3> QED BY <3>1, <3>2, <3>5 DEF ProofInv
  <2> QED BY <1>2, <2>1, <2>2, <2>3 DEF Next
<1> QED BY <1>1, <1>2, PTL DEF Spec

LEMMA Draws ==
  ASSUME NEW w, Committed(w), NEW k \in Limbs,
         NEW kind \in {"r", "s", "sBar", "g", "alpha", "beta", "gamma", "rho"}
  PROVE  Draw(w.seed, kind, k) \in Scalars /\ Draw(w.seed, kind, k) \in Int
BY ProofAssumption, ScalarNumbers DEF Committed

\* The weighted sum in the group, of any numbers.
Weighed(f) == SumOver(LAMBDA k : Times(Weight(k), f[k]), Limbs)

LEMMA WeighedSums ==
  ASSUME NEW f \in [Limbs -> Int]
  PROVE  Weighed(f) \in Scalars /\ Same(Weighed(f), Integer(f))
<1>1. Scalars \subseteq Int /\ Order \in Int /\ IsFiniteSet(Limbs) /\ 0 \in Int /\ Integer(f) \in Int
  BY ScalarNumbers, RecomposeIsInteger
<1> DEFINE t == [k \in Limbs |-> Times(Weight(k), f[k])]
           p == [k \in Limbs |-> Weight(k) * f[k]]
<1>2. \A k \in Limbs : /\ Times(Weight(k), f[k]) \in Int /\ Weight(k) * f[k] \in Int
                      /\ Same(Times(Weight(k), f[k]), Weight(k) * f[k])
  <2> SUFFICES ASSUME NEW k \in Limbs
               PROVE  /\ Times(Weight(k), f[k]) \in Int /\ Weight(k) * f[k] \in Int
                      /\ Same(Times(Weight(k), f[k]), Weight(k) * f[k])
    OBVIOUS
  <2>1. Weight(k) \in Int /\ f[k] \in Int
    BY <1>1, Weights
  <2>2. Weight(k) * f[k] \in Int
    BY <2>1
  <2> QED BY <1>1, <2>1, <2>2, SameOperations
<1>3. t \in [Limbs -> Int] /\ p \in [Limbs -> Int] /\ \A k \in Limbs : Same(t[k], p[k] + 0 * p[k])
  <2>1. \A k \in Limbs : p[k] + 0 * p[k] = p[k]
    BY <1>2
  <2>2. \A k \in Limbs : Same(t[k], p[k])
    BY <1>2
  <2>3. t \in [Limbs -> Int] /\ p \in [Limbs -> Int]
    BY <1>2
  <2> HIDE DEF t, p
  <2> QED BY <2>1, <2>2, <2>3
<1>4. Weighed(f) = SumFunction(t) % Order
  BY DEF Weighed, SumOver
<1>5. SumFunction(p) \in Int /\ Same(SumFunction(p), Integer(f))
  BY WeightedSum
<1> HIDE DEF t, p
<1>6. SumFunction(t) \in Int /\ Same(SumFunction(t), SumFunction(p) + 0 * SumFunction(p))
  BY <1>1, <1>3, SumsCombine
<1>7. PICK x \in Int, y \in Int, z \in Int : x = SumFunction(t) /\ y = SumFunction(p) /\ z = Integer(f)
  BY <1>1, <1>5, <1>6
<1>8. Same(x, y) /\ Same(y, z)
  <2>1. y + 0 * y = y
    OBVIOUS
  <2> QED BY <1>5, <1>6, <1>7, <2>1
<1>9. x % Order \in Scalars /\ Same(x % Order, x) /\ x % Order \in Int
  BY <1>1, SameReduces
<1>10. Same(x % Order, z)
  BY <1>8, <1>9, SameIsEquivalence
<1> QED BY <1>4, <1>7, <1>9, <1>10

\* The two sums that a sealer announces.
LEMMA AnnouncedSum ==
  ASSUME NEW w, Committed(w), NEW bet
  PROVE  LET alpha == [k \in Limbs |-> Draw(w.seed, "alpha", k)]
         IN  /\ alpha \in [Limbs -> Int] /\ w.encrypted \in [Limbs -> Int]
             /\ Announcements(w, bet).c
                  = Sub(G(Weighed(alpha)), Scale(bet, Sub(G(w.target), G(Weighed(w.encrypted)))))
<1> DEFINE alpha == [k \in Limbs |-> Draw(w.seed, "alpha", k)]
<1>1. alpha \in [Limbs -> Int] /\ w.encrypted \in [Limbs -> Int]
  BY Draws, ScalarNumbers DEF Committed
<1>2. SumOver(LAMBDA k : Times(Weight(k), Draw(w.seed, "alpha", k)), Limbs) = Weighed(alpha)
  <2>1. [k \in Limbs |-> Times(Weight(k), Draw(w.seed, "alpha", k))]
          = [k \in Limbs |-> Times(Weight(k), alpha[k])]
    OBVIOUS
  <2> HIDE DEF alpha
  <2> QED BY <2>1 DEF SumOver, Weighed
<1>3. SumOver(LAMBDA k : Times(Weight(k), w.encrypted[k]), Limbs) = Weighed(w.encrypted)
  BY DEF SumOver, Weighed
<1>4. Announcements(w, bet).c
        = Sub(G(SumOver(LAMBDA k : Times(Weight(k), Draw(w.seed, "alpha", k)), Limbs)),
              Scale(bet, Sub(G(w.target),
                             G(SumOver(LAMBDA k : Times(Weight(k), w.encrypted[k]), Limbs)))))
  BY DEF Announcements, Statement
<1> QED BY <1>1, <1>2, <1>3, <1>4

\* Statements of such a witness, and what is announced and answered of it.
LEMMA Shapes ==
  ASSUME NEW w, Committed(w), NEW bet \in Scalars, NEW c \in Scalars
  PROVE  /\ StatementShape(Statement(w))
         /\ AnnouncementShape(Announcements(w, bet))
         /\ ResponseShape(Responses(w, c))
         /\ \A k \in Limbs : ResidualWitness(w, k) \in Scalars
<1>1. Scalars \subseteq Int /\ SecretKey \in Int /\ IsFiniteSet(Limbs) /\ LimbModulus % Order \in Int
  BY ScalarNumbers, ProofAssumption
<1>2. \A k \in Limbs :
        /\ w.v[k] \in Scalars /\ w.vBar[k] \in Scalars /\ w.encrypted[k] \in Scalars
        /\ w.v[k] \in Int /\ w.encrypted[k] \in Int
  BY <1>1, LimbRanges DEF Committed, LimbValues
<1>3. \A k \in Carries : w.carry[k] \in Scalars /\ k \in Limbs
  BY LimbRanges DEF Committed
<1>4. w.target \in Int /\ c \in Int /\ bet \in Int
  BY <1>1 DEF Committed
<1>5. ASSUME NEW x \in Int PROVE G(x) \in Points /\ HPoint(x) \in Points
  <2>1. x % Order \in Scalars /\ 0 \in Scalars
    BY SameReduces, ScalarNumbers
  <2> QED BY <2>1 DEF G, HPoint, Points
<1>6. ASSUME NEW p \in Points, NEW q \in Points, NEW s \in Int
      PROVE  Sub(p, q) \in Points /\ Scale(s, p) \in Points
  BY PointOperations
<1>7. StatementShape(Statement(w))
  <2>1. ASSUME NEW k \in Limbs
        PROVE  /\ G(Draw(w.seed, "r", k)) \in Points
               /\ G(w.encrypted[k] + SecretKey * Draw(w.seed, "r", k)) \in Points
               /\ <<w.v[k], Draw(w.seed, "s", k)>> \in Points
               /\ <<w.vBar[k], Draw(w.seed, "sBar", k)>> \in Points
    <3>1. Draw(w.seed, "r", k) \in Int /\ Draw(w.seed, "s", k) \in Scalars
          /\ Draw(w.seed, "sBar", k) \in Scalars
      BY Draws
    <3>2. w.encrypted[k] + SecretKey * Draw(w.seed, "r", k) \in Int
      BY <1>1, <1>2, <3>1
    <3> QED BY <1>2, <1>5, <3>1, <3>2 DEF Points
  <2>2. ASSUME NEW k \in Carries PROVE <<w.carry[k], Draw(w.seed, "g", k)>> \in Points
    BY <1>3, Draws DEF Points
  <2>3. G(w.target) \in Points
    BY <1>4, <1>5
  <2> QED BY <2>1, <2>2, <2>3 DEF StatementShape, Statement
<1>8. \A k \in Limbs : ResidualWitness(w, k) \in Scalars
  <2> SUFFICES ASSUME NEW k \in Limbs PROVE ResidualWitness(w, k) \in Scalars
    OBVIOUS
  <2>1. Residual(Statement(w), k)[2] \in Scalars
    <3>1. Residual(Statement(w), k) \in Points
      BY <1>7, Residuals
    <3> QED BY <3>1 DEF Points
  <2> DEFINE g(i) == IF i \in Carries THEN Draw(w.seed, "g", i) ELSE 0
  <2>2. \A i \in Int : g(i) \in Int
    BY <1>3, Draws
  <2>3. k \in Int /\ k - 1 \in Int /\ Draw(w.seed, "s", k) \in Int /\ Draw(w.seed, "sBar", k) \in Int
    <3>1. k \in Int /\ k - 1 \in Int
      BY ScalarNumbers DEF Limbs
    <3>2. Draw(w.seed, "s", k) \in Int /\ Draw(w.seed, "sBar", k) \in Int
      BY <1>1, <3>1, Draws
    <3> QED BY <3>1, <3>2
  <2>4. g(k) \in Int /\ g(k - 1) \in Int
    BY <2>2, <2>3
  <2> HIDE DEF g
  <2>5. Plus(Draw(w.seed, "s", k), Draw(w.seed, "sBar", k)) \in Int
    BY <1>1, <2>3, SameOperations
  <2>6. Plus(Plus(Draw(w.seed, "s", k), Draw(w.seed, "sBar", k)), g(k - 1)) \in Int
        /\ Times(LimbModulus % Order, g(k)) \in Int
    BY <1>1, <2>4, <2>5, SameOperations
  <2>7. Minus(Plus(Plus(Draw(w.seed, "s", k), Draw(w.seed, "sBar", k)), g(k - 1)),
              Times(LimbModulus % Order, g(k))) \in Scalars
    BY <2>6, SameOperations
  <2> QED BY <2>1, <2>7 DEF ResidualWitness, g
<1>9. AnnouncementShape(Announcements(w, bet))
  <2>1. ASSUME NEW k \in Limbs
        PROVE  /\ G(Draw(w.seed, "beta", k)) \in Points
               /\ G(Draw(w.seed, "alpha", k) + SecretKey * Draw(w.seed, "beta", k)) \in Points
               /\ Sub(<<Draw(w.seed, "alpha", k), Draw(w.seed, "gamma", k)>>,
                      Scale(bet, Sub(G(w.v[k]), G(w.encrypted[k])))) \in Points
               /\ Sub(HPoint(Draw(w.seed, "rho", k)),
                      Scale(bet, Sub(Residual(Statement(w), k), HPoint(ResidualWitness(w, k)))))
                    \in Points
    <3>1. /\ Draw(w.seed, "beta", k) \in Int /\ Draw(w.seed, "alpha", k) \in Int
          /\ Draw(w.seed, "rho", k) \in Int
          /\ Draw(w.seed, "alpha", k) + SecretKey * Draw(w.seed, "beta", k) \in Int
      BY <1>1, Draws
    <3>2. <<Draw(w.seed, "alpha", k), Draw(w.seed, "gamma", k)>> \in Points
      BY Draws DEF Points
    <3>3. ResidualWitness(w, k) \in Int /\ Residual(Statement(w), k) \in Points
      BY <1>1, <1>7, <1>8, Residuals
    <3>4. /\ G(w.v[k]) \in Points /\ G(w.encrypted[k]) \in Points
          /\ HPoint(ResidualWitness(w, k)) \in Points /\ HPoint(Draw(w.seed, "rho", k)) \in Points
      BY <1>2, <1>5, <3>1, <3>3
    <3> QED BY <1>4, <1>5, <1>6, <3>1, <3>2, <3>3, <3>4
  <2>2. Announcements(w, bet).c \in Points
    <3> DEFINE alpha == [k \in Limbs |-> Draw(w.seed, "alpha", k)]
    <3>1. /\ alpha \in [Limbs -> Int] /\ w.encrypted \in [Limbs -> Int]
          /\ Announcements(w, bet).c
               = Sub(G(Weighed(alpha)), Scale(bet, Sub(G(w.target), G(Weighed(w.encrypted)))))
      BY AnnouncedSum
    <3> HIDE DEF alpha
    <3>2. Weighed(alpha) \in Int /\ Weighed(w.encrypted) \in Int
      BY <1>1, <3>1, WeighedSums
    <3>3. G(Weighed(alpha)) \in Points /\ G(w.target) \in Points /\ G(Weighed(w.encrypted)) \in Points
      BY <1>4, <1>5, <3>2
    <3> QED BY <1>4, <1>6, <3>1, <3>3
  <2> QED BY <2>1, <2>2 DEF AnnouncementShape, Announcements
<1>10. ResponseShape(Responses(w, c))
  <2>1. ASSUME NEW x \in Int, NEW y \in Int PROVE Plus(x, Times(c, y)) \in Scalars
    BY <1>1, <1>4, SameOperations
  <2>2. ASSUME NEW k \in Limbs
        PROVE  /\ Plus(Draw(w.seed, "alpha", k), Times(c, w.encrypted[k])) \in Scalars
               /\ Plus(Draw(w.seed, "beta", k), Times(c, Draw(w.seed, "r", k))) \in Scalars
               /\ Plus(Draw(w.seed, "gamma", k), Times(c, Draw(w.seed, "s", k))) \in Scalars
               /\ Plus(Draw(w.seed, "rho", k), Times(c, ResidualWitness(w, k))) \in Scalars
    BY <1>1, <1>2, <1>8, <2>1, Draws
  <2> QED BY <2>2 DEF ResponseShape, Responses
<1> QED BY <1>7, <1>8, <1>9, <1>10

----------------------------------------------------------------------------
(* What two challenges accept opens.                                       *)

LEMMA TwoChallenges ==
  ASSUME Sound
  PROVE  \E c \in AcceptedAt : \E d \in AcceptedAt : c # d
<1>1. Cardinality(AcceptedAt) >= 2
  BY DEF Sound
<1>2. Cardinality({}) = 0
  BY FS_EmptySet
<1>3. PICK c \in AcceptedAt : TRUE
  <2>1. AcceptedAt # {}
    BY <1>1, <1>2
  <2> QED BY <2>1
<1>4. Cardinality({c}) = 1
  BY FS_Singleton
<1>5. AcceptedAt # {c}
  BY <1>1, <1>4
<1> QED BY <1>3, <1>5

\* The statement of a sound state: every leg is true of it.
LEMMA SoundLegs ==
  ASSUME ProofInv, Sound
  PROVE  /\ Committed(witness) /\ InRange(witness) /\ StatementShape(Statement(witness))
         /\ \A k \in Limbs :
              /\ Same(Statement(witness).d[k][1],
                      witness.v[k] + SecretKey * Statement(witness).e[k][1])
              /\ Same(Residual(Statement(witness), k)[1], 0)
         /\ Same(witness.target, Integer(witness.v))
<1> DEFINE st == Statement(witness)
           a == Announcements(witness, guess)
<1>1. Committed(witness) /\ guess \in Scalars
  BY DEF ProofInv, Sound
<1>2. PICK c \in AcceptedAt, d \in AcceptedAt : c # d
  BY TwoChallenges
<1>3. /\ c \in Scalars /\ d \in Scalars /\ InRange(witness)
      /\ CarryVerifies(st, a, Responses(witness, c), c)
      /\ LinkingVerifies(st, a, Responses(witness, c), c)
      /\ CarryVerifies(st, a, Responses(witness, d), d)
      /\ LinkingVerifies(st, a, Responses(witness, d), d)
  BY <1>2 DEF AcceptedAt
<1>4. /\ StatementShape(st) /\ AnnouncementShape(a)
      /\ ResponseShape(Responses(witness, c)) /\ ResponseShape(Responses(witness, d))
  BY <1>1, <1>3, Shapes
<1>5. Answered(st, a, Responses(witness, c), c) /\ Answered(st, a, Responses(witness, d), d)
  BY <1>3, <1>4 DEF Answered, Accepts
<1>6. /\ \A k \in Limbs :
           /\ Same(st.d[k][1], st.com[k][1] + SecretKey * st.e[k][1])
           /\ Same(Residual(st, k)[1], 0)
      /\ Same(st.c[1], SumFunction([k \in Limbs |-> Weight(k) * st.com[k][1]]))
  <2> HIDE DEF st, a
  <2> QED BY <1>2, <1>4, <1>5, SpecialSoundness
<1>7. \A k \in Limbs : st.com[k][1] = witness.v[k]
  BY DEF Statement
<1>8. witness.v \in [Limbs -> Int] /\ witness.target \in Int
  BY <1>1, ScalarNumbers, LimbRanges DEF Committed, LimbValues
<1>9. Same(witness.target, Integer(witness.v))
  <2>1. [k \in Limbs |-> Weight(k) * st.com[k][1]] = [k \in Limbs |-> Weight(k) * witness.v[k]]
    <3> HIDE DEF st
    <3> QED BY <1>7
  <2>2. PICK s \in Int : /\ s = SumFunction([k \in Limbs |-> Weight(k) * witness.v[k]])
                         /\ Same(s, Integer(witness.v))
    BY <1>8, WeightedSum
  <2>3. st.c[1] = witness.target % Order
    BY DEF Statement, G
  <2>4. Same(witness.target % Order, s)
    BY <1>6, <2>1, <2>2, <2>3
  <2>5. witness.target % Order = witness.target
    BY <1>1, <1>8, SameReduces DEF Committed
  <2>6. Integer(witness.v) \in Int
    BY <1>8, RecomposeIsInteger
  <2> QED BY <1>8, <2>2, <2>4, <2>5, <2>6, SameIsEquivalence
<1> QED BY <1>1, <1>3, <1>4, <1>6, <1>7, <1>9

\* The carries into and out of a limb of such a statement.
LEMMA CarryCoefficients ==
  ASSUME NEW w, NEW k \in Limbs
  PROVE  /\ CarryIn(Statement(w).comC, k)[1] = IF k - 1 \in Carries THEN w.carry[k - 1] ELSE 0
         /\ CarryIn(Statement(w).comC, k)[2]
              = IF k - 1 \in Carries THEN Draw(w.seed, "g", k - 1) ELSE 0
         /\ CarryOut(Statement(w).comC, k)[1] = IF k \in Carries THEN w.carry[k] ELSE 0
         /\ CarryOut(Statement(w).comC, k)[2]
              = IF k \in Carries THEN Draw(w.seed, "g", k) ELSE 0
<1> DEFINE com == Statement(w).comC
<1>1. \A i \in Carries : com[i] = <<w.carry[i], Draw(w.seed, "g", i)>>
  BY DEF Statement
<1>2. k = 1 <=> k - 1 \notin Carries
  BY ScalarNumbers DEF Carries, Limbs
<1>3. k = LimbCount <=> k \notin Carries
  BY ScalarNumbers DEF Carries, Limbs
<1> HIDE DEF com
<1>4. CarryIn(com, k) = IF k - 1 \in Carries THEN com[k - 1] ELSE <<0, 0>>
  BY <1>2 DEF CarryIn
<1>5. CarryOut(com, k) = IF k \in Carries THEN com[k] ELSE <<0, 0>>
  BY <1>3 DEF CarryOut
<1> QED BY <1>1, <1>4, <1>5 DEF com

\* The carry equations hold over the integers: neither side reaches the order.
LEMMA SoundIsBelowOrder ==
  ASSUME ProofInv, Sound
  PROVE  Integer(witness.v) + Integer(witness.vBar) = Order - 1
<1> DEFINE st == Statement(witness)
           x == [k \in 0 .. LimbCount |-> IF k \in Carries THEN witness.carry[k] ELSE 0]
<1>1. /\ Committed(witness) /\ InRange(witness) /\ StatementShape(st)
      /\ \A k \in Limbs : Same(Residual(st, k)[1], 0)
  BY SoundLegs
<1>2. LimbCount \in Nat \ {0} /\ LimbModulus \in Nat \ {0, 1} /\ Order \in Nat /\ 2 * LimbModulus < Order
  BY ScalarNumbers, ProofAssumption
<1>3. /\ witness.v \in [Limbs -> 0 .. LimbModulus - 1] /\ witness.vBar \in [Limbs -> 0 .. LimbModulus - 1]
      /\ witness.carry \in [Carries -> 0 .. 1]
  BY <1>1 DEF Committed, LimbValues
<1>4. Order - 1 \in Scalars /\ LastScalar \in [Limbs -> 0 .. LimbModulus - 1]
      /\ Integer(LastScalar) = Order - 1
  BY ScalarNumbers, IntegerOfDigits DEF LastScalar
<1>5. /\ x \in [0 .. LimbCount -> 0 .. 1] /\ x[0] = 0 /\ x[LimbCount] = 0
  BY <1>2, <1>3 DEF Carries
<1>6. ASSUME NEW k \in Limbs
      PROVE  witness.v[k] + witness.vBar[k] + x[k - 1] = LastScalar[k] + LimbModulus * x[k]
  <2>1. k - 1 \in 0 .. LimbCount /\ k \in 0 .. LimbCount
    BY <1>2 DEF Limbs
  <2>2. st.com[k][1] = witness.v[k] /\ st.comBar[k][1] = witness.vBar[k]
    BY DEF Statement
  <2>3. CarryIn(st.comC, k)[1] = x[k - 1]
    <3>1. CarryIn(st.comC, k)[1] = IF k - 1 \in Carries THEN witness.carry[k - 1] ELSE 0
      BY CarryCoefficients
    <3> HIDE DEF st
    <3> QED BY <2>1, <3>1
  <2>4. CarryOut(st.comC, k)[1] = x[k]
    <3>1. CarryOut(st.comC, k)[1] = IF k \in Carries THEN witness.carry[k] ELSE 0
      BY CarryCoefficients
    <3> HIDE DEF st
    <3> QED BY <2>1, <3>1
  <2>5. /\ Residual(st, k) \in Points
        /\ Same(Residual(st, k)[1],
                witness.v[k] + witness.vBar[k] + x[k - 1] - LastScalar[k] - LimbModulus * x[k])
    <3> HIDE DEF st, x
    <3>1. /\ Residual(st, k) \in Points
          /\ Same(Residual(st, k)[1],
                  st.com[k][1] + st.comBar[k][1] + CarryIn(st.comC, k)[1] - LastScalar[k]
                    - LimbModulus * CarryOut(st.comC, k)[1])
      BY <1>1, Residuals
    <3> QED BY <2>2, <2>3, <2>4, <3>1
  <2>6. PICK r \in Int : r = Residual(st, k)[1]
    BY <2>5, PointOperations, ScalarNumbers
  <2> HIDE DEF x, st
  <2>7. PICK a \in 0 .. LimbModulus - 1, b \in 0 .. LimbModulus - 1, c \in 0 .. LimbModulus - 1,
             i \in 0 .. 1, o \in 0 .. 1 :
          a = witness.v[k] /\ b = witness.vBar[k] /\ c = LastScalar[k] /\ i = x[k - 1] /\ o = x[k]
    BY <1>3, <1>4, <1>5, <2>1
  <2>8. PICK q \in Int : r = 0 + Order * q
    BY <1>1, <2>6 DEF Same
  <2>9. PICK p \in Int : r = a + b + i - c - LimbModulus * o + Order * p
    BY <2>5, <2>6, <2>7 DEF Same
  <2>10. PICK y \in Int : y = a + b + i - c - LimbModulus * o
    BY <1>2
  <2>11. -Order < y /\ y < Order
    <3>1. LimbModulus * o \in 0 .. LimbModulus
      BY <1>2
    <3>2. PICK z \in 0 .. LimbModulus : z = LimbModulus * o
      BY <3>1
    <3> QED BY <1>2, <2>10, <3>2
  <2>12. PICK t \in Int : t = q - p
    OBVIOUS
  <2>13. y = Order * t
    BY <1>2, <2>8, <2>9, <2>10, <2>12
  <2>14. t >= 1 => Order * t >= Order
    BY <1>2
  <2>15. t <= -1 => Order * t <= -Order
    BY <1>2
  <2>16. t = 0 => Order * t = 0
    BY <1>2
  <2>17. PICK s \in Int : s = Order * t
    BY <1>2
  <2>18. y = 0
    BY <1>2, <2>11, <2>13, <2>14, <2>15, <2>16, <2>17
  <2>19. a + b + i = c + LimbModulus * o
    <3>1. PICK z \in Int : z = LimbModulus * o
      BY <1>2
    <3>2. a + b + i - c - z = 0
      BY <2>10, <2>18, <3>1
    <3> QED BY <1>2, <3>1, <3>2
  <2> QED BY <2>7, <2>19
<1>7. witness.v \in [Limbs -> Int] /\ witness.vBar \in [Limbs -> Int] /\ LastScalar \in [Limbs -> Int]
      /\ x \in [0 .. LimbCount -> Int]
  BY <1>3, <1>4, <1>5
<1>8. Integer(witness.v) + Integer(witness.vBar) = Integer(LastScalar)
  <2> HIDE DEF x
  <2> QED BY <1>5, <1>6, <1>7, ChainAdds
<1> QED BY <1>4, <1>8

\* The limbs encrypted are those in range, and they are the scalar's.
LEMMA SoundOpens ==
  ASSUME ProofInv, Sound
  PROVE  Open(Statement(witness)) = witness.target /\ witness.target = Integer(witness.v)
<1> DEFINE st == Statement(witness)
<1>1. /\ Committed(witness) /\ StatementShape(st)
      /\ \A k \in Limbs : Same(st.d[k][1], witness.v[k] + SecretKey * st.e[k][1])
      /\ Same(witness.target, Integer(witness.v))
  BY SoundLegs
<1>2. Scalars \subseteq Int /\ SecretKey \in Int /\ Order \in Nat \ {0, 1} /\ LimbModulus \in Nat
      /\ 0 .. LimbModulus - 1 \subseteq Scalars
  BY ScalarNumbers, ProofAssumption, LimbRanges
<1>3. /\ witness.v \in [Limbs -> 0 .. LimbModulus - 1] /\ witness.vBar \in [Limbs -> 0 .. LimbModulus - 1]
      /\ witness.target \in Scalars
  BY <1>1 DEF Committed, LimbValues
<1>4. Integer(witness.v) \in Scalars
  <2>1. witness.v \in [Limbs -> Nat] /\ witness.vBar \in [Limbs -> Nat]
    BY <1>2, <1>3
  <2>2. Integer(witness.v) \in Nat /\ Integer(witness.vBar) \in Nat
    BY <2>1, IntegerIsNat
  <2>3. Integer(witness.v) + Integer(witness.vBar) = Order - 1
    BY SoundIsBelowOrder
  <2> QED BY <1>2, <2>2, <2>3 DEF Scalars
<1>5. witness.target = Integer(witness.v)
  BY <1>1, <1>3, <1>4, SameScalars
<1>6. ASSUME NEW k \in Limbs
      PROVE  RecoverBounded(Sub(st.d[k], Scale(SecretKey, st.e[k]))[1], LimbModulus) = witness.v[k]
  <2> HIDE DEF st
  <2>1. PICK d \in Points, e \in Points : d = st.d[k] /\ e = st.e[k]
    BY <1>1 DEF StatementShape
  <2>2. PICK s \in Points : s = Scale(SecretKey, e) /\ Same(s[1], SecretKey * e[1])
    BY <1>2, PointOperations
  <2>3. PICK m \in Points : m = Sub(d, s) /\ Same(m[1], d[1] - s[1])
    BY PointOperations
  <2>4. PICK i \in Int, j \in Int, l \in Int, x \in Scalars, v \in Scalars :
          i = d[1] /\ j = e[1] /\ l = s[1] /\ x = m[1] /\ v = witness.v[k]
    BY <1>2, <1>3 DEF Points
  <2>5. PICK p \in Int : l = SecretKey * j + Order * p
    BY <2>2, <2>4 DEF Same
  <2>6. PICK q \in Int : i = v + SecretKey * j + Order * q
    BY <1>1, <2>1, <2>4 DEF Same
  <2>7. PICK r \in Int : x = i - l + Order * r
    BY <2>3, <2>4 DEF Same
  <2>8. q - p + r \in Int /\ x = v + Order * (q - p + r)
    BY <1>2, <2>5, <2>6, <2>7
  <2>9. Same(x, v)
    BY <2>8 DEF Same
  <2>10. x = v
    BY <2>9, SameScalars
  <2>11. v < LimbModulus
    BY <1>2, <1>3, <2>4
  <2> QED BY <2>1, <2>2, <2>3, <2>4, <2>10, <2>11 DEF RecoverBounded
<1>7. \A k \in Limbs : witness.v[k] # Failed
  BY <1>2, <1>3 DEF Failed
<1>8. Recompose(witness.v) = witness.target
  <2>1. witness.v \in [Limbs -> Int]
    BY <1>2, <1>3
  <2>2. PICK r \in Scalars : r = Recompose(witness.v) /\ Same(r, Integer(witness.v))
    BY <2>1, RecomposeIsInteger
  <2> QED BY <1>4, <1>5, <2>2, SameScalars
<1>9. Open(st) = witness.target
  <2> DEFINE limb == [k \in Limbs |->
                       RecoverBounded(Sub(st.d[k], Scale(SecretKey, st.e[k]))[1], LimbModulus)]
             m == Recompose([k \in Limbs |-> IF limb[k] = Failed THEN 0 ELSE limb[k]])
  <2>1. limb = witness.v
    <3> HIDE DEF st
    <3> QED BY <1>3, <1>6
  <2>2. G(witness.target) = st.c
    BY DEF Statement
  <2>3. Open(st) = IF (\E k \in Limbs : limb[k] = Failed) \/ G(m) # st.c THEN Failed ELSE m
    <3> HIDE DEF st
    <3> QED BY DEF Open
  <2> HIDE DEF limb, st
  <2>4. [k \in Limbs |-> IF limb[k] = Failed THEN 0 ELSE limb[k]] = witness.v
    BY <1>3, <1>7, <2>1
  <2>5. m = witness.target
    BY <1>8, <2>4
  <2>6. ~ \E k \in Limbs : limb[k] = Failed
    BY <1>7, <2>1
  <2> HIDE DEF m
  <2> QED BY <2>2, <2>3, <2>5, <2>6
<1> QED BY <1>5, <1>9

----------------------------------------------------------------------------
(* What seal seals is accepted whatever the challenge.                     *)

\* An equation of the verifier holds when its coefficients are congruent.
LEMMA EquationHolds ==
  ASSUME NEW t \in Points, NEW p \in Points, NEW q \in Points, NEW c \in Scalars,
         Same(t[1], p[1] + c * q[1]), Same(t[2], p[2] + c * q[2])
  PROVE  t = Add(p, Scale(c, q))
<1>1. Scalars \subseteq Int /\ c \in Int
  BY ScalarNumbers
<1>2. ASSUME NEW x \in Scalars, NEW y \in Scalars, NEW z \in Scalars, Same(x, y + c * z)
      PROVE  x = Plus(y, Times(c, z))
  <2>1. PICK u \in Int : u = Times(c, z) /\ Same(u, c * z)
    BY <1>1, SameOperations
  <2>2. PICK v \in Scalars : v = Plus(y, u) /\ Same(v, y + u)
    BY <1>1, SameOperations
  <2>3. PICK i \in Int : x = y + c * z + Order * i
    BY <1>2 DEF Same
  <2>4. PICK j \in Int : u = c * z + Order * j
    BY <2>1 DEF Same
  <2>5. PICK l \in Int : v = y + u + Order * l
    BY <2>2 DEF Same
  <2>6. i - j - l \in Int /\ x = v + Order * (i - j - l)
    BY <1>1, <2>3, <2>4, <2>5, ScalarNumbers
  <2>7. Same(x, v)
    BY <2>6 DEF Same
  <2> QED BY <2>1, <2>2, <2>7, SameScalars
<1>3. /\ p[1] \in Scalars /\ p[2] \in Scalars /\ q[1] \in Scalars /\ q[2] \in Scalars
      /\ t[1] \in Scalars /\ t[2] \in Scalars /\ t = <<t[1], t[2]>>
  BY DEF Points
<1>4. t[1] = Plus(p[1], Times(c, q[1]))
  BY <1>2, <1>3
<1>5. t[2] = Plus(p[2], Times(c, q[2]))
  BY <1>2, <1>3
<1> QED BY <1>3, <1>4, <1>5 DEF Add, Scale

LEMMA EquationOnG ==
  ASSUME NEW x \in Int, NEW y \in Int, NEW z \in Int, NEW c \in Scalars, Same(x, y + c * z)
  PROVE  G(x) = Add(G(y), Scale(c, G(z)))
<1>1. Scalars \subseteq Int /\ c \in Int /\ Order \in Int
  BY ScalarNumbers
<1>2. ASSUME NEW i \in Int PROVE G(i) \in Points /\ Same(G(i)[1], i) /\ G(i)[1] \in Int /\ G(i)[2] = 0
  <2>1. i % Order \in Scalars /\ Same(i % Order, i) /\ 0 \in Scalars
    BY SameReduces, ScalarNumbers
  <2> QED BY <1>1, <2>1 DEF G, Points
<1>3. PICK t \in Points, p \in Points, q \in Points : t = G(x) /\ p = G(y) /\ q = G(z)
  BY <1>2
<1>4. PICK i \in Int, j \in Int, l \in Int : i = t[1] /\ j = p[1] /\ l = q[1]
  BY <1>2, <1>3
<1>5. PICK e \in Int : i = x + Order * e
  BY <1>2, <1>3, <1>4 DEF Same
<1>6. PICK f \in Int : j = y + Order * f
  BY <1>2, <1>3, <1>4 DEF Same
<1>7. PICK g \in Int : l = z + Order * g
  BY <1>2, <1>3, <1>4 DEF Same
<1>8. PICK h \in Int : x = y + c * z + Order * h
  BY DEF Same
<1>9. e + h - f - c * g \in Int /\ i = j + c * l + Order * (e + h - f - c * g)
  <2>1. c * l = c * z + Order * (c * g)
    BY <1>1, <1>7
  <2>2. PICK u \in Int, v \in Int, n \in Int : u = c * z /\ v = c * g /\ n = c * l
    BY <1>1
  <2>3. i = j + n + Order * (e + h - f - v)
    BY <1>1, <1>5, <1>6, <1>8, <2>1, <2>2
  <2> QED BY <1>1, <2>2, <2>3
<1>10. Same(t[1], p[1] + c * q[1])
  BY <1>4, <1>9 DEF Same
<1>11. Same(t[2], p[2] + c * q[2])
  <2>1. t[2] = 0 /\ p[2] = 0 /\ q[2] = 0
    BY <1>2, <1>3
  <2>2. 0 + c * 0 = 0 /\ 0 \in Int
    BY <1>1
  <2>3. Same(0, 0 + c * 0)
    BY <2>2, SameIsEquivalence
  <2> QED BY <2>1, <2>3
<1> QED BY <1>3, <1>10, <1>11, EquationHolds

\* An announcement that bets on nothing is not shifted.
LEMMA Unshifted ==
  ASSUME NEW p \in Points, NEW e \in Points
  PROVE  Sub(p, Scale(0, e)) = p
<1>1. Scalars \subseteq Int /\ 0 \in Scalars
  BY ScalarNumbers
<1>2. ASSUME NEW x \in Scalars, NEW y \in Scalars PROVE Minus(x, Times(0, y)) = x
  <2>1. 0 * y = 0 /\ x - 0 = x
    BY <1>1
  <2>2. Times(0, y) = 0
    BY <1>1, <2>1, SameReduces DEF Times
  <2>3. Minus(x, 0) = x
    BY <1>1, <2>1, SameReduces DEF Minus
  <2> QED BY <2>2, <2>3
<1>3. /\ p[1] \in Scalars /\ p[2] \in Scalars /\ e[1] \in Scalars /\ e[2] \in Scalars
      /\ p = <<p[1], p[2]>>
  BY DEF Points
<1> QED BY <1>2, <1>3 DEF Sub, Scale

\* A response is its nonce and a multiple of what it answers for.
LEMMA Answers ==
  ASSUME NEW x \in Int, NEW y \in Int, NEW c \in Scalars
  PROVE  Plus(x, Times(c, y)) \in Int /\ Same(Plus(x, Times(c, y)), x + c * y)
<1>1. Scalars \subseteq Int /\ c \in Int /\ Order \in Int
  BY ScalarNumbers
<1>2. PICK u \in Int : u = Times(c, y) /\ Same(u, c * y)
  BY <1>1, SameOperations
<1>3. PICK v \in Int : v = Plus(x, u) /\ Same(v, x + u)
  BY <1>1, SameOperations
<1>4. PICK i \in Int : u = c * y + Order * i
  BY <1>2 DEF Same
<1>5. PICK j \in Int : v = x + u + Order * j
  BY <1>3 DEF Same
<1>6. i + j \in Int /\ v = x + c * y + Order * (i + j)
  BY <1>1, <1>4, <1>5
<1> QED BY <1>2, <1>3, <1>6 DEF Same

\* The residual of a sealed statement is on H alone, and seal knows it.
LEMMA SealedResidual ==
  ASSUME NEW w, Committed(w), NEW m \in Scalars, SealedAs(w, m), sealer = "seal", NEW k \in Limbs
  PROVE  Residual(Statement(w), k) \in Points /\ Residual(Statement(w), k)[1] = 0
         /\ Residual(Statement(w), k)[2] = ResidualWitness(w, k)
<1> DEFINE st == Statement(w)
           out == CarriesOut(w.v, w.vBar)
           x(i) == IF i \in Carries THEN w.carry[i] ELSE 0
           g(i) == IF i \in Carries THEN Draw(w.seed, "g", i) ELSE 0
<1>1. Scalars \subseteq Int /\ Order \in Nat \ {0, 1} /\ LimbCount \in Nat \ {0} /\ LimbModulus \in Nat
      /\ 0 \in Scalars
  BY ScalarNumbers
<1>2. StatementShape(st)
  BY Shapes, ScalarNumbers
<1>3. st.com[k] = <<w.v[k], Draw(w.seed, "s", k)>> /\ st.comBar[k] = <<w.vBar[k], Draw(w.seed, "sBar", k)>>
  BY DEF Statement
<1>4. /\ CarryIn(st.comC, k)[1] = x(k - 1) /\ CarryIn(st.comC, k)[2] = g(k - 1)
      /\ CarryOut(st.comC, k)[1] = x(k) /\ CarryOut(st.comC, k)[2] = g(k)
  BY CarryCoefficients
<1>5. /\ Residual(st, k) \in Points
      /\ Same(Residual(st, k)[1],
              st.com[k][1] + st.comBar[k][1] + CarryIn(st.comC, k)[1] - LastScalar[k]
                - LimbModulus * CarryOut(st.comC, k)[1])
      /\ CarryIn(st.comC, k) \in Points /\ CarryOut(st.comC, k) \in Points
  <2> HIDE DEF st
  <2> QED BY <1>2, Residuals
<1>6. /\ w.v[k] + w.vBar[k] + x(k - 1) = LastScalar[k] + LimbModulus * x(k)
      /\ x(k) \in Int /\ LastScalar[k] \in Int
  <2>1. /\ out \in [0 .. LimbCount -> 0 .. 1] /\ out[0] = 0 /\ out[LimbCount] = 0
        /\ w.v[k] + w.vBar[k] + out[k - 1] = LastScalar[k] + LimbModulus * out[k]
    BY CarriesCloseOnOrder DEF SealedAs
  <2>2. w.carry = [i \in Carries |-> out[i]]
    BY DEF SealedAs
  <2>3. k \in 0 .. LimbCount /\ k - 1 \in 0 .. LimbCount
    BY <1>1 DEF Limbs
  <2> HIDE DEF out
  <2>4. \A i \in 0 .. LimbCount : x(i) = out[i]
    BY <1>1, <2>1, <2>2 DEF Carries
  <2>5. LastScalar[k] \in Int
    <3>1. Order - 1 \in Nat
      BY <1>1
    <3> QED BY <3>1, LimbsAreDigits DEF LastScalar
  <2> HIDE DEF x
  <2> QED BY <2>1, <2>3, <2>4, <2>5
<1>7. Residual(st, k)[1] = 0
  <2>1. w.v[k] \in Int /\ w.vBar[k] \in Int /\ x(k - 1) \in Int
    <3>1. w.v[k] \in 0 .. LimbModulus - 1 /\ w.vBar[k] \in 0 .. LimbModulus - 1
      BY DEF Committed, LimbValues
    <3>2. CarryIn(st.comC, k)[1] \in Scalars
      BY <1>5 DEF Points
    <3>3. w.v[k] \in Int /\ w.vBar[k] \in Int
      BY <1>1, <3>1
    <3> HIDE DEF x, st
    <3>4. x(k - 1) \in Scalars
      BY <1>4, <3>2
    <3>5. x(k - 1) \in Int
      BY <1>1, <3>4
    <3> QED BY <3>3, <3>5
  <2>2. Same(Residual(st, k)[1], w.v[k] + w.vBar[k] + x(k - 1) - LastScalar[k] - LimbModulus * x(k))
    <3> HIDE DEF x
    <3>1. st.com[k][1] = w.v[k] /\ st.comBar[k][1] = w.vBar[k]
      BY <1>3
    <3> HIDE DEF st
    <3> QED BY <1>4, <1>5, <3>1
  <2> HIDE DEF x
  <2>3. w.v[k] + w.vBar[k] + x(k - 1) - LastScalar[k] - LimbModulus * x(k) = 0
    <3>1. PICK y \in Int : y = LimbModulus * x(k)
      BY <1>1, <1>6
    <3>2. PICK b \in Int, d \in Int, e \in Int, f \in Int :
            b = w.v[k] /\ d = w.vBar[k] /\ e = x(k - 1) /\ f = LastScalar[k]
      BY <1>6, <2>1
    <3>3. b + d + e = f + y
      BY <1>6, <3>1, <3>2
    <3> QED BY <3>1, <3>2, <3>3
  <2>4. Same(Residual(st, k)[1], 0)
    BY <2>2, <2>3
  <2>5. Residual(st, k)[1] \in Scalars
    BY <1>5 DEF Points
  <2> HIDE DEF st
  <2> QED BY <1>1, <2>4, <2>5, SameScalars
<1>8. Residual(st, k)[2] = ResidualWitness(w, k)
  <2> DEFINE y == Plus(Plus(Draw(w.seed, "s", k), Draw(w.seed, "sBar", k)), g(k - 1))
  <2>1. Residual(st, k)[2] = Minus(Minus(y, 0), Times(LimbModulus % Order, g(k)))
    <3>1. st.com[k][2] = Draw(w.seed, "s", k) /\ st.comBar[k][2] = Draw(w.seed, "sBar", k)
      BY <1>3
    <3> HIDE DEF st, g
    <3> QED BY <1>4, <3>1 DEF Residual, Add, Sub, Scale, G
  <2>2. y \in Scalars /\ y \in Int
    <3>1. g(k - 1) \in Int
      <4>1. CarryIn(st.comC, k)[2] \in Scalars
        BY <1>5 DEF Points
      <4> HIDE DEF g, st
      <4> QED BY <1>1, <1>4, <4>1
    <3> HIDE DEF g
    <3>2. Draw(w.seed, "s", k) \in Int /\ Draw(w.seed, "sBar", k) \in Int
      BY Draws
    <3>3. Plus(Draw(w.seed, "s", k), Draw(w.seed, "sBar", k)) \in Int
      BY <1>1, <3>2, SameOperations
    <3> QED BY <1>1, <3>1, <3>3, SameOperations
  <2>3. Minus(y, 0) = y
    <3> HIDE DEF y
    <3>1. y - 0 = y
      BY <2>2
    <3> QED BY <2>2, <3>1, SameReduces DEF Minus
  <2>4. ResidualWitness(w, k) = Minus(y, Times(LimbModulus % Order, g(k)))
    BY DEF ResidualWitness
  <2> QED BY <2>1, <2>3, <2>4
<1> QED BY <1>5, <1>7, <1>8

\* seal's own announcements and responses pass verify_sigma_algebra.
LEMMA SealedAccepted ==
  ASSUME ProofInv, sealer = "seal", NEW c \in Scalars
  PROVE  c \in AcceptedAt
<1> DEFINE w == witness
           st == Statement(w)
           a == Announcements(w, guess)
           r == Responses(w, c)
<1>1. PICK m \in Scalars : SealedAs(w, m)
  BY DEF ProofInv
<1>2. Committed(w) /\ guess = 0
  BY DEF ProofInv
<1>3. Scalars \subseteq Int /\ SecretKey \in Int /\ Order \in Int /\ c \in Int /\ IsFiniteSet(Limbs)
      /\ 0 \in Scalars
  BY ScalarNumbers, ProofAssumption
<1>4. StatementShape(st) /\ AnnouncementShape(a) /\ ResponseShape(r)
      /\ \A k \in Limbs : ResidualWitness(w, k) \in Scalars
  BY <1>2, <1>3, Shapes
<1>5. w.v \in LimbValues /\ w.encrypted = w.v /\ w.target = m /\ w.encrypted \in [Limbs -> Scalars]
  BY <1>1, <1>2 DEF Committed, SealedAs
<1>6. InRange(w)
  BY <1>2 DEF InRange, Committed, LimbValues
<1>7. ASSUME NEW x \in Int
      PROVE  /\ G(x) \in Points /\ Same(G(x)[1], x) /\ G(x)[2] = 0
             /\ HPoint(x) \in Points /\ HPoint(x)[1] = 0 /\ Same(HPoint(x)[2], x)
  <2>1. x % Order \in Scalars /\ Same(x % Order, x)
    BY SameReduces
  <2> QED BY <1>3, <2>1 DEF G, HPoint, Points
<1>8. Same(0, 0 + c * 0)
  <2>1. 0 + c * 0 = 0 /\ 0 \in Int
    BY <1>3
  <2> QED BY <2>1, SameIsEquivalence
\* The residuals of the carries.
<1>9. ASSUME NEW k \in Limbs
      PROVE  HPoint(r.rho[k]) = Add(a.residual[k], Scale(c, Residual(st, k)))
  <2> DEFINE nonce == Draw(w.seed, "rho", k)
             rw == ResidualWitness(w, k)
  <2>1. Residual(st, k) \in Points /\ Residual(st, k)[1] = 0 /\ Residual(st, k)[2] = rw
    BY <1>1, <1>2, SealedResidual
  <2>2. nonce \in Scalars /\ nonce \in Int /\ rw \in Int
    BY <1>2, <1>3, <1>4, Draws
  <2>3. a.residual[k] = Sub(HPoint(nonce), Scale(0, Sub(Residual(st, k), HPoint(rw))))
    BY <1>2 DEF Announcements
  <2>4. r.rho[k] = Plus(nonce, Times(c, rw))
    BY DEF Responses
  <2> HIDE DEF nonce, rw, a, r, st
  <2>5. Sub(Residual(st, k), HPoint(rw)) \in Points
    BY <1>7, <2>1, <2>2, PointOperations
  <2>6. a.residual[k] = HPoint(nonce)
    BY <1>7, <2>2, <2>3, <2>5, Unshifted
  <2>7. HPoint(nonce) \in Points /\ HPoint(nonce)[1] = 0 /\ HPoint(nonce)[2] = nonce
    BY <1>7, <2>2, SameReduces DEF HPoint
  <2>8. PICK x \in Int : x = r.rho[k] /\ Same(x, nonce + c * rw)
    BY <2>2, <2>4, Answers
  <2>9. HPoint(x) \in Points /\ HPoint(x)[1] = 0 /\ Same(HPoint(x)[2], x)
    BY <1>7
  <2>10. Same(HPoint(x)[2], nonce + c * rw)
    <3>1. HPoint(x)[2] \in Int
      BY <1>3, <2>9 DEF Points
    <3>2. nonce + c * rw \in Int
      BY <1>3, <2>2
    <3> QED BY <2>8, <2>9, <3>1, <3>2, SameIsEquivalence
  <2> QED BY <1>8, <2>1, <2>6, <2>7, <2>8, <2>9, <2>10, EquationHolds
\* The three legs of a limb.
<1>10. ASSUME NEW k \in Limbs
       PROVE  /\ G(r.r[k]) = Add(a.e[k], Scale(c, st.e[k]))
              /\ G(r.v[k] + SecretKey * r.r[k]) = Add(a.d[k], Scale(c, st.d[k]))
              /\ Add(G(r.v[k]), HPoint(r.s[k])) = Add(a.com[k], Scale(c, st.com[k]))
  <2>1. PICK alpha \in Scalars, beta \in Scalars, gamma \in Scalars, x \in Scalars, s \in Scalars,
             v \in Scalars :
          /\ alpha = Draw(w.seed, "alpha", k) /\ beta = Draw(w.seed, "beta", k)
          /\ gamma = Draw(w.seed, "gamma", k) /\ x = Draw(w.seed, "r", k)
          /\ s = Draw(w.seed, "s", k) /\ v = w.encrypted[k]
    BY <1>2, <1>5, Draws
  <2>2. /\ st.e[k] = G(x) /\ st.d[k] = G(v + SecretKey * x) /\ st.com[k] = <<v, s>>
        /\ a.e[k] = G(beta) /\ a.d[k] = G(alpha + SecretKey * beta)
        /\ a.com[k] = Sub(<<alpha, gamma>>, Scale(0, Sub(G(w.v[k]), G(v))))
        /\ w.v[k] = v
    BY <1>2, <1>5, <2>1 DEF Statement, Announcements
  <2>3. /\ r.v[k] = Plus(alpha, Times(c, v)) /\ r.r[k] = Plus(beta, Times(c, x))
        /\ r.s[k] = Plus(gamma, Times(c, s))
    BY <2>1 DEF Responses
  <2> HIDE DEF a, r, st
  <2>4. alpha \in Int /\ beta \in Int /\ gamma \in Int /\ x \in Int /\ s \in Int /\ v \in Int
    BY <1>3
  <2>5. PICK y \in Int, z \in Int, u \in Int :
          /\ y = r.v[k] /\ z = r.r[k] /\ u = r.s[k]
          /\ Same(y, alpha + c * v) /\ Same(z, beta + c * x) /\ Same(u, gamma + c * s)
    BY <2>3, <2>4, Answers
  <2>6. G(z) = Add(G(beta), Scale(c, G(x)))
    BY <2>4, <2>5, EquationOnG
  <2>7. G(y + SecretKey * z) = Add(G(alpha + SecretKey * beta), Scale(c, G(v + SecretKey * x)))
    <3>1. PICK i \in Int : y = alpha + c * v + Order * i
      BY <2>5 DEF Same
    <3>2. PICK j \in Int : z = beta + c * x + Order * j
      BY <2>5 DEF Same
    <3>3. y + SecretKey * z
            = (alpha + SecretKey * beta) + c * (v + SecretKey * x) + Order * (i + SecretKey * j)
      <4>1. SecretKey * z = SecretKey * beta + c * (SecretKey * x) + Order * (SecretKey * j)
        BY <1>3, <2>4, <3>2
      <4> QED BY <1>3, <2>4, <3>1, <4>1
    <3>4. /\ i + SecretKey * j \in Int /\ y + SecretKey * z \in Int
          /\ alpha + SecretKey * beta \in Int /\ v + SecretKey * x \in Int
      BY <1>3, <2>4
    <3>5. Same(y + SecretKey * z, (alpha + SecretKey * beta) + c * (v + SecretKey * x))
      BY <3>3, <3>4 DEF Same
    <3> QED BY <3>4, <3>5, EquationOnG
  <2>8. a.com[k] = <<alpha, gamma>> /\ <<alpha, gamma>> \in Points /\ <<v, s>> \in Points
    <3>1. <<alpha, gamma>> \in Points /\ <<v, s>> \in Points
      BY DEF Points
    <3>2. G(w.v[k]) \in Points /\ G(v) \in Points
      BY <1>7, <2>2, <2>4
    <3>3. Sub(G(w.v[k]), G(v)) \in Points
      BY <3>2, <1>3, PointOperations
    <3> QED BY <2>2, <3>1, <3>3, Unshifted
  <2>9. PICK t \in Points : /\ t = Add(G(y), HPoint(u))
                            /\ Same(t[1], alpha + c * v) /\ Same(t[2], gamma + c * s)
    <3>1. PICK p \in Points, q \in Points :
            /\ p = G(y) /\ q = HPoint(u) /\ Same(p[1], y) /\ p[2] = 0 /\ q[1] = 0 /\ Same(q[2], u)
      BY <1>7
    <3>2. PICK t \in Points : t = Add(p, q) /\ Same(t[1], p[1] + 0) /\ Same(t[2], 0 + q[2])
      BY <1>3, <3>1, PointOperations
    <3>3. t[1] \in Int /\ t[2] \in Int /\ p[1] \in Int /\ q[2] \in Int
      BY <1>3 DEF Points
    <3>4. p[1] + 0 = p[1] /\ 0 + q[2] = q[2]
      BY <3>3
    <3>5. Same(t[1], y) /\ Same(t[2], u)
      BY <3>1, <3>2, <3>3, <3>4, SameIsEquivalence
    <3>6. alpha + c * v \in Int /\ gamma + c * s \in Int
      BY <1>3, <2>4
    <3>7. Same(t[1], alpha + c * v) /\ Same(t[2], gamma + c * s)
      BY <2>5, <3>3, <3>5, <3>6, SameIsEquivalence
    <3> QED BY <3>1, <3>2, <3>7
  <2>10. Add(G(y), HPoint(u)) = Add(<<alpha, gamma>>, Scale(c, <<v, s>>))
    <3>1. PICK p \in Points, q \in Points : p = <<alpha, gamma>> /\ q = <<v, s>>
      BY <2>8
    <3>2. Same(t[1], p[1] + c * q[1]) /\ Same(t[2], p[2] + c * q[2])
      BY <2>9, <3>1
    <3> QED BY <2>9, <3>1, <3>2, EquationHolds
  <2> QED BY <2>2, <2>5, <2>6, <2>7, <2>8, <2>10
\* The leg of C.
<1>11. G(Weighed(r.v)) = Add(a.c, Scale(c, st.c))
  <2> DEFINE alpha == [k \in Limbs |-> Draw(w.seed, "alpha", k)]
             v == w.encrypted
             f == [k \in Limbs |-> Times(Weight(k), r.v[k])]
             g == [k \in Limbs |-> Times(Weight(k), alpha[k])]
             h == [k \in Limbs |-> Weight(k) * v[k]]
  <2>1. /\ alpha \in [Limbs -> Int] /\ v \in [Limbs -> Int]
        /\ a.c = Sub(G(Weighed(alpha)), Scale(0, Sub(G(m), G(Weighed(v)))))
    BY <1>2, <1>5, AnnouncedSum
  <2>2. st.c = G(m)
    BY <1>5 DEF Statement
  <2>3. r.v \in [Limbs -> Int] /\ \A k \in Limbs : r.v[k] = Plus(alpha[k], Times(c, v[k]))
    <3>1. r.v \in [Limbs -> Int]
      BY <1>3, <1>4 DEF ResponseShape
    <3>2. \A k \in Limbs : r.v[k] = Plus(alpha[k], Times(c, v[k]))
      BY DEF Responses
    <3> QED BY <3>1, <3>2
  <2> HIDE DEF alpha, v, a, r, st
  <2>4. m \in Int /\ Integer(v) = m
    <3>1. v = Decompose(m)
      BY <1>1, <1>5 DEF SealedAs, v
    <3> QED BY <1>3, <3>1, IntegerOfDigits
  <2>5. PICK x \in Int, y \in Int : /\ x = Weighed(r.v) /\ y = Weighed(alpha)
                                   /\ x = SumFunction(f) % Order /\ y = SumFunction(g) % Order
    <3>1. Weighed(r.v) \in Int /\ Weighed(alpha) \in Int
      BY <1>3, <2>1, <2>3, WeighedSums
    <3>2. Weighed(r.v) = SumFunction(f) % Order /\ Weighed(alpha) = SumFunction(g) % Order
      BY DEF Weighed, SumOver
    <3> QED BY <3>1, <3>2
  <2>6. a.c = G(y)
    <3>1. G(m) \in Points /\ G(Weighed(v)) \in Points /\ G(y) \in Points
      <4>1. Weighed(v) \in Int
        BY <1>3, <2>1, WeighedSums
      <4> QED BY <1>7, <2>4, <4>1
    <3>2. Sub(G(m), G(Weighed(v))) \in Points
      BY <1>3, <3>1, PointOperations
    <3> QED BY <2>1, <2>5, <3>1, <3>2, Unshifted
  <2>7. ASSUME NEW k \in Limbs
        PROVE  /\ Times(Weight(k), r.v[k]) \in Int /\ Times(Weight(k), alpha[k]) \in Int
               /\ Weight(k) * v[k] \in Int
               /\ Same(Times(Weight(k), r.v[k]), Times(Weight(k), alpha[k]) + c * (Weight(k) * v[k]))
    <3>1. PICK e \in Int, i \in Int, j \in Int, l \in Int :
            e = Weight(k) /\ i = r.v[k] /\ j = alpha[k] /\ l = v[k]
      <4>1. Weight(k) \in Int /\ r.v[k] \in Int /\ alpha[k] \in Int /\ v[k] \in Int
        BY <1>3, <2>1, <2>3, Weights
      <4> QED BY <4>1
    <3>2. Same(i, j + c * l)
      BY <2>3, <3>1, Answers
    <3>3. PICK n \in Int, o \in Int : /\ n = Times(e, i) /\ o = Times(e, j)
                                     /\ Same(n, e * i) /\ Same(o, e * j)
      BY <1>3, SameOperations
    <3>4. PICK p \in Int : i = j + c * l + Order * p
      BY <3>2 DEF Same
    <3>5. PICK q \in Int : n = e * i + Order * q
      BY <3>3 DEF Same
    <3>6. PICK t \in Int : o = e * j + Order * t
      BY <3>3 DEF Same
    <3>7. e * i = e * j + c * (e * l) + Order * (e * p)
      BY <1>3, <3>4
    <3>8. PICK i1 \in Int, j1 \in Int, l1 \in Int, p1 \in Int :
            i1 = e * i /\ j1 = e * j /\ l1 = c * (e * l) /\ p1 = e * p
      BY <1>3
    <3>9. n = i1 + Order * q /\ o = j1 + Order * t /\ i1 = j1 + l1 + Order * p1
      BY <3>5, <3>6, <3>7, <3>8
    <3>10. p1 + q - t \in Int /\ n = o + l1 + Order * (p1 + q - t)
      BY <1>3, <3>9
    <3>11. Same(n, o + c * (e * l))
      BY <3>8, <3>10 DEF Same
    <3>12. e * l \in Int
      OBVIOUS
    <3> QED BY <3>1, <3>3, <3>11, <3>12
  <2>8. /\ f \in [Limbs -> Int] /\ g \in [Limbs -> Int] /\ h \in [Limbs -> Int]
        /\ \A k \in Limbs : Same(f[k], g[k] + c * h[k])
    BY <2>7
  <2>9. SumFunction(h) \in Int /\ Same(SumFunction(h), m)
    BY <2>1, <2>4, WeightedSum
  <2> HIDE DEF f, g, h
  <2>10. PICK s1 \in Int, s2 \in Int, s3 \in Int :
           /\ s1 = SumFunction(f) /\ s2 = SumFunction(g) /\ s3 = SumFunction(h)
           /\ Same(s1, s2 + c * s3)
    <3>1. /\ SumFunction(f) \in Int /\ SumFunction(g) \in Int /\ SumFunction(h) \in Int
          /\ Same(SumFunction(f), SumFunction(g) + c * SumFunction(h))
      BY <1>3, <2>8, SumsCombine
    <3> QED BY <3>1
  <2>11. Same(x, s1) /\ Same(y, s2) /\ Same(s3, m)
    BY <2>5, <2>9, <2>10, SameReduces
  <2>12. Same(x, y + c * m)
    <3>1. PICK i \in Int : x = s1 + Order * i
      BY <2>11 DEF Same
    <3>2. PICK j \in Int : y = s2 + Order * j
      BY <2>11 DEF Same
    <3>3. PICK l \in Int : s3 = m + Order * l
      BY <2>11 DEF Same
    <3>4. PICK n \in Int : s1 = s2 + c * s3 + Order * n
      BY <2>10 DEF Same
    <3>5. c * s3 = c * m + Order * (c * l)
      BY <1>3, <2>4, <3>3
    <3>6. PICK u \in Int, z \in Int, o \in Int : u = c * s3 /\ z = c * m /\ o = c * l
      BY <1>3, <2>4
    <3>7. i + n + o - j \in Int /\ x = y + z + Order * (i + n + o - j)
      BY <1>3, <3>1, <3>2, <3>4, <3>5, <3>6
    <3> QED BY <3>6, <3>7 DEF Same
  <2>13. G(x) = Add(G(y), Scale(c, G(m)))
    BY <2>4, <2>12, EquationOnG
  <2> QED BY <2>2, <2>5, <2>6, <2>13
<1>12. CarryVerifies(st, a, r, c)
  BY <1>9 DEF CarryVerifies
<1>13. LinkingVerifies(st, a, r, c)
  <2>1. G(SumOver(LAMBDA k : Times(Weight(k), r.v[k]), Limbs)) = Add(a.c, Scale(c, st.c))
    <3> HIDE DEF r, a, st
    <3> QED BY <1>11 DEF Weighed
  <2> HIDE DEF r, a, st
  <2> QED BY <1>10, <2>1 DEF LinkingVerifies, ComLeg
<1> QED BY <1>6, <1>12, <1>13 DEF AcceptedAt

\* Every scalar can be sealed and its seal is accepted at every challenge;
\* what two challenges accept encrypts the limbs of the committed scalar,
\* below n (assembly.rs seal and verify, carry.rs, linking.rs), for every
\* prime order and every shape of the limbs.
THEOREM SealsAreSound == Spec => []SealsAndOnlyWhatOpens
<1>1. ASSUME ProofInv PROVE SealsAndOnlyWhatOpens
  <2>1. EveryScalarSeals
    <3>1. \A m \in Scalars : CarriesClose(Decompose(m), Decompose(Complement(m)))
      BY CarriesCloseOnOrder
    <3>2. sealer = "seal" => AcceptedAt = Scalars
      <4>1. AcceptedAt \subseteq Scalars
        BY DEF AcceptedAt
      <4>2. sealer = "seal" => \A c \in Scalars : c \in AcceptedAt
        BY <1>1, SealedAccepted
      <4> QED BY <4>1, <4>2
    <3> QED BY <3>1, <3>2 DEF EveryScalarSeals
  <2>2. CommittedBelowOrder
    BY <1>1, SoundIsBelowOrder DEF CommittedBelowOrder
  <2>3. VerifiedOpens
    BY <1>1, SoundOpens DEF VerifiedOpens
  <2> QED BY <2>1, <2>2, <2>3 DEF SealsAndOnlyWhatOpens
<1> QED BY <1>1, ProofInvariant, PTL

----------------------------------------------------------------------------
(* Sequences without a set of elements.                                    *)

\* A sequence over some set is one over its own elements.
LEMMA Sequences == ASSUME NEW S, NEW s \in Seq(S) PROVE IsSequence(s)
BY DEF IsSequence, ToSet

\* A sequence has a length and is known by it and its elements.
LEMMA SequenceFacts ==
  ASSUME NEW s, IsSequence(s)
  PROVE  /\ Len(s) \in Nat /\ DOMAIN s = 1 .. Len(s)
         /\ \A t : /\ IsSequence(t) /\ Len(t) = Len(s)
                   /\ \A i \in 1 .. Len(s) : t[i] = s[i]
                   => t = s
<1>1. Len(s) \in Nat /\ DOMAIN s = 1 .. Len(s)
  BY DEF IsSequence
<1>2. ASSUME NEW t, IsSequence(t), Len(t) = Len(s), \A i \in 1 .. Len(s) : t[i] = s[i]
      PROVE  t = s
  <2>1. s \in Seq(ToSet(s) \cup ToSet(t)) /\ t \in Seq(ToSet(s) \cup ToSet(t))
    BY <1>2, SeqMonotonic DEF IsSequence
  <2> QED BY <1>2, <2>1, SeqEqual
<1> QED BY <1>1, <1>2

\* A function on an interval from one is a sequence.
LEMMA FunctionIsSequence ==
  ASSUME NEW n \in Nat, NEW s, DOMAIN s = 1 .. n, s = [i \in DOMAIN s |-> s[i]]
  PROVE  IsSequence(s) /\ Len(s) = n
<1>1. s \in [1 .. n -> ToSet(s)]
  BY DEF ToSet
<1> QED BY <1>1 DEF IsSequence

\* What a concatenation is, and that both parts can be read from it.
JoinedFacts(s, t) ==
  /\ IsSequence(s \o t) /\ Len(s \o t) = Len(s) + Len(t)
  /\ \A i \in 1 .. Len(s) : (s \o t)[i] = s[i]
  /\ \A i \in 1 .. Len(t) : (s \o t)[Len(s) + i] = t[i]

\* Concatenation of sequences over no set in particular.
LEMMA Joined ==
  ASSUME NEW s, NEW t, IsSequence(s), IsSequence(t)
  PROVE  JoinedFacts(s, t)
<1> USE DEF JoinedFacts
<1> DEFINE S == ToSet(s) \cup ToSet(t)
<1>1. s \in Seq(S) /\ t \in Seq(S)
  BY SeqMonotonic DEF IsSequence
<1> HIDE DEF S
<1>2. s \o t \in Seq(S)
  BY <1>1, ConcatProperties
<1>3. IsSequence(s \o t)
  BY <1>2, Sequences
<1>4. Len(s) \in Nat /\ Len(t) \in Nat
  BY <1>1
<1>5. /\ Len(s \o t) = Len(s) + Len(t)
      /\ \A i \in 1 .. Len(s) + Len(t) : (s \o t)[i] = IF i <= Len(s) THEN s[i] ELSE t[i - Len(s)]
  BY <1>1, ConcatProperties
<1>6. ASSUME NEW i \in 1 .. Len(t) PROVE (s \o t)[Len(s) + i] = t[i]
  <2>1. Len(s) + i \in 1 .. Len(s) + Len(t) /\ ~(Len(s) + i <= Len(s)) /\ (Len(s) + i) - Len(s) = i
    BY <1>4
  <2> QED BY <1>5, <2>1
<1>7. ASSUME NEW i \in 1 .. Len(s) PROVE (s \o t)[i] = s[i]
  <2>1. i \in 1 .. Len(s) + Len(t) /\ i <= Len(s)
    BY <1>4
  <2> QED BY <1>5, <2>1
<1> QED BY <1>3, <1>5, <1>6, <1>7

\* Concatenation is associative.
LEMMA JoinedTwice ==
  \A s, t, u : IsSequence(s) /\ IsSequence(t) /\ IsSequence(u)
              => (s \o t) \o u = s \o (t \o u)
<1> SUFFICES ASSUME NEW s, NEW t, NEW u, IsSequence(s), IsSequence(t), IsSequence(u)
             PROVE  (s \o t) \o u = s \o (t \o u)
  OBVIOUS
<1> DEFINE S == ToSet(s) \cup ToSet(t) \cup ToSet(u)
<1>1. s \in Seq(S) /\ t \in Seq(S) /\ u \in Seq(S)
  BY SeqMonotonic DEF IsSequence
<1> HIDE DEF S
<1> QED BY <1>1, ConcatAssociative

----------------------------------------------------------------------------
(* A transcript can be cut after u or v: whatever follows, what begins     *)
(* with one and with the other is the same only when both parts are.       *)
\* Two sequences neither of which properly begins the other: of two
\* concatenations that begin with them, both parts are the same or they differ.
Cuts(u, v) ==
  /\ IsSequence(u) /\ IsSequence(v)
  /\ \A x, y : IsSequence(x) /\ IsSequence(y) /\ u \o x = v \o y => u = v /\ x = y

\* Parts of one length cut.
LEMMA SameLengthCuts ==
  ASSUME NEW u, NEW v, IsSequence(u), IsSequence(v), Len(u) = Len(v)
  PROVE  Cuts(u, v)
<1>1. ASSUME NEW x, NEW y, IsSequence(x), IsSequence(y)
      PROVE  u \o x = v \o y => u = v /\ x = y
  <2>1. Len(u) \in Nat /\ Len(x) \in Nat /\ Len(y) \in Nat
    BY <1>1, SequenceFacts
  <2>2. JoinedFacts(u, x)
    BY <1>1, Joined
  <2>3. JoinedFacts(v, y)
    BY <1>1, Joined
  <2> SUFFICES ASSUME u \o x = v \o y PROVE u = v /\ x = y
    OBVIOUS
  <2>4. Len(x) = Len(y)
    BY <2>1, <2>2, <2>3 DEF JoinedFacts
  <2>5. \A i \in 1 .. Len(u) : u[i] = v[i]
    BY <2>2, <2>3 DEF JoinedFacts
  <2>6. \A i \in 1 .. Len(x) : x[i] = y[i]
    BY <2>2, <2>3, <2>4 DEF JoinedFacts
  <2>7. u = v
    BY <2>5, SequenceFacts
  <2>8. x = y
    BY <1>1, <2>4, <2>6, SequenceFacts
  <2> QED BY <2>7, <2>8
<1> QED BY <1>1 DEF Cuts

\* Two parts in a row, cut and compared part by part.
CutsBoth(s, t, u, v) == Cuts(s \o t, u \o v) /\ (s \o t = u \o v => s = u /\ t = v)

\* Cut one after the other.
LEMMA CutsJoined ==
  ASSUME NEW s, NEW t, NEW u, NEW v, Cuts(s, u), Cuts(t, v)
  PROVE  CutsBoth(s, t, u, v)
<1> USE DEF CutsBoth
<1>1. IsSequence(s) /\ IsSequence(t) /\ IsSequence(u) /\ IsSequence(v)
  BY DEF Cuts
<1>2. s \o t = u \o v => s = u /\ t = v
  BY <1>1 DEF Cuts
<1>3. IsSequence(s \o t) /\ IsSequence(u \o v)
  BY <1>1, Joined DEF JoinedFacts
<1>4. ASSUME NEW x, NEW y, IsSequence(x), IsSequence(y)
      PROVE  (s \o t) \o x = (u \o v) \o y => s \o t = u \o v /\ x = y
  <2>1. (s \o t) \o x = s \o (t \o x)
    BY ONLY <1>1, <1>4, JoinedTwice, SMTT(60)
  <2>2. (u \o v) \o y = u \o (v \o y)
    BY ONLY <1>1, <1>4, JoinedTwice, SMTT(60)
  <2>3. IsSequence(t \o x) /\ IsSequence(v \o y)
    BY <1>1, <1>4, Joined DEF JoinedFacts
  <2> SUFFICES ASSUME (s \o t) \o x = (u \o v) \o y PROVE s \o t = u \o v /\ x = y
    OBVIOUS
  <2>4. s \o (t \o x) = u \o (v \o y)
    BY <2>1, <2>2
  <2>5. s = u /\ t \o x = v \o y
    BY <2>3, <2>4 DEF Cuts
  <2>6. t = v /\ x = y
    BY <1>4, <2>5 DEF Cuts
  <2> QED BY <2>5, <2>6
<1> QED BY <1>2, <1>3, <1>4 DEF Cuts

\* Cut before anything.
LEMMA CutsBefore ==
  ASSUME NEW s, NEW t, NEW u, NEW v, Cuts(s, u), IsSequence(t), IsSequence(v), s \o t = u \o v
  PROVE  s = u /\ t = v
BY DEF Cuts

\* What differs and can be cut differs whatever follows.
LEMMA CutsAtOnce ==
  ASSUME NEW s, NEW t, NEW u, NEW v, Cuts(s, u), IsSequence(t), IsSequence(v), s # u
  PROVE  Cuts(s \o t, u \o v)
<1>1. IsSequence(s) /\ IsSequence(u)
  BY DEF Cuts
<1>2. IsSequence(s \o t) /\ IsSequence(u \o v)
  BY <1>1, Joined DEF JoinedFacts
<1>3. ASSUME NEW x, NEW y, IsSequence(x), IsSequence(y)
      PROVE  (s \o t) \o x # (u \o v) \o y
  <2>1. (s \o t) \o x = s \o (t \o x)
    BY ONLY <1>1, <1>3, JoinedTwice
  <2>2. (u \o v) \o y = u \o (v \o y)
    BY ONLY <1>1, <1>3, JoinedTwice
  <2>3. IsSequence(t \o x) /\ IsSequence(v \o y)
    BY <1>1, <1>3, Joined DEF JoinedFacts
  <2>4. s \o (t \o x) # u \o (v \o y)
    BY <2>3 DEF Cuts
  <2> QED BY <2>1, <2>2, <2>4
<1> QED BY <1>2, <1>3 DEF Cuts

\* A block is a sequence of one.
LEMMA Single ==
  ASSUME NEW x
  PROVE  IsSequence(<<x>>) /\ Len(<<x>>) = 1 /\ <<x>>[1] = x
<1>1. <<x>> \in Seq({x})
  OBVIOUS
<1> QED BY <1>1, Sequences

\* A framed field is cut at its length.
LEMMA FramedCuts ==
  ASSUME NEW a, NEW b, IsSequence(a), IsSequence(b)
  PROVE  Cuts(Framed(a), Framed(b)) /\ (Framed(a) = Framed(b) => a = b)
<1> DEFINE p == LengthPrefix(Len(a))
           q == LengthPrefix(Len(b))
<1>1. /\ IsSequence(p) /\ Len(p) = 1 /\ p[1] = <<Len(a)>>
      /\ IsSequence(q) /\ Len(q) = 1 /\ q[1] = <<Len(b)>>
  BY Single DEF LengthPrefix
<1>2. Framed(a) = p \o a /\ Framed(b) = q \o b
  BY DEF Framed
<1> HIDE DEF p, q
<1>3. Cuts(p, q)
  BY <1>1, SameLengthCuts
<1>4. p = q => Len(a) = Len(b)
  BY <1>1
<1>5. IsSequence(p \o a) /\ IsSequence(q \o b)
  BY <1>1, Joined DEF JoinedFacts
<1>6. Framed(a) = Framed(b) => a = b
  BY <1>2, <1>3, CutsBefore
<1>7. ASSUME NEW x, NEW y, IsSequence(x), IsSequence(y)
      PROVE  (p \o a) \o x = (q \o b) \o y => p \o a = q \o b /\ x = y
  <2>0. IsSequence(p) /\ IsSequence(q)
    BY <1>1
  <2>1. (p \o a) \o x = p \o (a \o x)
    BY <1>7, <2>0, JoinedTwice, SMTT(60)
  <2>2. (q \o b) \o y = q \o (b \o y)
    BY <1>7, <2>0, JoinedTwice, SMTT(60)
  <2>3. IsSequence(a \o x) /\ IsSequence(b \o y)
    BY <1>7, Joined DEF JoinedFacts
  <2> SUFFICES ASSUME (p \o a) \o x = (q \o b) \o y PROVE p \o a = q \o b /\ x = y
    OBVIOUS
  <2>4. p \o (a \o x) = q \o (b \o y)
    BY <2>1, <2>2
  <2>5. p = q /\ a \o x = b \o y
    BY <1>3, <2>3, <2>4, CutsBefore
  <2>6. Cuts(a, b)
    BY <1>4, <2>5, SameLengthCuts
  <2>7. a = b /\ x = y
    BY <1>7, <2>5, <2>6, CutsBefore
  <2> QED BY <2>5, <2>7
<1> QED BY <1>2, <1>5, <1>6, <1>7 DEF Cuts

\* A framed block of one size cuts, and is known by its content.
LEMMA BlockCuts ==
  ASSUME NEW x, NEW y
  PROVE  /\ Cuts(Framed(Block(x)), Framed(Block(y)))
         /\ Framed(Block(x)) = Framed(Block(y)) => x = y
         /\ IsSequence(Framed(Block(x))) /\ Len(Framed(Block(x))) = 2
         /\ Framed(Block(x))[1] = <<1>> /\ Framed(Block(x))[2] = <<x>>
<1>1. /\ IsSequence(Block(x)) /\ Len(Block(x)) = 1 /\ Block(x)[1] = <<x>>
      /\ IsSequence(Block(y)) /\ Len(Block(y)) = 1 /\ Block(y)[1] = <<y>>
  BY Single DEF Block
<1>2. Cuts(Framed(Block(x)), Framed(Block(y))) /\ (Framed(Block(x)) = Framed(Block(y)) => Block(x) = Block(y))
  BY <1>1, FramedCuts
<1> DEFINE p == LengthPrefix(1)
<1>3. IsSequence(p) /\ Len(p) = 1 /\ p[1] = <<1>>
  BY Single DEF LengthPrefix
<1>4. Framed(Block(x)) = p \o Block(x)
  BY <1>1 DEF Framed
<1> HIDE DEF p
<1> DEFINE b == Block(x)
<1> HIDE DEF b
<1>5. JoinedFacts(p, b)
  <2>1. IsSequence(p) /\ IsSequence(b)
    BY <1>1, <1>3 DEF b
  <2> QED BY <2>1, Joined
<1>7. Len(b) = 1
  BY <1>1 DEF b
<1>6. Len(p \o b) = 2 /\ (p \o b)[1] = <<1>> /\ (p \o b)[2] = b[1]
  <2>1. 1 \in 1 .. 1 /\ 1 + 1 = 2
    OBVIOUS
  <2> QED BY <1>3, <1>5, <1>7, <2>1 DEF JoinedFacts
<1> QED BY <1>1, <1>2, <1>4, <1>5, <1>6 DEF b, JoinedFacts

----------------------------------------------------------------------------
(* Lists of elements of one size.                                          *)

\* The framed elements of a list, without its count.
Laid(e) == FlattenSeq([i \in DOMAIN e |-> Framed(Block(e[i]))])

\* Every framed element takes two places.
LaidFacts(e, f) ==
  /\ IsSequence(f) /\ Len(f) = 2 * Len(e)
  /\ \A k \in 1 .. Len(e) : f[2 * k] = <<e[k]>>

\* Elements framed one after the other are found at the even places.
LEMMA LaidElements ==
  ASSUME NEW e, IsSequence(e)
  PROVE  LaidFacts(e, Laid(e))
<1> DEFINE n == Len(e)
           seqs == [i \in DOMAIN e |-> Framed(Block(e[i]))]
           Eq(h) == h = [i \in 1 .. n |-> IF i = 1 THEN seqs[i] ELSE h[i - 1] \o seqs[i]]
           Upto(i) == [m \in 1 .. 2 * i |-> IF m % 2 = 1 THEN <<1>> ELSE <<e[m \div 2]>>]
<1>1. n \in Nat /\ DOMAIN e = 1 .. n
  BY SequenceFacts
<1>2. DOMAIN seqs = 1 .. n /\ Len(seqs) = n
  <2>1. DOMAIN seqs = 1 .. n /\ seqs = [i \in DOMAIN seqs |-> seqs[i]]
    BY <1>1
  <2> HIDE DEF seqs
  <2> QED BY <1>1, <2>1, FunctionIsSequence
<1>3. ASSUME NEW i \in 1 .. n
      PROVE  IsSequence(seqs[i]) /\ Len(seqs[i]) = 2 /\ seqs[i][1] = <<1>> /\ seqs[i][2] = <<e[i]>>
  <2>1. /\ IsSequence(Framed(Block(e[i]))) /\ Len(Framed(Block(e[i]))) = 2
        /\ Framed(Block(e[i]))[1] = <<1>> /\ Framed(Block(e[i]))[2] = <<e[i]>>
    BY BlockCuts
  <2>2. seqs[i] = Framed(Block(e[i]))
    BY <1>1
  <2> QED BY <2>1, <2>2
<1> HIDE DEF seqs
<1>4. ASSUME NEW i \in 1 .. n
      PROVE  /\ IsSequence(Upto(i)) /\ Len(Upto(i)) = 2 * i
             /\ \A k \in 1 .. i : Upto(i)[2 * k - 1] = <<1>> /\ Upto(i)[2 * k] = <<e[k]>>
  <2>1. DOMAIN Upto(i) = 1 .. 2 * i /\ Upto(i) = [m \in DOMAIN Upto(i) |-> Upto(i)[m]]
    OBVIOUS
  <2>2. IsSequence(Upto(i)) /\ Len(Upto(i)) = 2 * i
    <3>1. 2 * i \in Nat
      BY <1>1
    <3> HIDE DEF Upto
    <3> QED BY <2>1, <3>1, FunctionIsSequence
  <2>3. ASSUME NEW k \in 1 .. i
        PROVE  Upto(i)[2 * k - 1] = <<1>> /\ Upto(i)[2 * k] = <<e[k]>>
    <3>1. /\ 2 * k - 1 \in 1 .. 2 * i /\ (2 * k - 1) % 2 = 1
          /\ 2 * k \in 1 .. 2 * i /\ (2 * k) % 2 # 1 /\ (2 * k) \div 2 = k
      BY <1>1
    <3> QED BY <3>1
  <2> QED BY <2>2, <2>3
<1>5. ASSUME NEW i \in 1 .. n, NEW m \in 1 .. 2 * i
      PROVE  \E k \in 1 .. i : m = 2 * k - 1 \/ m = 2 * k
  <2>1. (m + 1) \div 2 \in 1 .. i /\ (m = 2 * ((m + 1) \div 2) - 1 \/ m = 2 * ((m + 1) \div 2))
    BY <1>1
  <2> QED BY <2>1
<1> HIDE DEF Upto
<1>6. ASSUME 1 \in 1 .. n PROVE Upto(1) = seqs[1]
  <2>1. \A m \in 1 .. 2 : Upto(1)[m] = seqs[1][m]
    <3>1. 1 \in 1 .. 1 /\ 2 * 1 - 1 = 1 /\ 2 * 1 = 2 /\ \A m \in 1 .. 2 : m = 1 \/ m = 2
      OBVIOUS
    <3>2. Upto(1)[2 * 1 - 1] = <<1>> /\ Upto(1)[2 * 1] = <<e[1]>>
      BY <1>4, <1>6, <3>1
    <3> QED BY <1>3, <1>6, <3>1, <3>2
  <2>2. IsSequence(Upto(1)) /\ Len(Upto(1)) = 2 * 1
    BY <1>4, <1>6
  <2>3. IsSequence(seqs[1]) /\ Len(seqs[1]) = 2
    BY <1>3, <1>6
  <2> QED BY <2>1, <2>2, <2>3, SequenceFacts
<1>7. ASSUME NEW i \in 2 .. n PROVE Upto(i) = Upto(i - 1) \o seqs[i]
  <2>1. i \in 1 .. n /\ i - 1 \in 1 .. n /\ i \in Int
    BY <1>1
  <2>2. /\ IsSequence(Upto(i)) /\ Len(Upto(i)) = 2 * i
        /\ \A k \in 1 .. i : Upto(i)[2 * k - 1] = <<1>> /\ Upto(i)[2 * k] = <<e[k]>>
    BY <1>4, <2>1
  <2>3. /\ IsSequence(Upto(i - 1)) /\ Len(Upto(i - 1)) = 2 * (i - 1)
        /\ \A k \in 1 .. i - 1 : Upto(i - 1)[2 * k - 1] = <<1>> /\ Upto(i - 1)[2 * k] = <<e[k]>>
    BY <1>4, <2>1
  <2>4. IsSequence(seqs[i]) /\ Len(seqs[i]) = 2 /\ seqs[i][1] = <<1>> /\ seqs[i][2] = <<e[i]>>
    BY <1>3, <2>1
  <2> DEFINE a == Upto(i - 1)
             b == seqs[i]
  <2>5. JoinedFacts(a, b)
    BY <2>3, <2>4, Joined
  <2> HIDE DEF a, b
  <2>6. /\ IsSequence(a \o b) /\ Len(a \o b) = 2 * i
        /\ \A m \in 1 .. 2 * (i - 1) : (a \o b)[m] = a[m]
        /\ \A m \in 1 .. 2 : (a \o b)[2 * (i - 1) + m] = b[m]
    <3>1. Len(a) = 2 * (i - 1) /\ Len(b) = 2 /\ 2 * (i - 1) + 2 = 2 * i
      BY <2>1, <2>3, <2>4 DEF a, b
    <3>2. /\ IsSequence(a \o b) /\ Len(a \o b) = 2 * (i - 1) + 2
          /\ \A m \in 1 .. 2 * (i - 1) : (a \o b)[m] = a[m]
          /\ \A m \in 1 .. 2 : (a \o b)[2 * (i - 1) + m] = b[m]
      BY <2>5, <3>1 DEF JoinedFacts
    <3> QED BY <3>1, <3>2
  <2>7. ASSUME NEW k \in 1 .. i
        PROVE  (a \o b)[2 * k - 1] = <<1>> /\ (a \o b)[2 * k] = <<e[k]>>
    <3>1. CASE k = i
      <4>1. 2 * k - 1 = 2 * (i - 1) + 1 /\ 2 * k = 2 * (i - 1) + 2 /\ 1 \in 1 .. 2 /\ 2 \in 1 .. 2
        BY <2>1, <3>1
      <4>2. (a \o b)[2 * (i - 1) + 1] = b[1] /\ (a \o b)[2 * (i - 1) + 2] = b[2]
        BY <2>6, <4>1
      <4> QED BY <2>4, <3>1, <4>1, <4>2 DEF b
    <3>2. CASE k # i
      <4>1. k \in 1 .. i - 1 /\ 2 * k - 1 \in 1 .. 2 * (i - 1) /\ 2 * k \in 1 .. 2 * (i - 1)
        BY <2>1, <3>2
      <4>2. (a \o b)[2 * k - 1] = a[2 * k - 1] /\ (a \o b)[2 * k] = a[2 * k]
        BY <2>6, <4>1
      <4> QED BY <2>3, <4>1, <4>2 DEF a
    <3> QED BY <3>1, <3>2
  <2>8. \A m \in 1 .. 2 * i : Upto(i)[m] = (a \o b)[m]
    <3> SUFFICES ASSUME NEW m \in 1 .. 2 * i PROVE Upto(i)[m] = (a \o b)[m]
      OBVIOUS
    <3>1. PICK k \in 1 .. i : m = 2 * k - 1 \/ m = 2 * k
      BY <1>5, <2>1
    <3> QED BY <2>2, <2>7, <3>1
  <2>9. Upto(i) = a \o b
    BY <2>2, <2>6, <2>8, SequenceFacts
  <2> QED BY <2>9 DEF a, b
<1>8. \A h : Eq(h) => \A i \in 1 .. n : h[i] = Upto(i)
  <2> SUFFICES ASSUME NEW h, Eq(h) PROVE \A i \in 1 .. n : h[i] = Upto(i)
    OBVIOUS
  <2>0. \A j \in 1 .. n : h[j] = IF j = 1 THEN seqs[j] ELSE h[j - 1] \o seqs[j]
    <3> DEFINE g(j) == IF j = 1 THEN seqs[j] ELSE h[j - 1] \o seqs[j]
    <3>1. h = [j \in 1 .. n |-> g(j)]
      OBVIOUS
    <3> HIDE DEF g
    <3>2. \A j \in 1 .. n : h[j] = g(j)
      BY <3>1
    <3> QED BY <3>2 DEF g
  <2> HIDE DEF Eq
  <2> DEFINE T == {i \in Nat : i \in 1 .. n => h[i] = Upto(i)}
  <2>1. 0 \in T
    OBVIOUS
  <2>2. ASSUME NEW i \in Nat, i \in T PROVE i + 1 \in T
    <3> SUFFICES ASSUME i + 1 \in 1 .. n PROVE h[i + 1] = Upto(i + 1)
      <4>1. i + 1 \in Nat
        OBVIOUS
      <4> QED BY <4>1
    <3>1. CASE i = 0
      <4>1. 1 \in 1 .. n /\ i + 1 = 1
        BY <3>1
      <4>2. h[1] = seqs[1]
        BY <2>0, <4>1
      <4> QED BY <1>6, <4>1, <4>2
    <3>2. CASE i # 0
      <4>1. i + 1 \in 2 .. n /\ i \in 1 .. n /\ (i + 1) - 1 = i
        BY <1>1, <3>2
      <4>2. h[i + 1] = h[i] \o seqs[i + 1]
        <5>1. i + 1 \in 1 .. n /\ i + 1 # 1
          BY <1>1, <4>1
        <5> QED BY <2>0, <4>1, <5>1
      <4>3. Upto(i + 1) = Upto(i) \o seqs[i + 1]
        BY <1>7, <4>1
      <4>4. h[i] = Upto(i)
        BY <2>2, <4>1
      <4> QED BY <4>2, <4>3, <4>4
    <3> QED BY <3>1, <3>2
  <2>3. Nat \subseteq T
    <3> HIDE DEF T
    <3> QED BY <2>1, <2>2, AllNaturals
  <2>4. \A i \in 1 .. n : i \in Nat
    BY <1>1
  <2> QED BY <2>3, <2>4
<1>9. n # 0 => Eq([i \in 1 .. n |-> Upto(i)])
  <2> SUFFICES ASSUME n # 0 PROVE Eq([i \in 1 .. n |-> Upto(i)])
    OBVIOUS
  <2>1. ASSUME NEW i \in 1 .. n
        PROVE  Upto(i) = IF i = 1 THEN seqs[i] ELSE [j \in 1 .. n |-> Upto(j)][i - 1] \o seqs[i]
    <3>1. CASE i = 1
      BY <1>6, <3>1
    <3>2. CASE i # 1
      <4>1. i \in 2 .. n /\ i - 1 \in 1 .. n
        BY <1>1, <3>2
      <4> QED BY <1>7, <3>2, <4>1
    <3> QED BY <3>1, <3>2
  <2> QED BY <2>1
<1>10. n # 0 => Laid(e) = Upto(n)
  <2> SUFFICES ASSUME n # 0 PROVE Laid(e) = Upto(n)
    OBVIOUS
  <2>1. Laid(e) = (CHOOSE h : Eq(h))[n]
    BY <1>2 DEF Laid, FlattenSeq, seqs
  <2> HIDE DEF Eq
  <2>2. Eq(CHOOSE h : Eq(h))
    BY <1>9
  <2>3. n \in 1 .. n
    BY <1>1
  <2> QED BY <1>8, <2>1, <2>2, <2>3
<1>11. CASE n = 0
  <2>1. Laid(e) = seqs
    BY <1>2, <1>11 DEF Laid, FlattenSeq, seqs
  <2>2. DOMAIN seqs = 1 .. n /\ seqs = [i \in DOMAIN seqs |-> seqs[i]]
    BY <1>2 DEF seqs
  <2>3. IsSequence(seqs) /\ Len(seqs) = n
    BY <1>1, <2>2, FunctionIsSequence
  <2> QED BY <1>11, <2>1, <2>3 DEF LaidFacts
<1>12. CASE n # 0
  <2>1. n \in 1 .. n
    BY <1>1, <1>12
  <2> QED BY <1>4, <1>10, <1>12, <2>1 DEF LaidFacts
<1> QED BY <1>11, <1>12

\* Lists of one length cut, element by element.
LEMMA LaidCuts ==
  ASSUME NEW a, NEW b, IsSequence(a), IsSequence(b)
  PROVE  /\ Laid(a) = Laid(b) => a = b
         /\ Len(a) = Len(b) => Cuts(Laid(a), Laid(b))
<1>1. LaidFacts(a, Laid(a)) /\ LaidFacts(b, Laid(b)) /\ Len(a) \in Nat /\ Len(b) \in Nat
  BY LaidElements, SequenceFacts
<1>2. Len(a) = Len(b) => Cuts(Laid(a), Laid(b))
  BY <1>1, SameLengthCuts DEF LaidFacts
<1>3. ASSUME Laid(a) = Laid(b) PROVE a = b
  <2>1. Len(a) = Len(b)
    BY <1>1, <1>3 DEF LaidFacts
  <2>2. ASSUME NEW k \in 1 .. Len(a) PROVE a[k] = b[k]
    <3>1. <<a[k]>> = <<b[k]>>
      BY <1>1, <1>3, <2>1 DEF LaidFacts
    <3> QED BY <3>1
  <2> QED BY <2>1, <2>2, SequenceFacts
<1> QED BY <1>2, <1>3

\* A list is cut at its count.
LEMMA ListCuts ==
  ASSUME NEW a, NEW b, IsSequence(a), IsSequence(b)
  PROVE  Cuts(FramedList(a), FramedList(b)) /\ (FramedList(a) = FramedList(b) => a = b)
<1> DEFINE p == LengthPrefix(Len(a))
           q == LengthPrefix(Len(b))
<1>1. /\ IsSequence(p) /\ Len(p) = 1 /\ p[1] = <<Len(a)>>
      /\ IsSequence(q) /\ Len(q) = 1 /\ q[1] = <<Len(b)>>
  BY Single DEF LengthPrefix
<1>2. FramedList(a) = p \o Laid(a) /\ FramedList(b) = q \o Laid(b)
  BY DEF FramedList, Laid
<1> HIDE DEF p, q
<1>3. Cuts(p, q)
  BY <1>1, SameLengthCuts
<1>4. p = q => Len(a) = Len(b)
  BY <1>1
<1>5. IsSequence(Laid(a)) /\ IsSequence(Laid(b))
  BY LaidElements DEF LaidFacts
<1>6. FramedList(a) = FramedList(b) => a = b
  <2>1. p \o Laid(a) = q \o Laid(b) => Laid(a) = Laid(b)
    BY <1>3, <1>5, CutsBefore
  <2> QED BY <1>2, <2>1, LaidCuts
<1>7. CASE p = q
  <2>1. Cuts(Laid(a), Laid(b))
    BY <1>4, <1>7, LaidCuts
  <2>2. Cuts(p \o Laid(a), q \o Laid(b))
    BY <1>3, <2>1, CutsJoined DEF CutsBoth
  <2> QED BY <1>2, <1>6, <2>2
<1>8. CASE p # q
  <2>1. Cuts(p \o Laid(a), q \o Laid(b))
    BY <1>3, <1>5, <1>8, CutsAtOnce
  <2> QED BY <1>2, <1>6, <2>1
<1> QED BY <1>7, <1>8

\* Eight fields and five, each of which can be cut.
FieldsCut(n, a, b) == \A i \in 1 .. n : Cuts(a[i], b[i])
\* The first n parts are the same.
FieldsEqual(n, a, b) == \A i \in 1 .. n : a[i] = b[i]
\* Parts in a row, as the statement (eight) and the range messages (five) are.
Five(a) == a[1] \o a[2] \o a[3] \o a[4] \o a[5]
Eight(a) == Five(a) \o a[6] \o a[7] \o a[8]

\* Parts that cut, in a row, cut.
LEMMA FieldsCuts ==
  ASSUME NEW a, NEW b
  PROVE  /\ FieldsCut(5, a, b) =>
              Cuts(Five(a), Five(b)) /\ (Five(a) = Five(b) => FieldsEqual(5, a, b))
         /\ FieldsCut(8, a, b) =>
              Cuts(Eight(a), Eight(b)) /\ (Eight(a) = Eight(b) => FieldsEqual(8, a, b))
<1>1. ASSUME FieldsCut(5, a, b)
      PROVE  Cuts(Five(a), Five(b)) /\ (Five(a) = Five(b) => FieldsEqual(5, a, b))
  <2>1. /\ Cuts(a[1], b[1]) /\ Cuts(a[2], b[2]) /\ Cuts(a[3], b[3])
        /\ Cuts(a[4], b[4]) /\ Cuts(a[5], b[5])
    BY <1>1 DEF FieldsCut
  <2> DEFINE a2 == a[1] \o a[2]
             b2 == b[1] \o b[2]
             a3 == a2 \o a[3]
             b3 == b2 \o b[3]
             a4 == a3 \o a[4]
             b4 == b3 \o b[4]
  <2>2. Cuts(a2, b2) /\ (a2 = b2 => a[1] = b[1] /\ a[2] = b[2])
    <3>1. CutsBoth(a[1], a[2], b[1], b[2])
      BY <2>1, CutsJoined
    <3> QED BY <3>1 DEF CutsBoth
  <2> HIDE DEF a2, b2
  <2>3. Cuts(a3, b3) /\ (a3 = b3 => a2 = b2 /\ a[3] = b[3])
    <3>1. CutsBoth(a2, a[3], b2, b[3])
      BY <2>1, <2>2, CutsJoined
    <3> QED BY <3>1 DEF CutsBoth
  <2> HIDE DEF a3, b3
  <2>4. Cuts(a4, b4) /\ (a4 = b4 => a3 = b3 /\ a[4] = b[4])
    <3>1. CutsBoth(a3, a[4], b3, b[4])
      BY <2>1, <2>3, CutsJoined
    <3> QED BY <3>1 DEF CutsBoth
  <2> HIDE DEF a4, b4
  <2>5. Cuts(a4 \o a[5], b4 \o b[5]) /\ (a4 \o a[5] = b4 \o b[5] => a4 = b4 /\ a[5] = b[5])
    <3>1. CutsBoth(a4, a[5], b4, b[5])
      BY <2>1, <2>4, CutsJoined
    <3> QED BY <3>1 DEF CutsBoth
  <2>6. Five(a) = a4 \o a[5] /\ Five(b) = b4 \o b[5]
    BY DEF Five, a4, a3, a2, b4, b3, b2
  <2>7. \A i \in 1 .. 5 : i = 1 \/ i = 2 \/ i = 3 \/ i = 4 \/ i = 5
    OBVIOUS
  <2> QED BY <2>2, <2>3, <2>4, <2>5, <2>6, <2>7 DEF FieldsEqual
<1>2. ASSUME FieldsCut(8, a, b)
      PROVE  Cuts(Eight(a), Eight(b)) /\ (Eight(a) = Eight(b) => FieldsEqual(8, a, b))
  <2>1. Cuts(a[6], b[6]) /\ Cuts(a[7], b[7]) /\ Cuts(a[8], b[8]) /\ FieldsCut(5, a, b)
    BY <1>2 DEF FieldsCut
  <2> DEFINE a5 == Five(a)
             b5 == Five(b)
             a6 == a5 \o a[6]
             b6 == b5 \o b[6]
             a7 == a6 \o a[7]
             b7 == b6 \o b[7]
  <2>2. Cuts(a5, b5) /\ (a5 = b5 => FieldsEqual(5, a, b))
    BY <1>1, <2>1
  <2> HIDE DEF a5, b5
  <2>3. Cuts(a6, b6) /\ (a6 = b6 => a5 = b5 /\ a[6] = b[6])
    <3>1. CutsBoth(a5, a[6], b5, b[6])
      BY <2>1, <2>2, CutsJoined
    <3> QED BY <3>1 DEF CutsBoth
  <2> HIDE DEF a6, b6
  <2>4. Cuts(a7, b7) /\ (a7 = b7 => a6 = b6 /\ a[7] = b[7])
    <3>1. CutsBoth(a6, a[7], b6, b[7])
      BY <2>1, <2>3, CutsJoined
    <3> QED BY <3>1 DEF CutsBoth
  <2> HIDE DEF a7, b7
  <2>5. Cuts(a7 \o a[8], b7 \o b[8]) /\ (a7 \o a[8] = b7 \o b[8] => a7 = b7 /\ a[8] = b[8])
    <3>1. CutsBoth(a7, a[8], b7, b[8])
      BY <2>1, <2>4, CutsJoined
    <3> QED BY <3>1 DEF CutsBoth
  <2>6. Eight(a) = a7 \o a[8] /\ Eight(b) = b7 \o b[8]
    BY DEF Eight, a7, a6, a5, b7, b6, b5
  <2>7. \A i \in 1 .. 8 : i \in 1 .. 5 \/ i = 6 \/ i = 7 \/ i = 8
    OBVIOUS
  <2> QED BY <2>2, <2>3, <2>4, <2>5, <2>6, <2>7 DEF FieldsEqual
<1> QED BY <1>1, <1>2

----------------------------------------------------------------------------
(* The statement.                                                          *)

\* The inputs of a seal whose statement is made.
Stated(in) ==
  in.context \in Contexts /\ in.key \in Keys /\ in.secret \in Secrets /\ in.residual \in ResidualAnnouncements

\* The lists that a statement absorbs.
Pairs(x, key) ==
  [i \in 1 .. 2 * Len(x.v) |->
    LET k == (i + 1) \div 2
    IN  IF i % 2 = 1 THEN <<"E", x.r[k]>> ELSE <<"D", x.v[k], x.r[k], key>>]
\* The lists of commitments of a statement: limbs, complements, carries.
Coms(x) == [k \in LimbsOf(x) |-> Com(x.v[k], x.s[k])]
ComBars(x) == [k \in LimbsOf(x) |-> Com(-x.v[k], x.sBar[k])]
CarryComs(x) == [k \in DOMAIN x.g |-> Com(<<"carry", x.v>>, x.g[k])]

\* The statement, part by part.
StatementParts(in) ==
  << Framed(in.context[1]), Framed(in.context[2]),
     Framed(Block(<<"C", in.secret.v>>)), Framed(Block(in.key)),
     FramedList(Pairs(in.secret, in.key)), FramedList(Coms(in.secret)),
     FramedList(ComBars(in.secret)), FramedList(CarryComs(in.secret)) >>

\* The shape of a secret.
LEMMA SecretFacts ==
  ASSUME NEW x \in Secrets
  PROVE  /\ x = [v |-> x.v, r |-> x.r, s |-> x.s, sBar |-> x.sBar, g |-> x.g]
         /\ IsSequence(x.v) /\ IsSequence(x.r) /\ IsSequence(x.s) /\ IsSequence(x.sBar)
         /\ IsSequence(x.g)
         /\ Len(x.r) = Len(x.v) /\ Len(x.s) = Len(x.v) /\ Len(x.sBar) = Len(x.v)
         /\ Len(x.v) \in Nat /\ Len(x.g) \in Nat
         /\ LimbsOf(x) = 1 .. Len(x.v) /\ DOMAIN x.g = 1 .. Len(x.g)
<1>1. /\ x = [v |-> x.v, r |-> x.r, s |-> x.s, sBar |-> x.sBar, g |-> x.g]
      /\ \A f \in {"v", "r", "s", "sBar", "g"} : IsSequence(x[f])
      /\ \A f \in {"r", "s", "sBar"} : Len(x[f]) = Len(x.v)
  BY ProofNoncesAssumption
<1>2. IsSequence(x.v) /\ IsSequence(x.r) /\ IsSequence(x.s) /\ IsSequence(x.sBar) /\ IsSequence(x.g)
  BY <1>1
<1>3. Len(x.r) = Len(x.v) /\ Len(x.s) = Len(x.v) /\ Len(x.sBar) = Len(x.v)
  BY <1>1
<1>4. /\ Len(x.v) \in Nat /\ Len(x.g) \in Nat
      /\ LimbsOf(x) = 1 .. Len(x.v) /\ DOMAIN x.g = 1 .. Len(x.g)
  BY <1>2, SequenceFacts DEF LimbsOf
<1> QED BY <1>1, <1>2, <1>3, <1>4

\* The lists of a statement are sequences; their lengths are known.
LEMMA StatementLists ==
  ASSUME NEW x \in Secrets, NEW key
  PROVE  /\ IsSequence(Pairs(x, key)) /\ Len(Pairs(x, key)) = 2 * Len(x.v)
         /\ IsSequence(Coms(x)) /\ Len(Coms(x)) = Len(x.v)
         /\ IsSequence(ComBars(x)) /\ Len(ComBars(x)) = Len(x.v)
         /\ IsSequence(CarryComs(x)) /\ Len(CarryComs(x)) = Len(x.g)
<1>1. Len(x.v) \in Nat /\ Len(x.g) \in Nat /\ 2 * Len(x.v) \in Nat
  BY SecretFacts
<1>2. LimbsOf(x) = 1 .. Len(x.v) /\ DOMAIN x.g = 1 .. Len(x.g)
  BY SecretFacts
<1>3. /\ DOMAIN Pairs(x, key) = 1 .. 2 * Len(x.v)
      /\ Pairs(x, key) = [i \in DOMAIN Pairs(x, key) |-> Pairs(x, key)[i]]
  BY DEF Pairs
<1>4. DOMAIN Coms(x) = 1 .. Len(x.v) /\ Coms(x) = [i \in DOMAIN Coms(x) |-> Coms(x)[i]]
  BY <1>2 DEF Coms
<1>5. DOMAIN ComBars(x) = 1 .. Len(x.v) /\ ComBars(x) = [i \in DOMAIN ComBars(x) |-> ComBars(x)[i]]
  BY <1>2 DEF ComBars
<1>6. /\ DOMAIN CarryComs(x) = 1 .. Len(x.g)
      /\ CarryComs(x) = [i \in DOMAIN CarryComs(x) |-> CarryComs(x)[i]]
  BY <1>2 DEF CarryComs
<1>7. IsSequence(Pairs(x, key)) /\ Len(Pairs(x, key)) = 2 * Len(x.v)
  BY <1>1, <1>3, FunctionIsSequence
<1>8. IsSequence(Coms(x)) /\ Len(Coms(x)) = Len(x.v)
  BY <1>1, <1>4, FunctionIsSequence
<1>9. IsSequence(ComBars(x)) /\ Len(ComBars(x)) = Len(x.v)
  BY <1>1, <1>5, FunctionIsSequence
<1>10. IsSequence(CarryComs(x)) /\ Len(CarryComs(x)) = Len(x.g)
  BY <1>1, <1>6, FunctionIsSequence
<1> QED BY <1>7, <1>8, <1>9, <1>10

\* Two secrets that make the same statement under one key are one.
LEMMA SecretIsStated ==
  ASSUME NEW x \in Secrets, NEW y \in Secrets, NEW key, x.v = y.v,
         Pairs(x, key) = Pairs(y, key), Coms(x) = Coms(y), ComBars(x) = ComBars(y),
         CarryComs(x) = CarryComs(y)
  PROVE  x = y
<1> DEFINE n == Len(x.v)
<1>1. /\ n \in Nat /\ LimbsOf(x) = 1 .. n /\ LimbsOf(y) = 1 .. n
      /\ IsSequence(x.r) /\ IsSequence(x.s) /\ IsSequence(x.sBar) /\ IsSequence(x.g)
      /\ IsSequence(y.r) /\ IsSequence(y.s) /\ IsSequence(y.sBar) /\ IsSequence(y.g)
      /\ Len(x.r) = n /\ Len(x.s) = n /\ Len(x.sBar) = n
      /\ Len(y.r) = n /\ Len(y.s) = n /\ Len(y.sBar) = n
      /\ DOMAIN x.g = 1 .. Len(x.g) /\ Len(x.g) \in Nat
      /\ DOMAIN y.g = 1 .. Len(y.g)
  BY SecretFacts
<1>2. ASSUME NEW k \in 1 .. n PROVE x.r[k] = y.r[k]
  <2>1. 2 * k - 1 \in 1 .. 2 * n /\ (2 * k - 1) % 2 = 1 /\ ((2 * k - 1) + 1) \div 2 = k
    BY <1>1
  <2>2. Pairs(x, key)[2 * k - 1] = <<"E", x.r[k]>>
    BY <2>1 DEF Pairs
  <2>3. Pairs(y, key)[2 * k - 1] = <<"E", y.r[k]>>
    BY <2>1 DEF Pairs
  <2>4. <<"E", x.r[k]>> = <<"E", y.r[k]>>
    BY <2>2, <2>3
  <2> QED BY <2>4
<1>3. ASSUME NEW k \in 1 .. n PROVE x.s[k] = y.s[k]
  <2>1. Coms(x)[k] = <<"com", x.v[k], x.s[k]>> /\ Coms(y)[k] = <<"com", y.v[k], y.s[k]>>
    BY <1>1 DEF Coms, Com
  <2>2. <<"com", x.v[k], x.s[k]>> = <<"com", y.v[k], y.s[k]>>
    BY <2>1
  <2> QED BY <2>2
<1>4. ASSUME NEW k \in 1 .. n PROVE x.sBar[k] = y.sBar[k]
  <2>1. ComBars(x)[k] = <<"com", -x.v[k], x.sBar[k]>> /\ ComBars(y)[k] = <<"com", -y.v[k], y.sBar[k]>>
    BY <1>1 DEF ComBars, Com
  <2>2. <<"com", -x.v[k], x.sBar[k]>> = <<"com", -y.v[k], y.sBar[k]>>
    BY <2>1
  <2> QED BY <2>2
<1>5. Len(x.g) = Len(y.g)
  BY StatementLists
<1>6. ASSUME NEW k \in 1 .. Len(x.g) PROVE x.g[k] = y.g[k]
  <2>1. /\ CarryComs(x)[k] = <<"com", <<"carry", x.v>>, x.g[k]>>
        /\ CarryComs(y)[k] = <<"com", <<"carry", y.v>>, y.g[k]>>
    BY <1>1, <1>5 DEF CarryComs, Com
  <2>2. <<"com", <<"carry", x.v>>, x.g[k]>> = <<"com", <<"carry", y.v>>, y.g[k]>>
    BY <2>1
  <2> QED BY <2>2
<1>7. x.r = y.r
  BY <1>1, <1>2, SequenceFacts
<1>8. x.s = y.s
  BY <1>1, <1>3, SequenceFacts, SMTT(60)
<1>9. x.sBar = y.sBar
  BY <1>1, <1>4, SequenceFacts, SMTT(60)
<1>10. x.g = y.g
  BY <1>1, <1>5, <1>6, SequenceFacts, SMTT(60)
<1>11. /\ x = [v |-> x.v, r |-> x.r, s |-> x.s, sBar |-> x.sBar, g |-> x.g]
       /\ y = [v |-> y.v, r |-> y.r, s |-> y.s, sBar |-> y.sBar, g |-> y.g]
  BY SecretFacts
<1> QED BY <1>7, <1>8, <1>9, <1>10, <1>11

\* A statement is cut at its end, and what is absorbed is the statement.
LEMMA StatementCuts ==
  ASSUME NEW a, NEW b, Stated(a), Stated(b)
  PROVE  /\ Cuts(StatementFields(a), StatementFields(b))
         /\ StatementFields(a) = StatementFields(b) => StatementOf(a) = StatementOf(b)
<1> DEFINE p == StatementParts(a)
           q == StatementParts(b)
           x == a.secret
           y == b.secret
<1>1. StatementFields(a) = Eight(p) /\ StatementFields(b) = Eight(q)
  BY DEF StatementFields, StatementParts, Eight, Five, Pairs, Coms, ComBars, CarryComs
<1>2. /\ IsSequence(a.context[1]) /\ IsSequence(a.context[2]) /\ a.context = <<a.context[1], a.context[2]>>
      /\ IsSequence(b.context[1]) /\ IsSequence(b.context[2]) /\ b.context = <<b.context[1], b.context[2]>>
  BY ProofNoncesAssumption DEF Stated
<1>3. x \in Secrets /\ y \in Secrets
  BY DEF Stated
<1>4. /\ IsSequence(Pairs(x, a.key)) /\ IsSequence(Pairs(y, b.key))
      /\ IsSequence(Coms(x)) /\ IsSequence(Coms(y))
      /\ IsSequence(ComBars(x)) /\ IsSequence(ComBars(y))
      /\ IsSequence(CarryComs(x)) /\ IsSequence(CarryComs(y))
  BY <1>3, StatementLists
<1>5. /\ p[1] = Framed(a.context[1]) /\ p[2] = Framed(a.context[2])
      /\ p[3] = Framed(Block(<<"C", x.v>>)) /\ p[4] = Framed(Block(a.key))
      /\ p[5] = FramedList(Pairs(x, a.key)) /\ p[6] = FramedList(Coms(x))
      /\ p[7] = FramedList(ComBars(x)) /\ p[8] = FramedList(CarryComs(x))
  BY DEF StatementParts
<1>6. /\ q[1] = Framed(b.context[1]) /\ q[2] = Framed(b.context[2])
      /\ q[3] = Framed(Block(<<"C", y.v>>)) /\ q[4] = Framed(Block(b.key))
      /\ q[5] = FramedList(Pairs(y, b.key)) /\ q[6] = FramedList(Coms(y))
      /\ q[7] = FramedList(ComBars(y)) /\ q[8] = FramedList(CarryComs(y))
  BY DEF StatementParts
<1> HIDE DEF p, q
<1>7. /\ Cuts(p[1], q[1]) /\ (p[1] = q[1] => a.context[1] = b.context[1])
      /\ Cuts(p[2], q[2]) /\ (p[2] = q[2] => a.context[2] = b.context[2])
  BY <1>2, <1>5, <1>6, FramedCuts
<1>8. /\ Cuts(p[3], q[3]) /\ (p[3] = q[3] => <<"C", x.v>> = <<"C", y.v>>)
      /\ Cuts(p[4], q[4]) /\ (p[4] = q[4] => a.key = b.key)
  BY <1>5, <1>6, BlockCuts
<1>9. /\ Cuts(p[5], q[5]) /\ (p[5] = q[5] => Pairs(x, a.key) = Pairs(y, b.key))
      /\ Cuts(p[6], q[6]) /\ (p[6] = q[6] => Coms(x) = Coms(y))
      /\ Cuts(p[7], q[7]) /\ (p[7] = q[7] => ComBars(x) = ComBars(y))
      /\ Cuts(p[8], q[8]) /\ (p[8] = q[8] => CarryComs(x) = CarryComs(y))
  BY <1>4, <1>5, <1>6, ListCuts
<1>10. FieldsCut(8, p, q)
  <2>1. \A i \in 1 .. 8 : i = 1 \/ i = 2 \/ i = 3 \/ i = 4 \/ i = 5 \/ i = 6 \/ i = 7 \/ i = 8
    OBVIOUS
  <2> QED BY <1>7, <1>8, <1>9, <2>1 DEF FieldsCut
<1>11. Cuts(Eight(p), Eight(q)) /\ (Eight(p) = Eight(q) => FieldsEqual(8, p, q))
  BY <1>10, FieldsCuts
<1>12. ASSUME FieldsEqual(8, p, q) PROVE StatementOf(a) = StatementOf(b)
  <2>1. /\ p[1] = q[1] /\ p[2] = q[2] /\ p[3] = q[3] /\ p[4] = q[4]
        /\ p[5] = q[5] /\ p[6] = q[6] /\ p[7] = q[7] /\ p[8] = q[8]
    BY <1>12 DEF FieldsEqual
  <2>2. a.context = b.context
    BY <1>2, <1>7, <2>1
  <2>3. <<"C", x.v>> = <<"C", y.v>>
    BY <1>8, <2>1
  <2>4. x.v = y.v
    BY <2>3
  <2>5. a.key = b.key
    BY <1>8, <2>1
  <2>6. x = y
    BY <1>3, <1>9, <2>1, <2>4, <2>5, SecretIsStated
  <2> QED BY <2>2, <2>5, <2>6 DEF StatementOf
<1> QED BY <1>1, <1>11, <1>12, SMTT(60)

----------------------------------------------------------------------------
(* The range proof.                                                        *)

\* The messages of a range proof, part by part.
RangeParts(r) ==
  << Laid(r.flights), FramedList([i \in DOMAIN r.folds |-> r.folds[i].x]),
     FramedList([i \in DOMAIN r.folds |-> r.folds[i].r]), FramedList(r.l), FramedList(r.n) >>

\* The shape of a range proof.
LEMMA RangeFacts ==
  ASSUME NEW r \in Ranges
  PROVE  /\ IsSequence(r.flights) /\ Len(r.flights) = 4
         /\ IsSequence(r.folds) /\ DOMAIN r.folds = 1 .. Len(r.folds) /\ Len(r.folds) \in Nat
         /\ IsSequence(r.l) /\ IsSequence(r.n)
         /\ \A i \in DOMAIN r.folds : r.folds[i] = [x |-> r.folds[i].x, r |-> r.folds[i].r]
<1>1. /\ \A f \in {"flights", "folds", "l", "n"} : IsSequence(r[f])
      /\ Len(r.flights) = 4
      /\ \A i \in DOMAIN r.folds : r.folds[i] = [x |-> r.folds[i].x, r |-> r.folds[i].r]
  BY ProofNoncesAssumption
<1>2. IsSequence(r.flights) /\ IsSequence(r.folds) /\ IsSequence(r.l) /\ IsSequence(r.n)
  BY <1>1
<1>3. DOMAIN r.folds = 1 .. Len(r.folds) /\ Len(r.folds) \in Nat
  BY <1>2, SequenceFacts
<1> QED BY <1>1, <1>2, <1>3

\* The lists of the folds' messages are sequences of one length.
LEMMA FoldLists ==
  ASSUME NEW r \in Ranges
  PROVE  /\ IsSequence([i \in DOMAIN r.folds |-> r.folds[i].x])
         /\ IsSequence([i \in DOMAIN r.folds |-> r.folds[i].r])
<1> DEFINE xs == [i \in DOMAIN r.folds |-> r.folds[i].x]
           rs == [i \in DOMAIN r.folds |-> r.folds[i].r]
<1>1. DOMAIN r.folds = 1 .. Len(r.folds) /\ Len(r.folds) \in Nat
  BY RangeFacts
<1>2. DOMAIN xs = 1 .. Len(r.folds) /\ xs = [i \in DOMAIN xs |-> xs[i]]
  BY <1>1
<1>3. DOMAIN rs = 1 .. Len(r.folds) /\ rs = [i \in DOMAIN rs |-> rs[i]]
  BY <1>1
<1> HIDE DEF xs, rs
<1>4. IsSequence(xs)
  BY <1>1, <1>2, FunctionIsSequence
<1>5. IsSequence(rs)
  BY <1>1, <1>3, FunctionIsSequence
<1> QED BY <1>4, <1>5 DEF xs, rs

\* The announcements of the same folds are the same folds.
LEMMA SameFolds ==
  ASSUME NEW a \in Ranges, NEW b \in Ranges, Len(a.folds) = Len(b.folds),
         \A i \in 1 .. Len(a.folds) : a.folds[i].x = b.folds[i].x /\ a.folds[i].r = b.folds[i].r
  PROVE  a.folds = b.folds
<1>1. /\ IsSequence(a.folds) /\ DOMAIN a.folds = 1 .. Len(a.folds)
      /\ \A i \in DOMAIN a.folds : a.folds[i] = [x |-> a.folds[i].x, r |-> a.folds[i].r]
  BY RangeFacts
<1>2. /\ IsSequence(b.folds) /\ DOMAIN b.folds = 1 .. Len(b.folds)
      /\ \A i \in DOMAIN b.folds : b.folds[i] = [x |-> b.folds[i].x, r |-> b.folds[i].r]
  BY RangeFacts
<1>3. \A i \in 1 .. Len(a.folds) : a.folds[i] = b.folds[i]
  BY <1>1, <1>2
<1> QED BY <1>1, <1>2, <1>3, SequenceFacts

\* The messages of a range proof cut, and are known by their encoding.
LEMMA RangeCuts ==
  ASSUME NEW a \in Ranges, NEW b \in Ranges
  PROVE  /\ Cuts(RangeFields(a), RangeFields(b))
         /\ RangeFields(a) = RangeFields(b) => a.flights = b.flights /\ a.folds = b.folds
<1> DEFINE p == RangeParts(a)
           q == RangeParts(b)
           xs(r) == [i \in DOMAIN r.folds |-> r.folds[i].x]
           rs(r) == [i \in DOMAIN r.folds |-> r.folds[i].r]
<1>1. /\ IsSequence(a.flights) /\ Len(a.flights) = 4 /\ IsSequence(a.l) /\ IsSequence(a.n)
      /\ IsSequence(b.flights) /\ Len(b.flights) = 4 /\ IsSequence(b.l) /\ IsSequence(b.n)
  BY RangeFacts
<1>2. IsSequence(xs(a)) /\ IsSequence(xs(b)) /\ IsSequence(rs(a)) /\ IsSequence(rs(b))
  BY FoldLists
<1>3. ASSUME NEW r \in Ranges PROVE RangeFields(r) = Five(RangeParts(r))
  <2>1. IsSequence(r.flights)
    BY RangeFacts
  <2>2. IsSequence(Laid(r.flights))
    BY <2>1, LaidElements DEF LaidFacts
  <2>3. <<>> \o Laid(r.flights) = Laid(r.flights)
    BY <2>2, ConcatEmptySeq DEF IsSequence
  <2>4. Absorb(<<>>, r.flights) = Laid(r.flights)
    BY <2>3 DEF Absorb, Laid
  <2>5. RangeFields(r) = Laid(r.flights) \o FramedList(xs(r)) \o FramedList(rs(r))
                           \o FramedList(r.l) \o FramedList(r.n)
    BY <2>4 DEF RangeFields
  <2> QED BY <2>5 DEF RangeParts, Five
<1>4. /\ p[1] = Laid(a.flights) /\ p[2] = FramedList(xs(a)) /\ p[3] = FramedList(rs(a))
      /\ p[4] = FramedList(a.l) /\ p[5] = FramedList(a.n)
  BY DEF RangeParts
<1>5. /\ q[1] = Laid(b.flights) /\ q[2] = FramedList(xs(b)) /\ q[3] = FramedList(rs(b))
      /\ q[4] = FramedList(b.l) /\ q[5] = FramedList(b.n)
  BY DEF RangeParts
<1>6. RangeFields(a) = Five(p) /\ RangeFields(b) = Five(q)
  BY <1>3
<1> HIDE DEF p, q, xs, rs
<1>7. Cuts(p[1], q[1]) /\ (p[1] = q[1] => a.flights = b.flights)
  BY <1>1, <1>4, <1>5, LaidCuts
<1>8. /\ Cuts(p[2], q[2]) /\ (p[2] = q[2] => xs(a) = xs(b))
      /\ Cuts(p[3], q[3]) /\ (p[3] = q[3] => rs(a) = rs(b))
      /\ Cuts(p[4], q[4]) /\ Cuts(p[5], q[5])
  BY <1>1, <1>2, <1>4, <1>5, ListCuts
<1>9. FieldsCut(5, p, q)
  <2>1. \A i \in 1 .. 5 : i = 1 \/ i = 2 \/ i = 3 \/ i = 4 \/ i = 5
    OBVIOUS
  <2> QED BY <1>7, <1>8, <2>1 DEF FieldsCut
<1>10. Cuts(Five(p), Five(q)) /\ (Five(p) = Five(q) => FieldsEqual(5, p, q))
  BY <1>9, FieldsCuts
<1>11. ASSUME FieldsEqual(5, p, q) PROVE a.flights = b.flights /\ a.folds = b.folds
  <2>1. p[1] = q[1] /\ p[2] = q[2] /\ p[3] = q[3]
    BY <1>11 DEF FieldsEqual
  <2>2. xs(a) = xs(b) /\ rs(a) = rs(b)
    BY <1>8, <2>1
  <2>3. /\ DOMAIN a.folds = 1 .. Len(a.folds) /\ Len(a.folds) \in Nat
        /\ DOMAIN b.folds = 1 .. Len(b.folds) /\ Len(b.folds) \in Nat
        /\ IsSequence(a.folds) /\ IsSequence(b.folds)
    BY RangeFacts
  <2>4. DOMAIN xs(a) = DOMAIN a.folds /\ DOMAIN xs(b) = DOMAIN b.folds
    BY DEF xs
  <2>5. 1 .. Len(a.folds) = 1 .. Len(b.folds)
    BY <2>2, <2>3, <2>4
  <2>6. Len(a.folds) = Len(b.folds)
    <3>1. PICK m \in Nat, n \in Nat : m = Len(a.folds) /\ n = Len(b.folds)
      BY <2>3
    <3>2. 1 .. m = 1 .. n
      BY <2>5, <3>1
    <3>3. m = n
      <4>1. m # 0 => m \in 1 .. m
        OBVIOUS
      <4>2. n # 0 => n \in 1 .. n
        OBVIOUS
      <4>3. (m # 0 => m \in 1 .. n) /\ (n # 0 => n \in 1 .. m)
        BY <3>2, <4>1, <4>2
      <4> QED BY <4>3
    <3> QED BY <3>1, <3>3
  <2>7. ASSUME NEW i \in 1 .. Len(a.folds)
        PROVE  a.folds[i].x = b.folds[i].x /\ a.folds[i].r = b.folds[i].r
    <3>1. i \in DOMAIN a.folds /\ i \in DOMAIN b.folds
      BY <2>3, <2>6
    <3>2. xs(a)[i] = a.folds[i].x /\ xs(b)[i] = b.folds[i].x
      BY <3>1 DEF xs
    <3>3. rs(a)[i] = a.folds[i].r /\ rs(b)[i] = b.folds[i].r
      BY <3>1 DEF rs
    <3> QED BY <2>2, <3>2, <3>3
  <2>8. a.folds = b.folds
    BY <2>6, <2>7, SameFolds
  <2> QED BY <1>7, <2>1, <2>8
<1> QED BY <1>6, <1>10, <1>11

----------------------------------------------------------------------------
(* The binding of the nonces, and what sigma.x is hashed from.             *)

\* The inputs of a seal whose range proof is made.
RangedIn(in) == Stated(in) /\ in.range \in Ranges

\* What is shared by two seals whose nonces may be the same.
SameProof(a, b) ==
  /\ StatementFields(a) = StatementFields(b) /\ StatementOf(a) = StatementOf(b)
  /\ a.residual = b.residual
  /\ a.range.flights = b.range.flights /\ a.range.folds = b.range.folds

\* Equal nonce bindings: every input that sigma.x depends on is the same
\* (linking_nonce_binding mirrors sigma_challenge).
LEMMA BindingIsAll ==
  ASSUME NEW a, NEW b, RangedIn(a), RangedIn(b),
         NonceBinding(a) = NonceBinding(b)
  PROVE  SameProof(a, b)
<1> DEFINE h == Framed(Block("nonce-binding"))
           sa == StatementFields(a)
           sb == StatementFields(b)
           ra == FramedList(a.residual)
           rb == FramedList(b.residual)
           fa == RangeFields(a.range)
           fb == RangeFields(b.range)
<1>1. NonceBinding(a) = ((h \o sa) \o ra) \o fa /\ NonceBinding(b) = ((h \o sb) \o rb) \o fb
  BY DEF NonceBinding
<1>2. Cuts(h, h)
  BY BlockCuts
<1>3. Cuts(sa, sb) /\ (sa = sb => StatementOf(a) = StatementOf(b))
  BY StatementCuts DEF RangedIn
<1>4. Cuts(ra, rb) /\ (ra = rb => a.residual = b.residual)
  <2>1. IsSequence(a.residual) /\ IsSequence(b.residual)
    BY ProofNoncesAssumption DEF RangedIn, Stated
  <2> QED BY <2>1, ListCuts
<1>5. Cuts(fa, fb) /\ (fa = fb => a.range.flights = b.range.flights /\ a.range.folds = b.range.folds)
  <2>1. a.range \in Ranges /\ b.range \in Ranges
    BY DEF RangedIn
  <2> QED BY <2>1, RangeCuts
<1> HIDE DEF h, sa, sb, ra, rb, fa, fb
<1>6. CutsBoth(h, sa, h, sb)
  BY <1>2, <1>3, CutsJoined
<1>7. CutsBoth(h \o sa, ra, h \o sb, rb)
  <2>1. Cuts(h \o sa, h \o sb)
    BY <1>6 DEF CutsBoth
  <2> QED BY <1>4, <2>1, CutsJoined
<1>8. CutsBoth((h \o sa) \o ra, fa, (h \o sb) \o rb, fb)
  <2>1. Cuts((h \o sa) \o ra, (h \o sb) \o rb)
    BY <1>7 DEF CutsBoth
  <2> QED BY <1>5, <2>1, CutsJoined
<1>9. sa = sb /\ ra = rb /\ fa = fb
  BY <1>1, <1>6, <1>7, <1>8 DEF CutsBoth
<1> QED BY <1>3, <1>4, <1>5, <1>9 DEF SameProof, sa, sb

----------------------------------------------------------------------------
(* The schedule of the challenges.                                         *)

\* The challenges before the folds, and those of the folds.
FirstSix(f) ==
  << <<<<f[1], f[2]>>, <<"alpha", 0>>>>, <<<<f[3]>>, <<"rho", 0>>>>, <<<<>>, <<"lambda", 0>>>>,
     <<<<>>, <<"beta", 0>>>>, <<<<>>, <<"delta", 0>>>>, <<<<f[4]>>, <<"tau", 0>>>> >>
FoldSteps(g) == [i \in DOMAIN g |-> <<<<i, g[i].x, g[i].r>>, <<"gamma", i>>>>]

\* The labels and messages of the challenges of a range proof.
ScheduleFacts(r) ==
  LET steps == Schedule(r)
  IN  /\ Len(steps) = 6 + Len(r.folds) /\ DOMAIN steps = 1 .. 6 + Len(r.folds)
      /\ \A i \in DOMAIN steps : steps[i] = <<steps[i][1], steps[i][2]>> /\ IsSequence(steps[i][1])
      /\ steps[1][1] = <<r.flights[1], r.flights[2]>> /\ steps[2][1] = <<r.flights[3]>>
      /\ steps[6] = <<<<r.flights[4]>>, <<"tau", 0>>>>
      /\ \A i \in 1 .. Len(r.folds) :
           steps[6 + i] = <<<<i, r.folds[i].x, r.folds[i].r>>, <<"gamma", i>>>>

\* What the schedule of a range proof is, challenge by challenge.
LEMMA Schedules ==
  ASSUME NEW r \in Ranges
  PROVE  ScheduleFacts(r)
<1> DEFINE six == FirstSix(r.flights)
           rest == FoldSteps(r.folds)
           n == Len(r.folds)
<1>1. Schedule(r) = six \o rest
  BY DEF Schedule, FirstSix, FoldSteps
<1>2. n \in Nat /\ DOMAIN r.folds = 1 .. n
  BY RangeFacts
<1>3. IsSequence(six) /\ Len(six) = 6
  <2>1. DOMAIN six = 1 .. 6 /\ six = [i \in DOMAIN six |-> six[i]]
    BY DEF FirstSix
  <2> HIDE DEF six
  <2> QED BY <2>1, FunctionIsSequence
<1>4. IsSequence(rest) /\ Len(rest) = n
  <2>1. DOMAIN rest = 1 .. n /\ rest = [i \in DOMAIN rest |-> rest[i]]
    BY <1>2 DEF FoldSteps
  <2> HIDE DEF rest
  <2> QED BY <1>2, <2>1, FunctionIsSequence
<1>5. /\ six[1] = <<<<r.flights[1], r.flights[2]>>, <<"alpha", 0>>>>
      /\ six[2] = <<<<r.flights[3]>>, <<"rho", 0>>>> /\ six[3] = <<<<>>, <<"lambda", 0>>>>
      /\ six[4] = <<<<>>, <<"beta", 0>>>> /\ six[5] = <<<<>>, <<"delta", 0>>>>
      /\ six[6] = <<<<r.flights[4]>>, <<"tau", 0>>>>
  BY DEF FirstSix
<1>6. \A i \in 1 .. n : rest[i] = <<<<i, r.folds[i].x, r.folds[i].r>>, <<"gamma", i>>>>
  BY <1>2 DEF FoldSteps
<1> HIDE DEF six, rest
<1> DEFINE steps == six \o rest
<1>7. /\ IsSequence(steps) /\ Len(steps) = 6 + n
      /\ \A i \in 1 .. 6 : steps[i] = six[i]
      /\ \A i \in 1 .. n : steps[6 + i] = rest[i]
  <2>1. JoinedFacts(six, rest)
    BY <1>3, <1>4, Joined
  <2> QED BY <1>3, <1>4, <2>1 DEF JoinedFacts
<1> HIDE DEF steps
<1>8. DOMAIN steps = 1 .. 6 + n
  BY <1>7, SequenceFacts
<1>9. ASSUME NEW i \in DOMAIN steps
      PROVE  steps[i] = <<steps[i][1], steps[i][2]>> /\ IsSequence(steps[i][1])
  <2>1. CASE i \in 1 .. 6
    <3>1. i = 1 \/ i = 2 \/ i = 3 \/ i = 4 \/ i = 5 \/ i = 6
      BY <2>1
    <3>2. steps[i] = <<steps[i][1], steps[i][2]>>
      <4>1. ASSUME NEW z, NEW a, NEW b, z = <<a, b>> PROVE z = <<z[1], z[2]>>
        BY <4>1
      <4>2. /\ six[1] = <<six[1][1], six[1][2]>> /\ six[2] = <<six[2][1], six[2][2]>>
            /\ six[3] = <<six[3][1], six[3][2]>> /\ six[4] = <<six[4][1], six[4][2]>>
            /\ six[5] = <<six[5][1], six[5][2]>> /\ six[6] = <<six[6][1], six[6][2]>>
        BY <1>5, <4>1
      <4>3. six[i] = <<six[i][1], six[i][2]>>
        BY <3>1, <4>2
      <4> QED BY <1>7, <2>1, <4>3
    <3>3. /\ IsSequence(<<r.flights[1], r.flights[2]>>) /\ IsSequence(<<r.flights[3]>>)
          /\ IsSequence(<<r.flights[4]>>) /\ IsSequence(<<>>)
      <4>1. <<>> \in Seq({1})
        OBVIOUS
      <4>2. <<r.flights[1], r.flights[2]>> \in Seq({r.flights[1], r.flights[2]})
        OBVIOUS
      <4> QED BY <4>1, <4>2, Sequences, Single
    <3>4. steps[i][1] \in {<<r.flights[1], r.flights[2]>>, <<r.flights[3]>>, <<r.flights[4]>>, <<>>}
      BY <1>5, <1>7, <2>1, <3>1
    <3> QED BY <3>2, <3>3, <3>4
  <2>2. CASE i \notin 1 .. 6
    <3>1. i - 6 \in 1 .. n /\ i = 6 + (i - 6)
      BY <1>2, <1>8, <2>2
    <3>2. PICK j \in 1 .. n : i = 6 + j
      BY <3>1
    <3>3. steps[i] = <<<<j, r.folds[j].x, r.folds[j].r>>, <<"gamma", j>>>>
      BY <1>6, <1>7, <3>2
    <3>4. IsSequence(<<j, r.folds[j].x, r.folds[j].r>>)
      <4>1. <<j, r.folds[j].x, r.folds[j].r>> \in Seq({j, r.folds[j].x, r.folds[j].r})
        OBVIOUS
      <4> QED BY <4>1, Sequences
    <3> QED BY <3>3, <3>4
  <2> QED BY <2>1, <2>2
<1>10. /\ steps[1][1] = <<r.flights[1], r.flights[2]>> /\ steps[2][1] = <<r.flights[3]>>
       /\ steps[6] = <<<<r.flights[4]>>, <<"tau", 0>>>>
  BY <1>5, <1>7
<1>11. \A i \in 1 .. n :
         steps[6 + i] = <<<<i, r.folds[i].x, r.folds[i].r>>, <<"gamma", i>>>>
  BY <1>6, <1>7
<1> QED BY <1>1, <1>7, <1>8, <1>9, <1>10, <1>11 DEF ScheduleFacts, steps

\* The i-th challenge of steps is squeezed from this, when all began with t.
Squeezed(steps, t) ==
  LET from[i \in 1 .. Len(steps)] ==
        Absorb(IF i = 1 THEN t ELSE Ratchet(from[i - 1], steps[i - 1][2]), steps[i][1])
  IN  from

\* The transcripts a schedule is squeezed from exist, one from the one before.
LEMMA SqueezedFacts ==
  ASSUME NEW steps, NEW t, Len(steps) \in Nat
  PROVE  \A i \in 1 .. Len(steps) :
           Squeezed(steps, t)[i]
             = Absorb(IF i = 1 THEN t ELSE Ratchet(Squeezed(steps, t)[i - 1], steps[i - 1][2]),
                      steps[i][1])
<1> DEFINE n == Len(steps)
           Step(i, u) == Absorb(IF i = 1 THEN t ELSE Ratchet(u, steps[i - 1][2]), steps[i][1])
           Solved(h, m) == \A i \in 1 .. m : h[i] = Step(i, h[i - 1])
           T == {m \in Nat : \E h : Solved(h, m)}
           Eq(h) == h = [i \in 1 .. n |-> Step(i, h[i - 1])]
<1> HIDE DEF Step
<1>1. 0 \in T
  <2>1. Solved(<<>>, 0)
    OBVIOUS
  <2> QED BY <2>1
<1>2. ASSUME NEW m \in Nat, m \in T PROVE m + 1 \in T
  <2>1. PICK h : Solved(h, m)
    BY <1>2
  <2> DEFINE g == [i \in 1 .. m + 1 |-> IF i <= m THEN h[i] ELSE Step(m + 1, h[m])]
  <2>2. CASE m = 0
    <3> DEFINE f == [i \in 1 .. 1 |-> Step(1, <<>>)]
    <3>1. \A u, v : Step(1, u) = Step(1, v)
      BY DEF Step
    <3>2. f[1] = Step(1, <<>>)
      OBVIOUS
    <3> HIDE DEF f
    <3>3. f[1] = Step(1, f[1 - 1])
      BY <3>1, <3>2
    <3>4. \A i \in 1 .. m + 1 : i = 1
      BY <2>2
    <3>5. Solved(f, m + 1)
      BY <3>3, <3>4
    <3> QED BY <3>5
  <2>3. CASE m # 0
    <3>1. m \in 1 .. m /\ m + 1 \in Nat
      BY <2>3
    <3>2. \A i \in 1 .. m : g[i] = h[i]
      OBVIOUS
    <3>3. g[m + 1] = Step(m + 1, h[m])
      OBVIOUS
    <3> HIDE DEF g
    <3>4. ASSUME NEW i \in 1 .. m + 1 PROVE g[i] = Step(i, g[i - 1])
      <4>1. CASE i = m + 1
        BY <3>1, <3>2, <3>3, <4>1
      <4>2. CASE i = 1
        <5>1. \A u, v : Step(1, u) = Step(1, v)
          BY DEF Step
        <5>2. 1 \in 1 .. m
          BY <3>1
        <5>3. h[1] = Step(1, h[1 - 1]) /\ g[1] = h[1]
          BY <2>1, <3>2, <5>2
        <5> QED BY <4>2, <5>1, <5>3
      <4>3. CASE i # m + 1 /\ i # 1
        <5>1. i \in 1 .. m /\ i - 1 \in 1 .. m
          BY <4>3
        <5>2. h[i] = Step(i, h[i - 1])
          BY <2>1, <5>1
        <5> QED BY <3>2, <5>1, <5>2
      <4> QED BY <4>1, <4>2, <4>3
    <3>5. Solved(g, m + 1)
      BY <3>4
    <3> QED BY <3>1, <3>5
  <2> QED BY <2>2, <2>3
<1>3. \E h : Eq(h)
  <2>1. n \in T
    <3> HIDE DEF T
    <3> QED BY <1>1, <1>2, AllNaturals
  <2>2. PICK h : Solved(h, n)
    BY <2>1
  <2> DEFINE g == [i \in 1 .. n |-> h[i]]
  <2>3. \A i \in 1 .. n : g[i] = Step(i, g[i - 1])
    <3>1. ASSUME NEW i \in 1 .. n PROVE g[i] = Step(i, g[i - 1])
      <4>1. CASE i = 1
        <5>1. \A u, v : Step(1, u) = Step(1, v)
          BY DEF Step
        <5>2. g[1] = Step(1, h[1 - 1])
          BY <2>2, <4>1
        <5> HIDE DEF g
        <5> QED BY <4>1, <5>1, <5>2
      <4>2. CASE i # 1
        <5>1. i - 1 \in 1 .. n
          BY <4>2
        <5>2. g[i] = h[i] /\ g[i - 1] = h[i - 1]
          BY <5>1
        <5> HIDE DEF g
        <5> QED BY <2>2, <5>2
      <4> QED BY <4>1, <4>2
    <3> QED BY <3>1
  <2>4. g = [i \in 1 .. n |-> g[i]]
    OBVIOUS
  <2> HIDE DEF g
  <2>5. Eq(g)
    BY <2>3, <2>4
  <2> QED BY <2>5
<1>4. Squeezed(steps, t) = CHOOSE h : Eq(h)
  BY DEF Squeezed, Step
<1>5. Eq(Squeezed(steps, t))
  <2> HIDE DEF Eq
  <2> QED BY <1>3, <1>4
<1> DEFINE s == Squeezed(steps, t)
<1>6. s = [i \in 1 .. n |-> Step(i, s[i - 1])]
  BY <1>5
<1> HIDE DEF s, Eq
<1>7. \A i \in 1 .. n : s[i] = Step(i, s[i - 1])
  BY <1>6
<1> QED BY <1>7 DEF Step, s

\* A ratcheted state is known: its label and all it had absorbed.
LEMMA RatchetCuts ==
  ASSUME NEW t, NEW u, NEW k, NEW l
  PROVE  Cuts(Ratchet(t, k), Ratchet(u, l)) /\ (Ratchet(t, k) = Ratchet(u, l) => t = u /\ k = l)
<1> DEFINE h == Framed(Block("ratchet"))
           fk == Framed(Block(k))
           fl == Framed(Block(l))
           ft == Framed(Block(Digest(t)))
           fu == Framed(Block(Digest(u)))
<1>1. Ratchet(t, k) = (h \o fk) \o ft /\ Ratchet(u, l) = (h \o fl) \o fu
  BY DEF Ratchet
<1>2. Cuts(h, h)
  BY BlockCuts
<1>3. Cuts(fk, fl) /\ (fk = fl => k = l)
  BY BlockCuts
<1>4. Cuts(ft, fu) /\ (ft = fu => t = u)
  <2>1. Digest(t) = Digest(u) => t = u
    BY DEF Digest
  <2> QED BY <2>1, BlockCuts
<1> HIDE DEF h, fk, fl, ft, fu
<1>5. CutsBoth(h, fk, h, fl)
  BY <1>2, <1>3, CutsJoined
<1>6. CutsBoth(h \o fk, ft, h \o fl, fu)
  <2>1. Cuts(h \o fk, h \o fl)
    BY <1>5 DEF CutsBoth
  <2> QED BY <1>4, <2>1, CutsJoined
<1> QED BY <1>1, <1>3, <1>4, <1>5, <1>6 DEF CutsBoth

\* The transcript of a statement cuts, and is known by the statement.
LEMMA TranscriptCuts ==
  ASSUME NEW a, NEW b, Stated(a), Stated(b)
  PROVE  /\ Cuts(StatementTranscript(a), StatementTranscript(b))
         /\ StatementTranscript(a) = StatementTranscript(b) => StatementOf(a) = StatementOf(b)
<1>1. Cuts(StatementFields(a), StatementFields(b))
      /\ (StatementFields(a) = StatementFields(b) => StatementOf(a) = StatementOf(b))
  BY StatementCuts
<1>2. Cuts(NewTranscript, NewTranscript)
  BY BlockCuts DEF NewTranscript
<1>3. CutsBoth(NewTranscript, StatementFields(a), NewTranscript, StatementFields(b))
  BY <1>1, <1>2, CutsJoined
<1> QED BY <1>1, <1>3 DEF CutsBoth, StatementTranscript

\* What precedes the i-th challenge is the same.
SameUpTo(a, b, i) ==
  /\ StatementOf(a) = StatementOf(b)
  /\ \A j \in 1 .. i : Schedule(a.range)[j][1] = Schedule(b.range)[j][1]
  /\ \A j \in 1 .. i - 1 : Schedule(a.range)[j][2] = Schedule(b.range)[j][2]

\* A challenge is squeezed from everything before it.
LEMMA SqueezedBinds ==
  ASSUME NEW a, NEW b, RangedIn(a), RangedIn(b)
  PROVE  \A i \in (DOMAIN Schedule(a.range)) \cap (DOMAIN Schedule(b.range)) :
           SqueezedFrom(a)[i] = SqueezedFrom(b)[i] => SameUpTo(a, b, i)
<1> DEFINE p == Schedule(a.range)
           q == Schedule(b.range)
           t == StatementTranscript(a)
           u == StatementTranscript(b)
           f == SqueezedFrom(a)
           g == SqueezedFrom(b)
<1>1. /\ Len(p) \in Nat /\ DOMAIN p = 1 .. Len(p) /\ \A i \in DOMAIN p : IsSequence(p[i][1])
      /\ Len(q) \in Nat /\ DOMAIN q = 1 .. Len(q) /\ \A i \in DOMAIN q : IsSequence(q[i][1])
  <2>1. a.range \in Ranges /\ b.range \in Ranges
    BY DEF RangedIn
  <2>2. ScheduleFacts(a.range) /\ ScheduleFacts(b.range)
    BY <2>1, Schedules
  <2>3. Len(a.range.folds) \in Nat /\ Len(b.range.folds) \in Nat
    BY <2>1, RangeFacts
  <2> QED BY <2>2, <2>3 DEF ScheduleFacts
<1>2. f = Squeezed(p, t) /\ g = Squeezed(q, u)
  BY DEF SqueezedFrom, Squeezed
<1>3. Cuts(t, u) /\ (t = u => StatementOf(a) = StatementOf(b))
  BY TranscriptCuts DEF RangedIn
<1> HIDE DEF p, q, t, u, f, g
<1>4. \A i \in 1 .. Len(p) : f[i] = Absorb(IF i = 1 THEN t ELSE Ratchet(f[i - 1], p[i - 1][2]), p[i][1])
  BY <1>1, <1>2, SqueezedFacts
<1>5. \A i \in 1 .. Len(q) : g[i] = Absorb(IF i = 1 THEN u ELSE Ratchet(g[i - 1], q[i - 1][2]), q[i][1])
  BY <1>1, <1>2, SqueezedFacts
<1>6. ASSUME NEW i \in (DOMAIN p) \cap (DOMAIN q)
      PROVE  /\ IsSequence(p[i][1]) /\ IsSequence(q[i][1])
             /\ IsSequence(Laid(p[i][1])) /\ IsSequence(Laid(q[i][1]))
             /\ Laid(p[i][1]) = Laid(q[i][1]) => p[i][1] = q[i][1]
  <2>1. IsSequence(p[i][1]) /\ IsSequence(q[i][1])
    BY <1>1
  <2>2. IsSequence(Laid(p[i][1])) /\ IsSequence(Laid(q[i][1]))
    BY <2>1, LaidElements DEF LaidFacts
  <2> QED BY <2>1, <2>2, LaidCuts
<1> DEFINE Bind(i) == /\ StatementOf(a) = StatementOf(b)
                      /\ \A j \in 1 .. i : p[j][1] = q[j][1]
                      /\ \A j \in 1 .. i - 1 : p[j][2] = q[j][2]
           T == {i \in Nat : i \in (DOMAIN p) \cap (DOMAIN q) /\ f[i] = g[i] => Bind(i)}
<1>7. 0 \in T
  BY <1>1
<1>8. ASSUME NEW i \in Nat, i \in T PROVE i + 1 \in T
  <2> SUFFICES ASSUME i + 1 \in (DOMAIN p) \cap (DOMAIN q), f[i + 1] = g[i + 1] PROVE Bind(i + 1)
    <3>1. i + 1 \in Nat
      OBVIOUS
    <3> HIDE DEF Bind
    <3> QED BY <3>1
  <2>1. i + 1 \in 1 .. Len(p) /\ i + 1 \in 1 .. Len(q) /\ (i + 1) - 1 = i
    BY <1>1
  <2>2. /\ IsSequence(Laid(p[i + 1][1])) /\ IsSequence(Laid(q[i + 1][1]))
        /\ Laid(p[i + 1][1]) = Laid(q[i + 1][1]) => p[i + 1][1] = q[i + 1][1]
    BY <1>6
  <2>3. CASE i = 0
    <3>1. f[1] = t \o Laid(p[1][1]) /\ g[1] = u \o Laid(q[1][1])
      <4> HIDE DEF Bind, T
      <4>1. 1 \in 1 .. Len(p) /\ 1 \in 1 .. Len(q)
        BY <2>1, <2>3
      <4>2. f[1] = Absorb(t, p[1][1])
        BY <1>4, <4>1
      <4>3. g[1] = Absorb(u, q[1][1])
        BY <1>5, <4>1
      <4> QED BY ONLY <4>2, <4>3 DEF Absorb, Laid
    <3>2. t = u /\ Laid(p[1][1]) = Laid(q[1][1])
      <4> DEFINE x == Laid(p[1][1])
                 y == Laid(q[1][1])
      <4>1. t \o x = u \o y
        <5>1. i + 1 = 1
          BY <2>3
        <5>2. f[1] = g[1]
          BY <5>1
        <5> QED BY <3>1, <5>2
      <4>2. IsSequence(x) /\ IsSequence(y)
        <5>1. i + 1 = 1
          BY <2>3
        <5> QED BY <2>2, <5>1
      <4> HIDE DEF x, y
      <4>3. t = u /\ x = y
        BY <1>3, <4>1, <4>2, CutsBefore
      <4> QED BY <4>3 DEF x, y
    <3>3. p[1][1] = q[1][1]
      BY <2>2, <2>3, <3>2
    <3>4. (\A j \in 1 .. i + 1 : j = 1) /\ \A j \in 1 .. (i + 1) - 1 : FALSE
      BY <2>3
    <3> QED BY <1>3, <3>2, <3>3, <3>4
  <2>4. CASE i # 0
    <3>1. i \in (DOMAIN p) \cap (DOMAIN q) /\ i + 1 # 1
      BY <1>1, <2>1, <2>4
    <3> DEFINE x == Ratchet(f[i], p[i][2])
               y == Ratchet(g[i], q[i][2])
    <3>2. f[i + 1] = x \o Laid(p[i + 1][1]) /\ g[i + 1] = y \o Laid(q[i + 1][1])
      BY <1>4, <1>5, <2>1, <3>1 DEF Absorb, Laid
    <3>3. Cuts(x, y) /\ (x = y => f[i] = g[i] /\ p[i][2] = q[i][2])
      BY RatchetCuts
    <3> HIDE DEF x, y
    <3>4. x = y /\ Laid(p[i + 1][1]) = Laid(q[i + 1][1])
      <4>1. x \o Laid(p[i + 1][1]) = y \o Laid(q[i + 1][1])
        BY <3>2
      <4> QED BY <2>2, <3>3, <4>1, CutsBefore
    <3>5. p[i + 1][1] = q[i + 1][1] /\ p[i][2] = q[i][2] /\ f[i] = g[i]
      BY <2>2, <3>3, <3>4
    <3>6. Bind(i)
      BY <1>8, <3>1, <3>5
    <3>7. /\ \A j \in 1 .. i + 1 : j \in 1 .. i \/ j = i + 1
          /\ \A j \in 1 .. (i + 1) - 1 : j \in 1 .. i - 1 \/ j = i
      OBVIOUS
    <3> QED BY <3>5, <3>6, <3>7
  <2> QED BY <2>3, <2>4
<1>9. Nat \subseteq T
  <2> HIDE DEF T
  <2> QED BY <1>7, <1>8, AllNaturals
<1>10. ASSUME NEW i \in (DOMAIN p) \cap (DOMAIN q), f[i] = g[i] PROVE Bind(i)
  <2>1. i \in Nat
    BY <1>1, SMTT(60)
  <2> QED BY <1>9, <1>10, <2>1
<1> QED BY <1>10 DEF SameUpTo, p, q, f, g

----------------------------------------------------------------------------
(* The two properties, of any two inputs.                                  *)

\* The announcements are made of these inputs and no other.
SigmaAnnouncementsOf(binding, seed, key, x) ==
  LET al(k) == <<binding, seed, "alpha", k, x.v[k]>>
      be(k) == <<binding, seed, "beta", k, x.r[k]>>
      ga(k) == <<binding, seed, "gamma", k, x.s[k]>>
      limbs == LimbsOf(x)
  IN  FramedList([k \in limbs |-> <<"E", be(k)>>])
      \o FramedList([k \in limbs |-> <<"D", al(k), be(k), key>>])
      \o FramedList([k \in limbs |-> Com(al(k), ga(k))])
      \o Framed(Block(<<"C", [k \in limbs |-> al(k)]>>))

\* linking_commit reads no more than that.
LEMMA SigmaAnnouncementsAre ==
  ASSUME NEW in
  PROVE  SigmaAnnouncements(in) = SigmaAnnouncementsOf(NonceBinding(in), in.seed, in.key, in.secret)
BY DEF SigmaAnnouncements, SigmaAnnouncementsOf, Nonce

\* The schedule is made of these messages and no other.
ScheduleOf(sent, folds) == FirstSix(sent) \o FoldSteps(folds)

\* Two seals that repeat a nonce answer one challenge with it.
LEMMA SameNonce ==
  ASSUME NEW a, NEW b, RangedIn(a), RangedIn(b),
         NEW kind, NEW k, Nonce(a, kind, k) = Nonce(b, kind, k)
  PROVE  SigmaChallenge(a) = SigmaChallenge(b)
<1>1. NonceBinding(a) = NonceBinding(b) /\ a.seed = b.seed
  BY DEF Nonce
<1>2. SameProof(a, b)
  BY <1>1, BindingIsAll
<1>3. a.context = b.context /\ a.key = b.key /\ a.secret = b.secret
  BY <1>2 DEF SameProof, StatementOf
<1>4. SigmaAnnouncements(a) = SigmaAnnouncements(b)
  BY <1>1, <1>3, SigmaAnnouncementsAre
<1>5. StatementTranscript(a) = StatementTranscript(b)
  BY <1>2 DEF SameProof, StatementTranscript
<1>6. Schedule(a.range) = Schedule(b.range)
  <2>1. /\ Schedule(a.range) = ScheduleOf(a.range.flights, a.range.folds)
        /\ Schedule(b.range) = ScheduleOf(b.range.flights, b.range.folds)
    BY DEF Schedule, ScheduleOf, FirstSix, FoldSteps
  <2> QED BY <1>2, <2>1 DEF SameProof
<1>7. SqueezedFrom(a) = SqueezedFrom(b)
  <2>1. /\ SqueezedFrom(a) = Squeezed(Schedule(a.range), StatementTranscript(a))
        /\ SqueezedFrom(b) = Squeezed(Schedule(b.range), StatementTranscript(b))
    BY DEF SqueezedFrom, Squeezed
  <2> QED BY <1>5, <1>6, <2>1
<1>8. AfterRange(a) = AfterRange(b)
  BY <1>6, <1>7 DEF AfterRange
<1> QED BY <1>2, <1>4, <1>8 DEF SigmaChallenge, SigmaTranscript, SameProof

\* The announcements are a sequence.
LEMMA AnnouncementsSequence ==
  ASSUME NEW in, Stated(in)
  PROVE  IsSequence(SigmaAnnouncements(in))
<1> DEFINE n == Len(in.secret.v)
           limbs == LimbsOf(in.secret)
           e == [k \in limbs |-> <<"E", Nonce(in, "beta", k)>>]
           d == [k \in limbs |-> <<"D", Nonce(in, "alpha", k), Nonce(in, "beta", k), in.key>>]
           m == [k \in limbs |-> Com(Nonce(in, "alpha", k), Nonce(in, "gamma", k))]
           c == Framed(Block(<<"C", [k \in limbs |-> Nonce(in, "alpha", k)]>>))
<1>1. n \in Nat /\ limbs = 1 .. n
  BY SecretFacts DEF Stated
<1>2. /\ DOMAIN e = 1 .. n /\ e = [i \in DOMAIN e |-> e[i]]
      /\ DOMAIN d = 1 .. n /\ d = [i \in DOMAIN d |-> d[i]]
      /\ DOMAIN m = 1 .. n /\ m = [i \in DOMAIN m |-> m[i]]
  BY <1>1
<1>3. SigmaAnnouncements(in) = ((FramedList(e) \o FramedList(d)) \o FramedList(m)) \o c
  BY DEF SigmaAnnouncements
<1>4. IsSequence(c)
  BY BlockCuts
<1> HIDE DEF e, d, m, c, n
<1>5. IsSequence(e) /\ IsSequence(d) /\ IsSequence(m)
  BY <1>1, <1>2, FunctionIsSequence
<1>6. IsSequence(FramedList(e)) /\ IsSequence(FramedList(d)) /\ IsSequence(FramedList(m))
  BY <1>5, ListCuts DEF Cuts
<1> DEFINE x == FramedList(e) \o FramedList(d)
           y == x \o FramedList(m)
<1>7. IsSequence(x)
  BY <1>6, Joined DEF JoinedFacts
<1> HIDE DEF x
<1>8. IsSequence(y)
  BY <1>6, <1>7, Joined DEF JoinedFacts
<1> HIDE DEF y
<1>9. IsSequence(y \o c)
  BY <1>4, <1>8, Joined DEF JoinedFacts
<1> QED BY <1>3, <1>9 DEF x, y

\* Two proofs with the same last challenge are of the same statement, and sent
\* the same before it.
LEMMA SameSigma ==
  ASSUME NEW a, NEW b, RangedIn(a), RangedIn(b),
         SigmaChallenge(a) = SigmaChallenge(b)
  PROVE  /\ StatementOf(a) = StatementOf(b) /\ a.residual = b.residual
         /\ a.range.flights = b.range.flights /\ a.range.folds = b.range.folds
<1> DEFINE p == Schedule(a.range)
           q == Schedule(b.range)
           m == Len(a.range.folds)
           n == Len(b.range.folds)
           x == AfterRange(a)
           y == AfterRange(b)
           ra == FramedList(a.residual)
           rb == FramedList(b.residual)
<1>1. /\ a.range \in Ranges /\ b.range \in Ranges /\ Stated(a) /\ Stated(b)
      /\ IsSequence(a.residual) /\ IsSequence(b.residual)
  BY ProofNoncesAssumption DEF RangedIn, Stated
<1>2. ScheduleFacts(a.range) /\ ScheduleFacts(b.range) /\ m \in Nat /\ n \in Nat
  BY <1>1, Schedules, RangeFacts
<1>3. /\ Len(p) = 6 + m /\ DOMAIN p = 1 .. 6 + m
      /\ Len(q) = 6 + n /\ DOMAIN q = 1 .. 6 + n
  BY <1>2 DEF ScheduleFacts
<1>4. /\ x = Ratchet(SqueezedFrom(a)[6 + m], p[6 + m][2])
      /\ y = Ratchet(SqueezedFrom(b)[6 + n], q[6 + n][2])
  BY <1>3 DEF AfterRange
<1>5. Cuts(x, y) /\ (x = y => SqueezedFrom(a)[6 + m] = SqueezedFrom(b)[6 + n] /\ p[6 + m][2] = q[6 + n][2])
  BY <1>4, RatchetCuts
<1>6. Cuts(ra, rb) /\ (ra = rb => a.residual = b.residual)
  BY <1>1, ListCuts
<1>7. IsSequence(SigmaAnnouncements(a)) /\ IsSequence(SigmaAnnouncements(b))
  BY <1>1, AnnouncementsSequence
<1>8. SigmaTranscript(a) = (x \o ra) \o SigmaAnnouncements(a) /\ SigmaTranscript(b) = (y \o rb) \o SigmaAnnouncements(b)
  BY DEF SigmaTranscript
<1>9. SigmaTranscript(a) = SigmaTranscript(b)
  BY DEF SigmaChallenge, Challenge
<1> HIDE DEF x, y, ra, rb
<1>10. CutsBoth(x, ra, y, rb)
  BY <1>5, <1>6, CutsJoined
<1>11. x \o ra = y \o rb
  <2> DEFINE u == x \o ra
             v == y \o rb
             au == SigmaAnnouncements(a)
             av == SigmaAnnouncements(b)
  <2>1. Cuts(u, v)
    BY <1>10 DEF CutsBoth
  <2>2. u \o au = v \o av
    BY <1>8, <1>9
  <2> HIDE DEF u, v, au, av
  <2>3. IsSequence(au) /\ IsSequence(av)
    BY <1>7 DEF au, av
  <2>4. u = v
    BY <2>1, <2>2, <2>3, CutsBefore
  <2> QED BY <2>4 DEF u, v
<1>12. x = y /\ ra = rb
  BY <1>10, <1>11 DEF CutsBoth
<1>13. SqueezedFrom(a)[6 + m] = SqueezedFrom(b)[6 + n] /\ p[6 + m][2] = q[6 + n][2]
  BY <1>5, <1>12
<1>14. m = n
  <2>1. ASSUME NEW r \in Ranges
        PROVE  LET i == Len(r.folds)
               IN  Schedule(r)[6 + i][2] = IF i = 0 THEN <<"tau", 0>> ELSE <<"gamma", i>>
    <3> DEFINE i == Len(r.folds)
    <3>1. i \in Nat /\ ScheduleFacts(r)
      BY RangeFacts, Schedules
    <3>2. CASE i = 0
      <4>1. 6 + i = 6
        BY <3>2
      <4>2. Schedule(r)[6] = <<<<r.flights[4]>>, <<"tau", 0>>>>
        BY <3>1 DEF ScheduleFacts
      <4> QED BY <3>2, <4>1, <4>2
    <3>3. CASE i # 0
      <4>1. i \in 1 .. i
        BY <3>1, <3>3
      <4>2. Schedule(r)[6 + i] = <<<<i, r.folds[i].x, r.folds[i].r>>, <<"gamma", i>>>>
        BY <3>1, <4>1 DEF ScheduleFacts
      <4> QED BY <3>3, <4>2
    <3> QED BY <3>2, <3>3
  <2>2. (IF m = 0 THEN <<"tau", 0>> ELSE <<"gamma", m>>) = IF n = 0 THEN <<"tau", 0>> ELSE <<"gamma", n>>
    BY <1>1, <1>13, <2>1
  <2> HIDE DEF m, n
  <2>3. CASE m = 0
    <3>1. "tau" # "gamma"
      OBVIOUS
    <3> QED BY <2>2, <2>3, <3>1
  <2>4. CASE m # 0
    <3>1. "tau" # "gamma"
      OBVIOUS
    <3> QED BY <2>2, <2>4, <3>1
  <2> QED BY <2>3, <2>4
<1>15. SameUpTo(a, b, 6 + m)
  <2>1. 6 + m \in (DOMAIN p) \cap (DOMAIN q)
    BY <1>2, <1>3, <1>14
  <2> QED BY <1>13, <1>14, <2>1, SqueezedBinds
<1>16. \A j \in 1 .. 6 + m : p[j][1] = q[j][1]
  BY <1>15 DEF SameUpTo
<1>17. a.range.flights = b.range.flights
  <2>1. /\ p[1][1] = <<a.range.flights[1], a.range.flights[2]>> /\ p[2][1] = <<a.range.flights[3]>>
        /\ p[6][1] = <<a.range.flights[4]>>
    BY <1>2 DEF ScheduleFacts
  <2>2. /\ q[1][1] = <<b.range.flights[1], b.range.flights[2]>> /\ q[2][1] = <<b.range.flights[3]>>
        /\ q[6][1] = <<b.range.flights[4]>>
    BY <1>2 DEF ScheduleFacts
  <2>3. 1 \in 1 .. 6 + m /\ 2 \in 1 .. 6 + m /\ 6 \in 1 .. 6 + m
    BY <1>2
  <2>4. p[1][1] = q[1][1] /\ p[2][1] = q[2][1] /\ p[6][1] = q[6][1]
    BY <1>16, <2>3
  <2>5. /\ <<a.range.flights[1], a.range.flights[2]>> = <<b.range.flights[1], b.range.flights[2]>>
        /\ <<a.range.flights[3]>> = <<b.range.flights[3]>>
        /\ <<a.range.flights[4]>> = <<b.range.flights[4]>>
    BY <2>1, <2>2, <2>4
  <2>6. /\ a.range.flights[1] = b.range.flights[1] /\ a.range.flights[2] = b.range.flights[2]
        /\ a.range.flights[3] = b.range.flights[3] /\ a.range.flights[4] = b.range.flights[4]
    BY <2>5
  <2>7. \A i \in 1 .. 4 : i = 1 \/ i = 2 \/ i = 3 \/ i = 4
    OBVIOUS
  <2>8. /\ IsSequence(a.range.flights) /\ Len(a.range.flights) = 4
        /\ IsSequence(b.range.flights) /\ Len(b.range.flights) = 4
    BY <1>1, RangeFacts
  <2> QED BY <2>6, <2>7, <2>8, SequenceFacts
<1>18. a.range.folds = b.range.folds
  <2>1. ASSUME NEW i \in 1 .. m
        PROVE  a.range.folds[i].x = b.range.folds[i].x /\ a.range.folds[i].r = b.range.folds[i].r
    <3>1. p[6 + i][1] = <<i, a.range.folds[i].x, a.range.folds[i].r>>
      BY <1>2 DEF ScheduleFacts
    <3>2. q[6 + i][1] = <<i, b.range.folds[i].x, b.range.folds[i].r>>
      BY <1>2, <1>14 DEF ScheduleFacts
    <3>3. 6 + i \in 1 .. 6 + m
      BY <1>2
    <3>4. <<i, a.range.folds[i].x, a.range.folds[i].r>> = <<i, b.range.folds[i].x, b.range.folds[i].r>>
      BY <1>16, <3>1, <3>2, <3>3
    <3> QED BY <3>4
  <2> QED BY <1>1, <1>14, <2>1, SameFolds
<1> QED BY <1>6, <1>12, <1>15, <1>17, <1>18 DEF SameUpTo

----------------------------------------------------------------------------
(* A seal holds what it was given by the stage it is in.                   *)

\* A seal that has stated keeps what it was given.
HoldsInputs(in) ==
  {"context", "key", "secret", "residual"} \subseteq DOMAIN in /\ Stated(in)

\* A seal past a stage holds what that stage was given.
StageInv ==
  \A s \in Seals :
    /\ sealStage[s] # "idle" => HoldsInputs(sealInput[s])
    /\ sealStage[s] \in {"ranged", "linked"} => "range" \in DOMAIN sealInput[s] /\ RangedIn(sealInput[s])

\* The inductive invariant: stages, inputs and their agreement.
NoncesInv ==
  /\ sealStage \in [Seals -> {"idle", "stated", "ranged", "linked"}]
  /\ DOMAIN sealInput = Seals
  /\ StageInv

\* One more input changes none of the others.
LEMMA WithKeeps ==
  ASSUME NEW in, NEW field, NEW x, HoldsInputs(in),
         field \notin {"context", "key", "secret", "residual"}
  PROVE  /\ With(in, field, x)[field] = x /\ field \in DOMAIN With(in, field, x)
         /\ HoldsInputs(With(in, field, x))
         /\ \A f \in DOMAIN in : f # field =>
              f \in DOMAIN With(in, field, x) /\ With(in, field, x)[f] = in[f]
BY DEF With, Stated, HoldsInputs

\* One seal moves on, the others stay.
LEMMA SealMoves ==
  ASSUME NoncesInv, NEW s \in Seals, NEW to \in {"stated", "ranged", "linked"}, NEW in,
         sealStage' = [sealStage EXCEPT ![s] = to], sealInput' = [sealInput EXCEPT ![s] = in],
         HoldsInputs(in), to # "stated" => "range" \in DOMAIN in /\ RangedIn(in)
  PROVE  NoncesInv'
<1>1. sealStage' \in [Seals -> {"idle", "stated", "ranged", "linked"}] /\ DOMAIN sealInput' = Seals
  BY DEF NoncesInv
<1>2. ASSUME NEW t \in Seals
      PROVE  /\ sealStage'[t] # "idle" => HoldsInputs(sealInput'[t])
             /\ sealStage'[t] \in {"ranged", "linked"} =>
                  "range" \in DOMAIN sealInput'[t] /\ RangedIn(sealInput'[t])
  <2>1. CASE t = s
    <3>1. sealStage'[t] = to /\ sealInput'[t] = in
      BY <2>1 DEF NoncesInv
    <3> QED BY <3>1
  <2>2. CASE t # s
    <3>1. sealStage'[t] = sealStage[t] /\ sealInput'[t] = sealInput[t]
      BY <2>2 DEF NoncesInv
    <3> QED BY <3>1 DEF NoncesInv, StageInv
  <2> QED BY <2>1, <2>2
<1> QED BY <1>1, <1>2 DEF NoncesInv, StageInv

\* The initial states satisfy it.
LEMMA InitNoncesInv == NonceInit => NoncesInv
BY DEF NonceInit, NoncesInv, StageInv

\* Every step keeps it, action by action.
LEMMA NextNoncesInv == NoncesInv /\ [NonceNext]_nonceVars => NoncesInv'
<1> SUFFICES ASSUME NoncesInv, [NonceNext]_nonceVars PROVE NoncesInv'
  OBVIOUS
<1>1. ASSUME NEW s \in Seals, NEW c \in Contexts, NEW k \in Keys, NEW x \in Secrets,
             NEW a \in ResidualAnnouncements, State(s, c, k, x, a)
      PROVE  NoncesInv'
  <2> DEFINE in == [context |-> c, key |-> k, secret |-> x, residual |-> a]
  <2>1. HoldsInputs(in)
    BY DEF HoldsInputs, Stated
  <2>2. sealStage' = [sealStage EXCEPT ![s] = "stated"] /\ sealInput' = [sealInput EXCEPT ![s] = in]
    BY <1>1 DEF State
  <2> HIDE DEF in
  <2> QED BY <2>1, <2>2, SealMoves
<1>2. ASSUME NEW s \in Seals, NEW r \in Ranges, ProveRange(s, r)
      PROVE  NoncesInv'
  <2> DEFINE in == With(sealInput[s], "range", r)
  <2>1. HoldsInputs(sealInput[s])
    BY <1>2 DEF ProveRange, NoncesInv, StageInv
  <2>2. in["range"] = r /\ "range" \in DOMAIN in /\ HoldsInputs(in)
    BY <2>1, WithKeeps
  <2>3. sealStage' = [sealStage EXCEPT ![s] = "ranged"] /\ sealInput' = [sealInput EXCEPT ![s] = in]
    BY <1>2 DEF ProveRange, NoncesInv
  <2> HIDE DEF in
  <2>4. RangedIn(in)
    BY <2>2 DEF RangedIn, HoldsInputs
  <2> QED BY <2>2, <2>3, <2>4, SealMoves
<1>3. ASSUME NEW s \in Seals, NEW e \in NonceSeeds, Link(s, e)
      PROVE  NoncesInv'
  <2> DEFINE in == With(sealInput[s], "seed", e)
  <2>1. HoldsInputs(sealInput[s]) /\ "range" \in DOMAIN sealInput[s] /\ RangedIn(sealInput[s])
    BY <1>3 DEF Link, NoncesInv, StageInv
  <2>2. /\ HoldsInputs(in) /\ "range" \in DOMAIN in /\ in["range"] = sealInput[s]["range"]
    BY <2>1, WithKeeps
  <2>3. sealStage' = [sealStage EXCEPT ![s] = "linked"] /\ sealInput' = [sealInput EXCEPT ![s] = in]
    BY <1>3 DEF Link, NoncesInv
  <2> HIDE DEF in
  <2>4. RangedIn(in)
    BY <2>1, <2>2 DEF RangedIn, HoldsInputs
  <2> QED BY <2>2, <2>3, <2>4, SealMoves
<1>4. CASE UNCHANGED nonceVars
  BY <1>4 DEF nonceVars, NoncesInv, StageInv
<1> QED BY <1>1, <1>2, <1>3, <1>4 DEF NonceNext

\* The inductive invariant leaves a nonce no second challenge.
LEMMA InvNonceAnswersOnce ==
  NoncesInv => NonceAnswersOnce
<1> SUFFICES ASSUME NoncesInv, NEW s \in Linked, NEW t \in Linked,
                    NEW kind, NEW k, Nonce(sealInput[s], kind, k) = Nonce(sealInput[t], kind, k)
             PROVE  SigmaChallenge(sealInput[s]) = SigmaChallenge(sealInput[t])
  BY DEF NonceAnswersOnce
<1>1. RangedIn(sealInput[s]) /\ RangedIn(sealInput[t])
  BY DEF NoncesInv, StageInv, Linked
<1> QED BY <1>1, SameNonce

\* The inductive invariant leaves a challenge no second past.
LEMMA InvChallengeBindsAllBefore ==
  NoncesInv => ChallengeBindsAllBefore
<1> SUFFICES ASSUME NoncesInv PROVE ChallengeBindsAllBefore
  OBVIOUS
<1>1. ASSUME NEW a, NEW b, RangedIn(a), RangedIn(b),
             NEW i \in (DOMAIN RangeChallenges(a)) \cap (DOMAIN RangeChallenges(b)),
             RangeChallenges(a)[i] = RangeChallenges(b)[i]
      PROVE  SentBefore(a, i) = SentBefore(b, i)
  <2> DEFINE p == Schedule(a.range)
             q == Schedule(b.range)
  <2>1. /\ i \in DOMAIN p /\ i \in DOMAIN q
        /\ <<"challenge", SqueezedFrom(a)[i], p[i][2]>> = <<"challenge", SqueezedFrom(b)[i], q[i][2]>>
    BY <1>1 DEF RangeChallenges, Challenge
  <2>2. SqueezedFrom(a)[i] = SqueezedFrom(b)[i] /\ p[i][2] = q[i][2]
    BY <2>1
  <2>3. SameUpTo(a, b, i)
    BY <1>1, <2>1, <2>2, SqueezedBinds
  <2>4. ScheduleFacts(a.range) /\ ScheduleFacts(b.range)
    BY <1>1, Schedules DEF RangedIn
  <2>5. Len(a.range.folds) \in Nat /\ Len(b.range.folds) \in Nat
    BY <1>1, RangeFacts DEF RangedIn
  <2> HIDE DEF p, q
  <2>6. ASSUME NEW j \in 1 .. i PROVE p[j] = q[j]
    <3>1. j \in DOMAIN p /\ j \in DOMAIN q /\ (j = i \/ j \in 1 .. i - 1)
      BY <2>1, <2>4, <2>5 DEF ScheduleFacts, p, q
    <3>2. p[j][1] = q[j][1] /\ p[j][2] = q[j][2]
      BY <2>2, <2>3, <3>1 DEF SameUpTo, p, q
    <3>3. p[j] = <<p[j][1], p[j][2]>> /\ q[j] = <<q[j][1], q[j][2]>>
      BY <2>4, <3>1 DEF ScheduleFacts, p, q
    <3> QED BY <3>2, <3>3
  <2>7. [j \in 1 .. i |-> p[j]] = [j \in 1 .. i |-> q[j]]
    BY <2>6
  <2> QED BY <2>3, <2>7 DEF SentBefore, SameUpTo, p, q
<1>2. ASSUME NEW s \in Ranged, NEW t \in Ranged PROVE RangedIn(sealInput[s]) /\ RangedIn(sealInput[t])
  BY <1>2 DEF NoncesInv, StageInv, Ranged
<1>3. ASSUME NEW s \in Linked, NEW t \in Linked PROVE RangedIn(sealInput[s]) /\ RangedIn(sealInput[t])
  BY <1>3 DEF NoncesInv, StageInv, Linked
<1>4. ASSUME NEW s \in Linked, NEW t \in Linked, SigmaChallenge(sealInput[s]) = SigmaChallenge(sealInput[t])
      PROVE  /\ StatementOf(sealInput[s]) = StatementOf(sealInput[t])
             /\ sealInput[s].residual = sealInput[t].residual
             /\ sealInput[s].range.flights = sealInput[t].range.flights
             /\ sealInput[s].range.folds = sealInput[t].range.folds
  <2>1. RangedIn(sealInput[s]) /\ RangedIn(sealInput[t])
    BY <1>3
  <2> QED BY <1>4, <2>1, SameSigma
<1> QED BY <1>1, <1>2, <1>4 DEF ChallengeBindsAllBefore

\* A linking nonce is answered at one challenge only (statement_bound_nonce
\* over linking_nonce_binding), for any seals, of any inputs, and whatever the
\* generator of random numbers repeats.
THEOREM NoncesAnswerOnce == NonceSpec => []NonceAnswersOnce
<1>1. NoncesInv => NonceAnswersOnce
  BY InvNonceAnswersOnce
<1> QED BY <1>1, InitNoncesInv, NextNoncesInv, PTL DEF NonceSpec

\* A challenge of the range proof or of the linking sigma is shared only by
\* seals that agree in all that was sent before it (transcript.rs): framing
\* is a prefix code and every squeeze keeps the digest of the state.
THEOREM ChallengesBind == NonceSpec => []ChallengeBindsAllBefore
<1>1. NoncesInv => ChallengeBindsAllBefore
  BY InvChallengeBindsAllBefore
<1> QED BY <1>1, InitNoncesInv, NextNoncesInv, PTL DEF NonceSpec

----------------------------------------------------------------------------
(* The proofs by a share.                                                  *)

\* Six, seven and nine parts in a row, as the challenge, the nonce and the
\* two bindings are.
Six(a) == Five(a) \o a[6]
Seven(a) == Six(a) \o a[7]
Nine(a) == Eight(a) \o a[9]

\* Parts that cut can be read from the whole.
LEMMA MoreFieldsCuts ==
  ASSUME NEW a, NEW b
  PROVE  /\ FieldsCut(6, a, b) => Cuts(Six(a), Six(b)) /\ (Six(a) = Six(b) => FieldsEqual(6, a, b))
         /\ FieldsCut(7, a, b) /\ Seven(a) = Seven(b) => FieldsEqual(7, a, b)
         /\ FieldsCut(9, a, b) /\ Nine(a) = Nine(b) => FieldsEqual(9, a, b)
<1>1. ASSUME FieldsCut(6, a, b)
      PROVE  Cuts(Six(a), Six(b)) /\ (Six(a) = Six(b) => FieldsEqual(6, a, b))
  <2> DEFINE a5 == Five(a)
             b5 == Five(b)
  <2>1. FieldsCut(5, a, b) /\ Cuts(a[6], b[6])
    BY <1>1 DEF FieldsCut
  <2>2. Cuts(a5, b5) /\ (a5 = b5 => FieldsEqual(5, a, b))
    BY <2>1, FieldsCuts
  <2>3. Six(a) = a5 \o a[6] /\ Six(b) = b5 \o b[6]
    BY DEF Six
  <2> HIDE DEF a5, b5
  <2>4. CutsBoth(a5, a[6], b5, b[6])
    BY <2>1, <2>2, CutsJoined
  <2>5. \A i \in 1 .. 6 : i \in 1 .. 5 \/ i = 6
    OBVIOUS
  <2> QED BY <2>2, <2>3, <2>4, <2>5 DEF CutsBoth, FieldsEqual
<1>2. ASSUME FieldsCut(7, a, b), Seven(a) = Seven(b)
      PROVE  FieldsEqual(7, a, b)
  <2> DEFINE a6 == Six(a)
             b6 == Six(b)
  <2>1. FieldsCut(6, a, b) /\ Cuts(a[7], b[7])
    BY <1>2 DEF FieldsCut
  <2>2. Cuts(a6, b6) /\ (a6 = b6 => FieldsEqual(6, a, b))
    BY <1>1, <2>1
  <2>3. a6 \o a[7] = b6 \o b[7]
    BY <1>2 DEF Seven
  <2> HIDE DEF a6, b6
  <2>4. CutsBoth(a6, a[7], b6, b[7])
    BY <2>1, <2>2, CutsJoined
  <2>5. \A i \in 1 .. 7 : i \in 1 .. 6 \/ i = 7
    OBVIOUS
  <2> QED BY <2>2, <2>3, <2>4, <2>5 DEF CutsBoth, FieldsEqual
<1>3. ASSUME FieldsCut(9, a, b), Nine(a) = Nine(b)
      PROVE  FieldsEqual(9, a, b)
  <2> DEFINE a8 == Eight(a)
             b8 == Eight(b)
  <2>1. FieldsCut(8, a, b) /\ Cuts(a[9], b[9])
    BY <1>3 DEF FieldsCut
  <2>2. Cuts(a8, b8) /\ (a8 = b8 => FieldsEqual(8, a, b))
    BY <2>1, FieldsCuts
  <2>3. a8 \o a[9] = b8 \o b[9]
    BY <1>3 DEF Nine
  <2> HIDE DEF a8, b8
  <2>4. CutsBoth(a8, a[9], b8, b[9])
    BY <2>1, <2>2, CutsJoined
  <2>5. \A i \in 1 .. 9 : i \in 1 .. 8 \/ i = 9
    OBVIOUS
  <2> QED BY <2>2, <2>3, <2>4, <2>5 DEF CutsBoth, FieldsEqual
<1> QED BY <1>1, <1>2, <1>3

\* Seven parts, or nine, that are sequences, are one that begins with the first.
Begins(s, h) == IsSequence(s) /\ 2 \in 1 .. Len(s) /\ s[2] = h

\* What a sequence begins with, it begins with when more follows.
LEMMA BeginsJoined ==
  ASSUME NEW s, NEW t, NEW h, Begins(s, h), IsSequence(t)
  PROVE  Begins(s \o t, h)
<1>1. Len(s) \in Nat /\ Len(t) \in Nat /\ IsSequence(s) /\ 2 \in 1 .. Len(s) /\ s[2] = h
  BY SequenceFacts DEF Begins
<1>2. JoinedFacts(s, t)
  BY <1>1, Joined
<1> QED BY <1>1, <1>2 DEF JoinedFacts, Begins

\* A row of framed parts begins with the first.
LEMMA RowsBegin ==
  ASSUME NEW a, NEW x, a[1] = Framed(Block(x))
  PROVE  /\ (\A i \in 2 .. 7 : IsSequence(a[i])) => Begins(Seven(a), <<x>>)
         /\ (\A i \in 2 .. 9 : IsSequence(a[i])) => Begins(Nine(a), <<x>>)
<1> DEFINE a2 == a[1] \o a[2]
           a3 == a2 \o a[3]
           a4 == a3 \o a[4]
           a5 == a4 \o a[5]
           a6 == a5 \o a[6]
           a7 == a6 \o a[7]
           a8 == a7 \o a[8]
           h == <<x>>
<1>1. Begins(a[1], h)
  BY BlockCuts DEF Begins
<1>2. Seven(a) = a7 /\ Nine(a) = a8 \o a[9]
  BY DEF Seven, Six, Nine, Eight, Five
<1> HIDE DEF h
<1>3. ASSUME \A i \in 2 .. 7 : IsSequence(a[i])
      PROVE  Begins(a7, h)
  <2>1. /\ IsSequence(a[2]) /\ IsSequence(a[3]) /\ IsSequence(a[4]) /\ IsSequence(a[5])
        /\ IsSequence(a[6]) /\ IsSequence(a[7])
    BY <1>3
  <2>2. Begins(a2, h)
    BY <1>1, <2>1, BeginsJoined
  <2> HIDE DEF a2
  <2>3. Begins(a3, h)
    BY <2>1, <2>2, BeginsJoined
  <2> HIDE DEF a3
  <2>4. Begins(a4, h)
    BY <2>1, <2>3, BeginsJoined
  <2> HIDE DEF a4
  <2>5. Begins(a5, h)
    BY <2>1, <2>4, BeginsJoined
  <2> HIDE DEF a5
  <2>6. Begins(a6, h)
    BY <2>1, <2>5, BeginsJoined
  <2> HIDE DEF a6
  <2> QED BY <2>1, <2>6, BeginsJoined
<1> HIDE DEF a7
<1>4. ASSUME \A i \in 2 .. 9 : IsSequence(a[i])
      PROVE  Begins(a8 \o a[9], h)
  <2>1. IsSequence(a[8]) /\ IsSequence(a[9]) /\ \A i \in 2 .. 7 : IsSequence(a[i])
    BY <1>4
  <2>2. Begins(a7, h)
    BY <1>3, <2>1
  <2>3. Begins(a8, h)
    BY <2>1, <2>2, BeginsJoined
  <2> HIDE DEF a8
  <2> QED BY <2>1, <2>3, BeginsJoined
<1> QED BY <1>2, <1>3, <1>4 DEF h

\* What a contribution binds, part by part, and what an authorization does.
ContributionParts(r) ==
  << Framed(Block("contribute-binding")), Framed(Block(CoreDigest(r.core))),
     Framed(Block(r.roster.yStar)), Framed(Block(r.roster.gates)), Framed(Block(r.gate)),
     Framed(r.context[1]), Framed(r.context[2]) >>
AuthorizationParts(r) ==
  << Framed(Block("gated-dleq")), Framed(Block(r.eStar)), Framed(Block(r.roster.yStar)),
     Framed(Block(r.vs)), Framed(r.ctx), Framed(r.epoch),
     Framed(Block(r.roster.gates)), Framed(Block(r.idx)), Framed(Block(r.gate)) >>

\* The core digest is of one core.
LEMMA CoreIsDigested ==
  ASSUME NEW a \in ContributeCalls, NEW b \in ContributeCalls, CoreDigest(a.core) = CoreDigest(b.core)
  PROVE  a.core = b.core
<1> DEFINE la == a.core.limbs
           lb == b.core.limbs
           fa == [k \in DOMAIN la |-> <<la[k]>>]
           fb == [k \in DOMAIN lb |-> <<lb[k]>>]
           ca == Block(a.core.c)
           cb == Block(b.core.c)
<1>1. /\ IsSequence(la) /\ IsSequence(lb)
      /\ a.core = [c |-> a.core.c, limbs |-> la] /\ b.core = [c |-> b.core.c, limbs |-> lb]
  BY ShareAssumption
<1>2. /\ Len(la) \in Nat /\ DOMAIN la = 1 .. Len(la)
      /\ Len(lb) \in Nat /\ DOMAIN lb = 1 .. Len(lb)
  BY <1>1, SequenceFacts
<1>3. /\ DOMAIN fa = 1 .. Len(la) /\ fa = [k \in DOMAIN fa |-> fa[k]]
      /\ DOMAIN fb = 1 .. Len(lb) /\ fb = [k \in DOMAIN fb |-> fb[k]]
  BY <1>2
<1>4. /\ \A k \in 1 .. Len(la) : fa[k] = <<la[k]>>
      /\ \A k \in 1 .. Len(lb) : fb[k] = <<lb[k]>>
  BY <1>2
<1>5. /\ IsSequence(ca) /\ Len(ca) = 1 /\ ca[1] = <<a.core.c>>
      /\ IsSequence(cb) /\ Len(cb) = 1 /\ cb[1] = <<b.core.c>>
  BY Single DEF Block
<1>6. ca \o fa = cb \o fb
  BY DEF CoreDigest, Digest
<1> HIDE DEF fa, fb, ca, cb
<1>7. /\ IsSequence(fa) /\ Len(fa) = Len(la) /\ IsSequence(fb) /\ Len(fb) = Len(lb)
  BY <1>2, <1>3, FunctionIsSequence
<1>8. Cuts(ca, cb)
  BY <1>5, SameLengthCuts
<1>9. ca = cb /\ fa = fb
  BY <1>6, <1>7, <1>8, CutsBefore
<1>10. a.core.c = b.core.c
  <2>1. <<a.core.c>> = <<b.core.c>>
    BY <1>5, <1>9
  <2> QED BY <2>1
<1>11. Len(lb) = Len(la) /\ \A k \in 1 .. Len(la) : lb[k] = la[k]
  <2>1. ASSUME NEW k \in 1 .. Len(la) PROVE lb[k] = la[k]
    <3>1. <<la[k]>> = <<lb[k]>>
      BY <1>4, <1>7, <1>9
    <3> QED BY <3>1
  <2> QED BY <1>7, <1>9, <2>1
<1>12. lb = la
  BY <1>1, <1>11, SequenceFacts
<1> QED BY <1>1, <1>10, <1>12

\* Contributions that bind the same are the same call.
LEMMA ContributionsBind ==
  ASSUME NEW a \in ContributeCalls, NEW b \in ContributeCalls, ContributionBytes(a) = ContributionBytes(b)
  PROVE  a = b
<1> DEFINE p == ContributionParts(a)
           q == ContributionParts(b)
<1>1. Seven(p) = Seven(q)
  BY DEF ContributionBytes, ContributionParts, Seven, Six, Five
<1>2. /\ a = [core |-> a.core, roster |-> a.roster, gate |-> a.gate, context |-> a.context]
      /\ a.roster = [yStar |-> a.roster.yStar, gates |-> a.roster.gates]
      /\ a.context = <<a.context[1], a.context[2]>>
      /\ IsSequence(a.context[1]) /\ IsSequence(a.context[2])
  BY ShareAssumption
<1>3. /\ b = [core |-> b.core, roster |-> b.roster, gate |-> b.gate, context |-> b.context]
      /\ b.roster = [yStar |-> b.roster.yStar, gates |-> b.roster.gates]
      /\ b.context = <<b.context[1], b.context[2]>>
      /\ IsSequence(b.context[1]) /\ IsSequence(b.context[2])
  BY ShareAssumption
<1>4. /\ p[1] = Framed(Block("contribute-binding")) /\ p[2] = Framed(Block(CoreDigest(a.core)))
      /\ p[3] = Framed(Block(a.roster.yStar)) /\ p[4] = Framed(Block(a.roster.gates))
      /\ p[5] = Framed(Block(a.gate)) /\ p[6] = Framed(a.context[1]) /\ p[7] = Framed(a.context[2])
  BY DEF ContributionParts
<1>5. /\ q[1] = Framed(Block("contribute-binding")) /\ q[2] = Framed(Block(CoreDigest(b.core)))
      /\ q[3] = Framed(Block(b.roster.yStar)) /\ q[4] = Framed(Block(b.roster.gates))
      /\ q[5] = Framed(Block(b.gate)) /\ q[6] = Framed(b.context[1]) /\ q[7] = Framed(b.context[2])
  BY DEF ContributionParts
<1> HIDE DEF p, q
<1>6. /\ Cuts(p[1], q[1])
      /\ Cuts(p[2], q[2]) /\ (p[2] = q[2] => CoreDigest(a.core) = CoreDigest(b.core))
      /\ Cuts(p[3], q[3]) /\ (p[3] = q[3] => a.roster.yStar = b.roster.yStar)
      /\ Cuts(p[4], q[4]) /\ (p[4] = q[4] => a.roster.gates = b.roster.gates)
      /\ Cuts(p[5], q[5]) /\ (p[5] = q[5] => a.gate = b.gate)
  BY <1>4, <1>5, BlockCuts
<1>7. /\ Cuts(p[6], q[6]) /\ (p[6] = q[6] => a.context[1] = b.context[1])
      /\ Cuts(p[7], q[7]) /\ (p[7] = q[7] => a.context[2] = b.context[2])
  BY <1>2, <1>3, <1>4, <1>5, FramedCuts
<1>8. FieldsCut(7, p, q)
  <2>1. \A i \in 1 .. 7 : i = 1 \/ i = 2 \/ i = 3 \/ i = 4 \/ i = 5 \/ i = 6 \/ i = 7
    OBVIOUS
  <2> QED BY <1>6, <1>7, <2>1 DEF FieldsCut
<1>9. FieldsEqual(7, p, q)
  BY <1>1, <1>8, MoreFieldsCuts
<1>10. /\ p[2] = q[2] /\ p[3] = q[3] /\ p[4] = q[4] /\ p[5] = q[5] /\ p[6] = q[6] /\ p[7] = q[7]
  BY <1>9 DEF FieldsEqual
<1>11. a.core = b.core
  BY <1>6, <1>10, CoreIsDigested
<1>12. a.roster = b.roster /\ a.gate = b.gate /\ a.context = b.context
  BY <1>2, <1>3, <1>6, <1>7, <1>10, SMTT(60)
<1> QED BY <1>2, <1>3, <1>11, <1>12

\* Authorizations that bind the same are the same call.
LEMMA AuthorizationsBind ==
  ASSUME NEW a \in AuthorizeCalls, NEW b \in AuthorizeCalls, AuthorizationBytes(a) = AuthorizationBytes(b)
  PROVE  a = b
<1> DEFINE p == AuthorizationParts(a)
           q == AuthorizationParts(b)
<1>1. Nine(p) = Nine(q)
  BY DEF AuthorizationBytes, AuthorizationParts, Nine, Eight, Five
<1>2. /\ a = [eStar |-> a.eStar, roster |-> a.roster, vs |-> a.vs, ctx |-> a.ctx,
              epoch |-> a.epoch, idx |-> a.idx, gate |-> a.gate]
      /\ a.roster = [yStar |-> a.roster.yStar, gates |-> a.roster.gates]
      /\ IsSequence(a.ctx) /\ IsSequence(a.epoch)
  BY ShareAssumption
<1>3. /\ b = [eStar |-> b.eStar, roster |-> b.roster, vs |-> b.vs, ctx |-> b.ctx,
              epoch |-> b.epoch, idx |-> b.idx, gate |-> b.gate]
      /\ b.roster = [yStar |-> b.roster.yStar, gates |-> b.roster.gates]
      /\ IsSequence(b.ctx) /\ IsSequence(b.epoch)
  BY ShareAssumption
<1>4. /\ p[1] = Framed(Block("gated-dleq")) /\ p[2] = Framed(Block(a.eStar))
      /\ p[3] = Framed(Block(a.roster.yStar)) /\ p[4] = Framed(Block(a.vs))
      /\ p[5] = Framed(a.ctx) /\ p[6] = Framed(a.epoch) /\ p[7] = Framed(Block(a.roster.gates))
      /\ p[8] = Framed(Block(a.idx)) /\ p[9] = Framed(Block(a.gate))
  BY DEF AuthorizationParts
<1>5. /\ q[1] = Framed(Block("gated-dleq")) /\ q[2] = Framed(Block(b.eStar))
      /\ q[3] = Framed(Block(b.roster.yStar)) /\ q[4] = Framed(Block(b.vs))
      /\ q[5] = Framed(b.ctx) /\ q[6] = Framed(b.epoch) /\ q[7] = Framed(Block(b.roster.gates))
      /\ q[8] = Framed(Block(b.idx)) /\ q[9] = Framed(Block(b.gate))
  BY DEF AuthorizationParts
<1> HIDE DEF p, q
<1>6. /\ Cuts(p[1], q[1])
      /\ Cuts(p[2], q[2]) /\ (p[2] = q[2] => a.eStar = b.eStar)
      /\ Cuts(p[3], q[3]) /\ (p[3] = q[3] => a.roster.yStar = b.roster.yStar)
      /\ Cuts(p[4], q[4]) /\ (p[4] = q[4] => a.vs = b.vs)
      /\ Cuts(p[7], q[7]) /\ (p[7] = q[7] => a.roster.gates = b.roster.gates)
      /\ Cuts(p[8], q[8]) /\ (p[8] = q[8] => a.idx = b.idx)
      /\ Cuts(p[9], q[9]) /\ (p[9] = q[9] => a.gate = b.gate)
  BY <1>4, <1>5, BlockCuts
<1>7. /\ Cuts(p[5], q[5]) /\ (p[5] = q[5] => a.ctx = b.ctx)
      /\ Cuts(p[6], q[6]) /\ (p[6] = q[6] => a.epoch = b.epoch)
  BY <1>2, <1>3, <1>4, <1>5, FramedCuts
<1>8. FieldsCut(9, p, q)
  <2>1. \A i \in 1 .. 9 : i = 1 \/ i = 2 \/ i = 3 \/ i = 4 \/ i = 5 \/ i = 6 \/ i = 7 \/ i = 8 \/ i = 9
    OBVIOUS
  <2> QED BY <1>6, <1>7, <2>1 DEF FieldsCut
<1>9. FieldsEqual(9, p, q)
  BY <1>1, <1>8, MoreFieldsCuts
<1>10. /\ p[2] = q[2] /\ p[3] = q[3] /\ p[4] = q[4] /\ p[5] = q[5] /\ p[6] = q[6] /\ p[7] = q[7]
       /\ p[8] = q[8] /\ p[9] = q[9]
  BY <1>9 DEF FieldsEqual
<1>11. a.eStar = b.eStar /\ a.roster = b.roster /\ a.vs = b.vs /\ a.idx = b.idx /\ a.gate = b.gate
  BY <1>2, <1>3, <1>6, <1>10
<1>12. a.ctx = b.ctx /\ a.epoch = b.epoch
  BY <1>7, <1>10
<1> QED BY <1>2, <1>3, <1>11, <1>12, SMTT(60)

\* Each binding is a sequence that begins with its domain.
LEMMA BindingsBegin ==
  /\ \A r \in ContributeCalls : Begins(ContributionBytes(r), <<"contribute-binding">>)
  /\ \A r \in AuthorizeCalls : Begins(AuthorizationBytes(r), <<"gated-dleq">>)
<1>1. ASSUME NEW r \in ContributeCalls
      PROVE  Begins(ContributionBytes(r), <<"contribute-binding">>)
  <2> DEFINE p == ContributionParts(r)
  <2>1. ContributionBytes(r) = Seven(p)
    BY DEF ContributionBytes, ContributionParts, Seven, Six, Five
  <2>2. IsSequence(r.context[1]) /\ IsSequence(r.context[2])
    BY ShareAssumption
  <2>3. /\ p[1] = Framed(Block("contribute-binding")) /\ p[2] = Framed(Block(CoreDigest(r.core)))
        /\ p[3] = Framed(Block(r.roster.yStar)) /\ p[4] = Framed(Block(r.roster.gates))
        /\ p[5] = Framed(Block(r.gate)) /\ p[6] = Framed(r.context[1]) /\ p[7] = Framed(r.context[2])
    BY DEF ContributionParts
  <2> HIDE DEF p
  <2>4. IsSequence(p[2]) /\ IsSequence(p[3]) /\ IsSequence(p[4]) /\ IsSequence(p[5])
    BY <2>3, BlockCuts
  <2>5. IsSequence(p[6]) /\ IsSequence(p[7])
    BY <2>2, <2>3, FramedCuts DEF Cuts
  <2>6. \A i \in 2 .. 7 : i = 2 \/ i = 3 \/ i = 4 \/ i = 5 \/ i = 6 \/ i = 7
    OBVIOUS
  <2>7. \A i \in 2 .. 7 : IsSequence(p[i])
    BY <2>4, <2>5, <2>6
  <2> QED BY <2>1, <2>3, <2>7, RowsBegin
<1>2. ASSUME NEW r \in AuthorizeCalls
      PROVE  Begins(AuthorizationBytes(r), <<"gated-dleq">>)
  <2> DEFINE p == AuthorizationParts(r)
  <2>1. AuthorizationBytes(r) = Nine(p)
    BY DEF AuthorizationBytes, AuthorizationParts, Nine, Eight, Five
  <2>2. IsSequence(r.ctx) /\ IsSequence(r.epoch)
    BY ShareAssumption
  <2>3. /\ p[1] = Framed(Block("gated-dleq")) /\ p[2] = Framed(Block(r.eStar))
        /\ p[3] = Framed(Block(r.roster.yStar)) /\ p[4] = Framed(Block(r.vs))
        /\ p[5] = Framed(r.ctx) /\ p[6] = Framed(r.epoch) /\ p[7] = Framed(Block(r.roster.gates))
        /\ p[8] = Framed(Block(r.idx)) /\ p[9] = Framed(Block(r.gate))
    BY DEF AuthorizationParts
  <2> HIDE DEF p
  <2>4. /\ IsSequence(p[2]) /\ IsSequence(p[3]) /\ IsSequence(p[4]) /\ IsSequence(p[7])
        /\ IsSequence(p[8]) /\ IsSequence(p[9])
    BY <2>3, BlockCuts
  <2>5. IsSequence(p[5]) /\ IsSequence(p[6])
    BY <2>2, <2>3, FramedCuts DEF Cuts
  <2>6. \A i \in 2 .. 9 : i = 2 \/ i = 3 \/ i = 4 \/ i = 5 \/ i = 6 \/ i = 7 \/ i = 8 \/ i = 9
    OBVIOUS
  <2>7. \A i \in 2 .. 9 : IsSequence(p[i])
    BY <2>4, <2>5, <2>6
  <2> QED BY <2>1, <2>3, <2>7, RowsBegin
<1> QED BY <1>1, <1>2

\* The calls, and that a binding is of one call.
LEMMA BindingIsOfOneCall ==
  ASSUME NEW a \in ShareCalls, NEW b \in ShareCalls
  PROVE  IsSequence(BindingBytes(a)) /\ (BindingBytes(a) = BindingBytes(b) => a = b)
<1> DEFINE OfContribute(x) == \E r \in ContributeCalls : x = [kind |-> "contribute", of |-> r]
           OfAuthorize(x) == \E r \in AuthorizeCalls : x = [kind |-> "authorize", of |-> r]
<1>1. ASSUME NEW x \in ShareCalls PROVE OfContribute(x) \/ OfAuthorize(x)
  BY DEF ShareCalls
<1>2. ASSUME NEW x, OfContribute(x)
      PROVE  /\ x.of \in ContributeCalls /\ x = [kind |-> "contribute", of |-> x.of]
             /\ BindingBytes(x) = ContributionBytes(x.of)
             /\ Begins(BindingBytes(x), <<"contribute-binding">>)
  BY <1>2, BindingsBegin DEF BindingBytes
<1>3. ASSUME NEW x, OfAuthorize(x)
      PROVE  /\ x.of \in AuthorizeCalls /\ x = [kind |-> "authorize", of |-> x.of]
             /\ BindingBytes(x) = AuthorizationBytes(x.of)
             /\ Begins(BindingBytes(x), <<"gated-dleq">>)
  BY <1>3, BindingsBegin DEF BindingBytes
<1> HIDE DEF OfContribute, OfAuthorize
<1>4. IsSequence(BindingBytes(a))
  BY <1>1, <1>2, <1>3 DEF Begins
<1>5. ASSUME BindingBytes(a) = BindingBytes(b) PROVE a = b
  <2>1. <<"contribute-binding">> # <<"gated-dleq">>
    OBVIOUS
  <2>2. CASE OfContribute(a) /\ OfContribute(b)
    <3>1. a.of = b.of
      BY <1>2, <1>5, <2>2, ContributionsBind
    <3> QED BY <1>2, <2>2, <3>1
  <2>3. CASE OfAuthorize(a) /\ OfAuthorize(b)
    <3>1. a.of = b.of
      BY <1>3, <1>5, <2>3, AuthorizationsBind
    <3> QED BY <1>3, <2>3, <3>1
  <2>4. CASE OfContribute(a) /\ OfAuthorize(b)
    BY <1>2, <1>3, <1>5, <2>1, <2>4 DEF Begins
  <2>5. CASE OfAuthorize(a) /\ OfContribute(b)
    BY <1>2, <1>3, <1>5, <2>1, <2>5 DEF Begins
  <2> QED BY <1>1, <2>2, <2>3, <2>4, <2>5
<1> QED BY <1>4, <1>5

\* The bases of a call are a sequence, and so are their multiples.
LEMMA SharePoints ==
  ASSUME NEW call \in ShareCalls
  PROVE  IsSequence(ShareBases(call)) /\ \A w : IsSequence(PointsTimes(w, ShareBases(call)))
<1>1. IsSequence(ShareBases(call))
  <2>1. CASE call.kind = "contribute"
    <3> DEFINE e == call.of.core.limbs
               f == [k \in DOMAIN e |-> e[k][1]]
    <3>1. call.of \in ContributeCalls
      BY <2>1 DEF ShareCalls
    <3>2. IsSequence(e)
      BY <3>1, ShareAssumption
    <3>3. Len(e) \in Nat /\ DOMAIN e = 1 .. Len(e)
      BY <3>2, SequenceFacts
    <3>4. DOMAIN f = 1 .. Len(e) /\ f = [k \in DOMAIN f |-> f[k]]
      BY <3>3
    <3>5. ShareBases(call) = <<"G">> \o f
      BY <2>1 DEF ShareBases
    <3> HIDE DEF f
    <3>6. IsSequence(f)
      BY <3>3, <3>4, FunctionIsSequence
    <3>7. IsSequence(<<"G">>)
      BY Single
    <3>8. JoinedFacts(<<"G">>, f)
      BY <3>6, <3>7, Joined
    <3> QED BY <3>5, <3>8 DEF JoinedFacts
  <2>2. CASE call.kind # "contribute"
    <3>1. ShareBases(call) = <<"G", call.of.eStar>>
      BY <2>2 DEF ShareBases
    <3>2. <<"G", call.of.eStar>> \in Seq({"G", call.of.eStar})
      OBVIOUS
    <3> QED BY <3>1, <3>2, Sequences
  <2> QED BY <2>1, <2>2
<1>2. ASSUME NEW w PROVE IsSequence(PointsTimes(w, ShareBases(call)))
  <2> DEFINE e == ShareBases(call)
             f == PointsTimes(w, e)
  <2>1. Len(e) \in Nat /\ DOMAIN e = 1 .. Len(e)
    BY <1>1, SequenceFacts
  <2>2. DOMAIN f = 1 .. Len(e) /\ f = [k \in DOMAIN f |-> f[k]]
    BY <2>1 DEF PointsTimes
  <2> HIDE DEF f, e
  <2>3. IsSequence(f)
    BY <2>1, <2>2, FunctionIsSequence
  <2> QED BY <2>3 DEF f, e
<1> QED BY <1>1, <1>2

\* What a nonce and a challenge hash, part by part.
NonceParts(p) ==
  << Framed(Block("dleq-nonce")), Framed(Block("dleq")), Framed(Block(p.seed)), Framed(Block(p.w)),
     Framed(BindingBytes(p.call)), FramedList(ShareBases(p.call)), FramedList(ShareImages(p)) >>
ChallengeParts(call, images, announcements) ==
  << Framed(Block("ec-segve")), Framed(Block("dleq")), Framed(BindingBytes(call)),
     FramedList(ShareBases(call)), FramedList(images), FramedList(announcements) >>

\* Equal nonces are of proofs that show the same to the same verifier.
LEMMA SameShareNonce ==
  ASSUME NEW p, NEW q, p.call \in ShareCalls, q.call \in ShareCalls, ShareNonce(p) = ShareNonce(q)
  PROVE  ShareChallenge(p) = ShareChallenge(q)
<1> DEFINE a == NonceParts(p)
           b == NonceParts(q)
<1>1. Seven(a) = Seven(b)
  BY DEF ShareNonce, Digest, NonceParts, Seven, Six, Five
<1>2. /\ a[1] = Framed(Block("dleq-nonce")) /\ a[2] = Framed(Block("dleq"))
      /\ a[3] = Framed(Block(p.seed)) /\ a[4] = Framed(Block(p.w))
      /\ a[5] = Framed(BindingBytes(p.call)) /\ a[6] = FramedList(ShareBases(p.call))
      /\ a[7] = FramedList(ShareImages(p))
  BY DEF NonceParts
<1>3. /\ b[1] = Framed(Block("dleq-nonce")) /\ b[2] = Framed(Block("dleq"))
      /\ b[3] = Framed(Block(q.seed)) /\ b[4] = Framed(Block(q.w))
      /\ b[5] = Framed(BindingBytes(q.call)) /\ b[6] = FramedList(ShareBases(q.call))
      /\ b[7] = FramedList(ShareImages(q))
  BY DEF NonceParts
<1>4. /\ IsSequence(BindingBytes(p.call)) /\ IsSequence(ShareBases(p.call)) /\ IsSequence(ShareImages(p))
      /\ IsSequence(BindingBytes(q.call)) /\ IsSequence(ShareBases(q.call)) /\ IsSequence(ShareImages(q))
  BY BindingIsOfOneCall, SharePoints DEF ShareImages
<1> HIDE DEF a, b
<1>5. Cuts(a[1], b[1]) /\ Cuts(a[2], b[2]) /\ Cuts(a[3], b[3]) /\ Cuts(a[4], b[4])
  BY <1>2, <1>3, BlockCuts
<1>6. Cuts(a[5], b[5]) /\ (a[5] = b[5] => BindingBytes(p.call) = BindingBytes(q.call))
  BY <1>2, <1>3, <1>4, FramedCuts
<1>7. /\ Cuts(a[6], b[6]) /\ (a[6] = b[6] => ShareBases(p.call) = ShareBases(q.call))
      /\ Cuts(a[7], b[7]) /\ (a[7] = b[7] => ShareImages(p) = ShareImages(q))
  BY <1>2, <1>3, <1>4, ListCuts
<1>8. FieldsCut(7, a, b)
  <2>1. \A i \in 1 .. 7 : i = 1 \/ i = 2 \/ i = 3 \/ i = 4 \/ i = 5 \/ i = 6 \/ i = 7
    OBVIOUS
  <2> QED BY <1>5, <1>6, <1>7, <2>1 DEF FieldsCut
<1>9. FieldsEqual(7, a, b)
  BY <1>1, <1>8, MoreFieldsCuts
<1>10. a[5] = b[5] /\ a[6] = b[6] /\ a[7] = b[7]
  BY <1>9 DEF FieldsEqual
<1>11. ShareAnnouncements(p) = ShareAnnouncements(q)
  BY <1>7, <1>10 DEF ShareAnnouncements
<1> QED BY <1>6, <1>7, <1>10, <1>11 DEF ShareChallenge, ChallengeFor

\* The challenge of a proof is derived for its own call only.
LEMMA ChallengeIsOfOneCall ==
  ASSUME NEW p, p.call \in ShareCalls, NEW call \in ShareCalls,
         ChallengeFor(call, ShareImages(p), ShareAnnouncements(p)) = ShareChallenge(p)
  PROVE  call = p.call
<1> DEFINE x == ShareImages(p)
           y == ShareAnnouncements(p)
           a == ChallengeParts(call, x, y)
           b == ChallengeParts(p.call, x, y)
<1>1. Six(a) = Six(b)
  BY DEF ShareChallenge, ChallengeFor, Digest, NewTranscript, ChallengeParts, Six, Five
<1>2. /\ a[1] = Framed(Block("ec-segve")) /\ a[2] = Framed(Block("dleq"))
      /\ a[3] = Framed(BindingBytes(call)) /\ a[4] = FramedList(ShareBases(call))
      /\ a[5] = FramedList(x) /\ a[6] = FramedList(y)
  BY DEF ChallengeParts
<1>3. /\ b[1] = Framed(Block("ec-segve")) /\ b[2] = Framed(Block("dleq"))
      /\ b[3] = Framed(BindingBytes(p.call)) /\ b[4] = FramedList(ShareBases(p.call))
      /\ b[5] = FramedList(x) /\ b[6] = FramedList(y)
  BY DEF ChallengeParts
<1>4. /\ IsSequence(BindingBytes(call)) /\ IsSequence(ShareBases(call))
      /\ IsSequence(BindingBytes(p.call)) /\ IsSequence(ShareBases(p.call))
  BY BindingIsOfOneCall, SharePoints
<1>5. IsSequence(x) /\ IsSequence(y)
  BY SharePoints DEF ShareImages, ShareAnnouncements
<1> HIDE DEF a, b, x, y
<1>6. Cuts(a[1], b[1]) /\ Cuts(a[2], b[2])
  BY <1>2, <1>3, BlockCuts
<1>7. Cuts(a[3], b[3]) /\ (a[3] = b[3] => BindingBytes(call) = BindingBytes(p.call))
  BY <1>2, <1>3, <1>4, FramedCuts
<1>8. Cuts(a[4], b[4]) /\ Cuts(a[5], b[5]) /\ Cuts(a[6], b[6])
  BY <1>2, <1>3, <1>4, <1>5, ListCuts
<1>9. FieldsCut(6, a, b)
  <2>1. \A i \in 1 .. 6 : i = 1 \/ i = 2 \/ i = 3 \/ i = 4 \/ i = 5 \/ i = 6
    OBVIOUS
  <2> QED BY <1>6, <1>7, <1>8, <2>1 DEF FieldsCut
<1>10. FieldsEqual(6, a, b)
  BY <1>1, <1>9, MoreFieldsCuts
<1>11. a[3] = b[3]
  BY <1>10 DEF FieldsEqual
<1> QED BY <1>7, <1>11, BindingIsOfOneCall

\* The proofs made are of calls.
ShareInv == \A p \in shareProofs : p.call \in ShareCalls

\* Every proof keeps it.
LEMMA NextShareInv == ShareInv /\ [ShareNext]_shareProofs => ShareInv'
<1> SUFFICES ASSUME ShareInv, [ShareNext]_shareProofs PROVE ShareInv'
  OBVIOUS
<1>1. ASSUME NEW call \in ShareCalls, NEW w, NEW seed, MakeProof(call, w, seed) PROVE ShareInv'
  BY <1>1 DEF MakeProof, ShareInv
<1>2. ASSUME NEW w \in ShareScalars, NEW seed \in NonceSeeds, NEW r \in ContributeCalls,
             ContributeShare(r, w, seed)
      PROVE  ShareInv'
  <2>1. [kind |-> "contribute", of |-> r] \in ShareCalls
    BY DEF ShareCalls
  <2> QED BY <1>1, <1>2, <2>1 DEF ContributeShare
<1>3. ASSUME NEW w \in ShareScalars, NEW seed \in NonceSeeds, NEW r \in AuthorizeCalls,
             AuthorizeShare(r, w, seed)
      PROVE  ShareInv'
  <2>1. [kind |-> "authorize", of |-> r] \in ShareCalls
    BY DEF ShareCalls
  <2> QED BY <1>1, <1>3, <2>1 DEF AuthorizeShare
<1>4. CASE UNCHANGED shareProofs
  BY <1>4 DEF ShareInv
<1> QED BY <1>2, <1>3, <1>4 DEF ShareNext

\* A holder's nonce is answered at one challenge over every contribution and
\* authorization, whatever the generator of random numbers repeats, and a
\* challenge is derived for one call only (statement_bound_nonce, challenge,
\* contribution_binding and gated_dleq_binding), for any calls.
THEOREM ShareProofsBound == ShareSpec => []ShareProofsAreBound
<1>1. ShareInit => ShareInv
  BY DEF ShareInit, ShareInv
<1>2. ShareInv => ShareProofsAreBound
  <2> SUFFICES ASSUME ShareInv, NEW p \in shareProofs
               PROVE  /\ \A q \in shareProofs :
                           ShareNonce(p) = ShareNonce(q) => ShareChallenge(p) = ShareChallenge(q)
                      /\ \A call \in ShareCalls :
                           ChallengeFor(call, ShareImages(p), ShareAnnouncements(p)) = ShareChallenge(p)
                             => call = p.call
    BY DEF ShareProofsAreBound
  <2>1. p.call \in ShareCalls /\ \A q \in shareProofs : q.call \in ShareCalls
    BY DEF ShareInv
  <2> QED BY <2>1, SameShareNonce, ChallengeIsOfOneCall
<1> QED BY <1>1, <1>2, NextShareInv, PTL DEF ShareSpec


----------------------------------------------------------------------------
(* Multi-scalar multiplication by buckets.                                 *)

\* The sum over part of D, as one over all of D.
LEMMA SumFiltered ==
  ASSUME NEW D, IsFiniteSet(D), NEW f \in [D -> Int], NEW u \in SUBSET D
  PROVE  SumFunction(Over(f, u)) = SumFunction([x \in D |-> IF x \in u THEN f[x] ELSE 0])
<1> DEFINE g == [x \in D |-> IF x \in u THEN f[x] ELSE 0]
           F(v) == SumFunction(Over(f, u \cap v))
           H(v) == SumFunction(Over(g, v))
           Q == {v \in SUBSET D : F(v) = H(v)}
<1>1. g \in [D -> Int]
  OBVIOUS
<1>2. \A x \in D : g[x] = IF x \in u THEN f[x] ELSE 0
  OBVIOUS
<1> HIDE DEF g
<1>3. \A v \in SUBSET D : /\ H(v) \in Int /\ (v = {} => H(v) = 0)
                          /\ \A x \in v : H(v) = g[x] + H(v \ {x})
  BY <1>1, SumOverPart
<1>4. ASSUME NEW v \in SUBSET D
      PROVE  /\ F(v) \in Int /\ (u \cap v = {} => F(v) = 0)
             /\ \A x \in u \cap v : F(v) = f[x] + SumFunction(Over(f, (u \cap v) \ {x}))
  <2>1. PICK w \in SUBSET D : w = u \cap v
    OBVIOUS
  <2> QED BY <2>1, SumOverPart
<1>5. {} \in Q
  <2>1. u \cap {} = {} /\ {} \in SUBSET D
    OBVIOUS
  <2>2. F({}) = 0
    <3> HIDE DEF F
    <3> QED BY <1>4, <2>1
  <2>3. H({}) = 0
    <3> HIDE DEF H
    <3> QED BY <1>3, <2>1
  <2> QED BY <2>2, <2>3
<1>6. ASSUME NEW v \in SUBSET D, NEW x \in v, v \ {x} \in Q PROVE v \in Q
  <2>1. F(v \ {x}) = H(v \ {x}) /\ H(v) = g[x] + H(v \ {x}) /\ x \in D
    BY <1>3, <1>6
  <2>2. CASE x \in u
    <3>1. (u \cap v) \ {x} = u \cap (v \ {x}) /\ x \in u \cap v
      BY <2>2
    <3>2. F(v) = f[x] + F(v \ {x})
      BY <1>4, <3>1
    <3>3. g[x] = f[x]
      BY <1>2, <2>1, <2>2
    <3> QED BY <2>1, <3>2, <3>3
  <2>3. CASE x \notin u
    <3>1. u \cap v = u \cap (v \ {x})
      BY <2>3
    <3>2. F(v) = F(v \ {x})
      BY <3>1
    <3>3. g[x] = 0 /\ H(v \ {x}) \in Int
      BY <1>2, <1>3, <2>1, <2>3
    <3> HIDE DEF F, H
    <3> QED BY <2>1, <3>2, <3>3
  <2> QED BY <2>2, <2>3
<1>7. D \in Q
  <2> HIDE DEF Q
  <2>1. SUBSET D \subseteq Q
    BY <1>5, <1>6, AllSubsets
  <2> QED BY <2>1
<1>8. u \cap D = u /\ Over(g, D) = g
  BY <1>1 DEF Over
<1> QED BY <1>7, <1>8 DEF g

\* One more step of two sums that go on alike.
LEMMA SameStep ==
  ASSUME NEW x \in Int, NEW y \in Int, NEW z \in Int, NEW f \in Int, NEW g \in Int, NEW h \in Int,
         Same(z, x + y), Same(x, g), Same(y, h), Same(f, g + h)
  PROVE  Same(z, f)
<1>1. Same(x + y, g + h)
  BY SameArithmetic
<1>2. PICK a \in Int, b \in Int : a = x + y /\ b = g + h
  OBVIOUS
<1>3. Same(z, a) /\ Same(a, b) /\ Same(f, b)
  BY <1>1, <1>2
<1> QED BY ONLY <1>3, SameIsEquivalence, z \in Int, f \in Int, a \in Int, b \in Int

\* A sum of nothing but zeros.
LEMMA SumZero ==
  ASSUME NEW D, IsFiniteSet(D)
  PROVE  SumFunction([x \in D |-> 0]) = 0
<1>1. PICK a \in Int : a = 0
  OBVIOUS
<1>2. Cardinality(D) \in Nat /\ SumFunction([x \in D |-> a]) = Cardinality(D) * a
  BY SumConstant
<1>3. PICK c \in Nat : c = Cardinality(D)
  BY <1>2
<1>4. c * a = 0
  BY <1>1
<1> QED BY <1>1, <1>2, <1>3, <1>4

\* The sum of a sum of two functions.
LEMMA SumsAdd ==
  ASSUME NEW D, IsFiniteSet(D), NEW f \in [D -> Int], NEW g \in [D -> Int], NEW h \in [D -> Int],
         \A x \in D : f[x] = g[x] + h[x]
  PROVE  /\ SumFunction(f) \in Int /\ SumFunction(g) \in Int /\ SumFunction(h) \in Int
         /\ Same(SumFunction(f), SumFunction(g) + SumFunction(h))
<1>1. PICK a \in Int : a = 1
  OBVIOUS
<1>2. ASSUME NEW x \in D PROVE Same(f[x], g[x] + a * h[x])
  <2>1. PICK y \in Int, z \in Int, w \in Int : w = f[x] /\ y = g[x] /\ z = h[x]
    OBVIOUS
  <2>2. w = y + a * z
    BY <1>1, <2>1
  <2>3. Same(w, w)
    BY SameIsEquivalence
  <2> QED BY <2>1, <2>2, <2>3
<1>3. /\ SumFunction(f) \in Int /\ SumFunction(g) \in Int /\ SumFunction(h) \in Int
      /\ Same(SumFunction(f), SumFunction(g) + a * SumFunction(h))
  BY <1>2, SumsCombine
<1>4. PICK y \in Int : y = SumFunction(h)
  BY <1>3
<1>5. a * y = y
  BY <1>1
<1> QED BY <1>3, <1>4, <1>5

----------------------------------------------------------------------------
(* Powers of two and the digits between them.                              *)

Doubles(h, n) == h = [k \in 0 .. n |-> IF k = 0 THEN 1 ELSE 2 * h[k - 1]]

LEMMA DoublesUp ==
  ASSUME NEW n \in Nat
  PROVE  /\ \E h : Doubles(h, n)
         /\ \A h : Doubles(h, n) => /\ h[0] = 1 /\ \A k \in 0 .. n : h[k] \in Nat \ {0}
                                    /\ \A k \in 1 .. n : h[k] = 2 * h[k - 1]
<1> DEFINE step == [k \in 1 .. n |-> [x \in Int |-> 2 * x]]
<1>1. \E h : Doubles(h, n)
  <2>1. Steps(n, step)
    BY DEF Steps
  <2> HIDE DEF step
  <2>2. PICK h : Solves(h, n, 1, step)
    BY <2>1, Recursion
  <2> USE DEF Solves
  <2>3. \A k \in 1 .. n : h[k - 1] \in Int
    BY <2>2
  <2>4. \A k \in 1 .. n : step[k][h[k - 1]] = 2 * h[k - 1]
    BY <2>3 DEF step
  <2>5. Doubles(h, n)
    BY <2>2, <2>4 DEF Doubles
  <2> QED BY <2>5
<1>2. ASSUME NEW h, Doubles(h, n)
      PROVE  /\ h[0] = 1 /\ \A k \in 0 .. n : h[k] \in Nat \ {0}
             /\ \A k \in 1 .. n : h[k] = 2 * h[k - 1]
  <2>1. h[0] = 1
    BY <1>2 DEF Doubles
  <2>2. \A k \in 1 .. n : h[k] = 2 * h[k - 1]
    BY <1>2 DEF Doubles
  <2> DEFINE T == {k \in Nat : h[k] \in Nat \ {0}}
  <2>3. 0 \in T
    BY <2>1
  <2>4. ASSUME NEW k \in 0 .. n - 1, k \in T PROVE k + 1 \in T
    <3>1. h[k + 1] = 2 * h[k]
      <4>1. k + 1 \in 1 .. n /\ (k + 1) - 1 = k
        OBVIOUS
      <4> HIDE DEF T
      <4> QED BY <2>2, <4>1
    <3>2. PICK x \in Nat \ {0} : x = h[k]
      BY <2>4
    <3> QED BY <3>1, <3>2
  <2>5. \A k \in 0 .. n : k \in T
    <3> HIDE DEF T
    <3> QED BY <2>3, <2>4, AllUpTo
  <2> QED BY <2>1, <2>2, <2>5
<1> QED BY <1>1, <1>2

LEMMA TwoToDoubles ==
  ASSUME NEW n \in Nat
  PROVE  /\ TwoTo(n) \in Nat \ {0} /\ TwoTo(0) = 1
         /\ TwoTo(n + 1) = 2 * TwoTo(n)
<1>1. ASSUME NEW m \in Nat PROVE \E h : Doubles(h, m) /\ TwoTo(m) = h[m]
  <2>1. TwoTo(m) = (CHOOSE h : Doubles(h, m))[m]
    BY DEF TwoTo, Doubles
  <2>2. Doubles(CHOOSE h : Doubles(h, m), m)
    BY DoublesUp
  <2> QED BY <2>1, <2>2
<1>2. PICK h : Doubles(h, n) /\ TwoTo(n) = h[n]
  BY <1>1
<1>3. PICK g : Doubles(g, n + 1) /\ TwoTo(n + 1) = g[n + 1]
  BY <1>1
<1>4. TwoTo(n) \in Nat \ {0} /\ h[0] = 1 /\ \A k \in 1 .. n : h[k] = 2 * h[k - 1]
  BY <1>2, DoublesUp
<1>5. g[0] = 1 /\ \A k \in 1 .. n + 1 : g[k] = 2 * g[k - 1]
  BY <1>3, DoublesUp
<1>6. TwoTo(0) = 1
  <2>1. PICK f : Doubles(f, 0) /\ TwoTo(0) = f[0]
    BY <1>1
  <2> QED BY <2>1, DoublesUp
<1> DEFINE T == {k \in Nat : g[k] = h[k]}
<1>7. 0 \in T
  BY <1>4, <1>5
<1>8. ASSUME NEW k \in 0 .. n - 1, k \in T PROVE k + 1 \in T
  <2>1. k + 1 \in 1 .. n /\ k + 1 \in 1 .. n + 1 /\ (k + 1) - 1 = k
    OBVIOUS
  <2>2. g[k + 1] = 2 * g[k] /\ h[k + 1] = 2 * h[k]
    <3> HIDE DEF T
    <3> QED BY <1>4, <1>5, <2>1
  <2> QED BY <1>8, <2>2
<1>9. \A k \in 0 .. n : k \in T
  <2> HIDE DEF T
  <2> QED BY <1>7, <1>8, AllUpTo
<1>10. g[n] = h[n]
  BY <1>9
<1>11. g[n + 1] = 2 * g[n]
  <2>1. n + 1 \in 1 .. n + 1 /\ (n + 1) - 1 = n
    OBVIOUS
  <2> HIDE DEF T
  <2> QED BY <1>5, <2>1
<1> QED BY <1>2, <1>3, <1>4, <1>6, <1>10, <1>11

LEMMA TwoToAdds ==
  ASSUME NEW a \in Nat, NEW b \in Nat
  PROVE  TwoTo(a + b) = TwoTo(a) * TwoTo(b) /\ TwoTo(a) <= TwoTo(a + b)
<1> DEFINE T == {n \in Nat : TwoTo(a + n) = TwoTo(a) * TwoTo(n)}
<1>0. PICK x \in Nat \ {0} : x = TwoTo(a)
  BY TwoToDoubles
<1>1. 0 \in T
  <2>1. a + 0 = a /\ TwoTo(0) = 1
    BY TwoToDoubles
  <2> QED BY <1>0, <2>1
<1>2. ASSUME NEW n \in Nat, n \in T PROVE n + 1 \in T
  <2>1. a + (n + 1) = (a + n) + 1 /\ a + n \in Nat
    OBVIOUS
  <2>2. TwoTo((a + n) + 1) = 2 * TwoTo(a + n) /\ TwoTo(n + 1) = 2 * TwoTo(n)
    <3> HIDE DEF T
    <3> QED BY <2>1, TwoToDoubles
  <2>3. PICK y \in Nat : y = TwoTo(n)
    <3> HIDE DEF T
    <3> QED BY TwoToDoubles
  <2>4. TwoTo(a + n) = x * y
    BY <1>0, <1>2, <2>3
  <2>5. 2 * (x * y) = x * (2 * y)
    OBVIOUS
  <2>6. TwoTo(a + (n + 1)) = TwoTo(a) * TwoTo(n + 1)
    <3> HIDE DEF T
    <3> QED BY <1>0, <2>1, <2>2, <2>3, <2>4, <2>5
  <2> QED BY <2>6
<1>3. TwoTo(a + b) = TwoTo(a) * TwoTo(b)
  <2>1. Nat \subseteq T
    <3> HIDE DEF T
    <3> QED BY <1>1, <1>2, AllNaturals
  <2> QED BY <2>1
<1>4. PICK z \in Nat \ {0} : z = TwoTo(b)
  BY TwoToDoubles
<1>5. x <= x * z
  OBVIOUS
<1> QED BY <1>0, <1>3, <1>4, <1>5

\* A quotient of a quotient is one by the product.
LEMMA QuotientTwice ==
  ASSUME NEW m \in Nat, NEW p \in Nat \ {0}, NEW q \in Nat \ {0}
  PROVE  /\ m \div p \in Nat /\ m \div (p * q) \in Nat
         /\ (m \div p) % q \in 0 .. q - 1
         /\ m \div p = q * (m \div (p * q)) + ((m \div p) % q)
<1>1. \A n \in Nat \ {0} : \A x \in Nat : x \div n \in Nat /\ x % n \in 0 .. n - 1
                                          /\ x = n * (x \div n) + (x % n)
  OBVIOUS
<1>2. PICK a \in Nat : a = m \div p
  BY <1>1
<1>3. PICK r \in 0 .. p - 1 : r = m % p
  BY <1>1
<1>4. m = p * a + r
  BY <1>1, <1>2, <1>3
<1>5. PICK c \in Nat : c = a \div q
  BY <1>1
<1>6. PICK d \in 0 .. q - 1 : d = a % q
  BY <1>1
<1>7. a = q * c + d
  BY <1>1, <1>5, <1>6
<1>8. PICK y \in Nat \ {0} : y = p * q
  BY p * q \in Nat \ {0}
<1>9. p * d + r \in 0 .. y - 1
  <2>1. p * d <= p * (q - 1) /\ p * (q - 1) = p * q - p /\ p * d \in Nat
    OBVIOUS
  <2> QED BY <1>8, <2>1
<1>10. PICK x \in 0 .. y - 1 : x = p * d + r
  BY <1>9
<1>11. m = y * c + x
  <2>1. p * (q * c + d) = (p * q) * c + p * d
    OBVIOUS
  <2> QED BY <1>4, <1>7, <1>8, <1>10, <2>1
<1>12. m \div y = c
  BY <1>11, DivisionUnique
<1> QED BY <1>2, <1>5, <1>6, <1>7, <1>8, <1>12

----------------------------------------------------------------------------
(* Buckets.                                                                *)

\* A function that starts with an integer and goes on with integers.
LEMMA IntegersThroughout ==
  ASSUME NEW n \in Nat, NEW h, h = [k \in 0 .. n |-> h[k]], h[0] \in Int,
         \A k \in 1 .. n : h[k - 1] \in Int => h[k] \in Int
  PROVE  h \in [0 .. n -> Int]
<1> DEFINE T == {k \in Nat : h[k] \in Int}
<1>1. 0 \in T
  OBVIOUS
<1>2. ASSUME NEW k \in 0 .. n - 1, k \in T PROVE k + 1 \in T
  <2>1. k + 1 \in 1 .. n /\ (k + 1) - 1 = k /\ k + 1 \in Nat
    OBVIOUS
  <2>2. h[k] \in Int
    BY <1>2
  <2>3. h[k + 1] \in Int
    <3> HIDE DEF T
    <3> QED BY <2>1, <2>2
  <2> QED BY <2>1, <2>3
<1>3. \A k \in 0 .. n : k \in T
  <2> HIDE DEF T
  <2> QED BY <1>1, <1>2, AllUpTo
<1>4. \A k \in 0 .. n : h[k] \in Int
  BY <1>3
<1> QED BY <1>4

\* h adds up b, one after another up to the n-th.
Accumulates(h, n, b) == h = [k \in 0 .. n |-> IF k = 0 THEN 0 ELSE Plus(h[k - 1], b[k])]
AddsUp(h, n, b) ==
  h \in [0 .. n -> Int] /\ h[0] = 0 /\ \A k \in 1 .. n : Same(h[k], h[k - 1] + b[k])

LEMMA Accumulation ==
  ASSUME NEW n \in Nat, NEW b \in [1 .. n -> Int]
  PROVE  /\ \E h : Accumulates(h, n, b)
         /\ \A h : Accumulates(h, n, b) => AddsUp(h, n, b)
<1> DEFINE step == [k \in 1 .. n |-> [x \in Int |-> Plus(x, b[k])]]
<1>0. \A x \in Int, y \in Int : Plus(x, y) \in Int /\ Same(Plus(x, y), x + y)
  <2>1. Scalars \subseteq Int
    BY AlgebraAssumption DEF Scalars
  <2> QED BY <2>1, SameOperations
<1>1. \E h : Accumulates(h, n, b)
  <2>1. Steps(n, step)
    BY <1>0 DEF Steps
  <2> HIDE DEF step
  <2>2. PICK h : Solves(h, n, 0, step)
    BY <2>1, Recursion
  <2> USE DEF Solves
  <2>3. \A k \in 1 .. n : h[k - 1] \in Int
    BY <2>2
  <2>4. \A k \in 1 .. n : step[k][h[k - 1]] = Plus(h[k - 1], b[k])
    BY <2>3 DEF step
  <2>5. Accumulates(h, n, b)
    BY <2>2, <2>4 DEF Accumulates
  <2> QED BY <2>5
<1>2. ASSUME NEW h, Accumulates(h, n, b) PROVE AddsUp(h, n, b)
  <2>1. h[0] = 0 /\ h = [k \in 0 .. n |-> h[k]]
    BY <1>2 DEF Accumulates
  <2>2. \A k \in 1 .. n : h[k] = Plus(h[k - 1], b[k])
    BY <1>2 DEF Accumulates
  <2>3. h \in [0 .. n -> Int]
    <3>1. \A k \in 1 .. n : h[k - 1] \in Int => h[k] \in Int
      BY <1>0, <2>2
    <3> QED BY ONLY <2>1, <3>1, n \in Nat, IntegersThroughout, 0 \in Int
  <2>4. \A k \in 1 .. n : Same(h[k], h[k - 1] + b[k])
    <3> SUFFICES ASSUME NEW k \in 1 .. n PROVE Same(h[k], h[k - 1] + b[k])
      OBVIOUS
    <3>1. h[k - 1] \in Int /\ b[k] \in Int
      BY <2>3
    <3> QED BY <1>0, <2>2, <3>1
  <2> QED BY <2>1, <2>3, <2>4 DEF AddsUp
<1> QED BY <1>1, <1>2

\* The points of a digit are thrown into its bucket; the topmost is the first.
Sorted(K, p, d, n, b) ==
  /\ IsFiniteSet(K) /\ p \in [K -> Int] /\ d \in [K -> 0 .. n]
  /\ b \in [1 .. n -> Int]
  /\ \A k \in 1 .. n : Same(b[k], SumFunction(Over(p, {i \in K : d[i] = n + 1 - k})))

\* The running sum is of the points whose bucket was met.
Met(K, p, d, n, k) == [i \in K |-> IF d[i] >= n + 1 - k THEN p[i] ELSE 0]

LEMMA RunningSums ==
  ASSUME NEW n \in Nat, NEW K, NEW p, NEW d, NEW b, Sorted(K, p, d, n, b), NEW r, AddsUp(r, n, b)
  PROVE  \A k \in 0 .. n : /\ Met(K, p, d, n, k) \in [K -> Int]
                           /\ Same(r[k], SumFunction(Met(K, p, d, n, k)))
<1>1. /\ IsFiniteSet(K) /\ p \in [K -> Int] /\ d \in [K -> 0 .. n] /\ b \in [1 .. n -> Int]
      /\ \A k \in 1 .. n : Same(b[k], SumFunction(Over(p, {i \in K : d[i] = n + 1 - k})))
  BY DEF Sorted
<1>2. /\ r \in [0 .. n -> Int] /\ r[0] = 0
      /\ \A k \in 1 .. n : Same(r[k], r[k - 1] + b[k])
  BY DEF AddsUp
<1>3. \A k \in 0 .. n : Met(K, p, d, n, k) \in [K -> Int]
  BY <1>1 DEF Met
<1> DEFINE T == {k \in Nat : Same(r[k], SumFunction(Met(K, p, d, n, k)))}
<1>4. 0 \in T
  <2>1. Met(K, p, d, n, 0) = [i \in K |-> 0]
    BY <1>1 DEF Met
  <2>3. SumFunction(Met(K, p, d, n, 0)) = 0
    BY <1>1, <2>1, SumZero
  <2>4. Same(0, 0)
    BY SameIsEquivalence
  <2> QED BY <1>2, <2>3, <2>4
<1>5. ASSUME NEW k \in 0 .. n - 1, k \in T PROVE k + 1 \in T
  <2> DEFINE u == {i \in K : d[i] = n + 1 - (k + 1)}
             f == Met(K, p, d, n, k + 1)
             g == Met(K, p, d, n, k)
             h == [i \in K |-> IF i \in u THEN p[i] ELSE 0]
  <2>1. k + 1 \in 1 .. n /\ k + 1 \in 0 .. n /\ k \in 0 .. n /\ (k + 1) - 1 = k
    OBVIOUS
  <2>2. f \in [K -> Int] /\ g \in [K -> Int]
    BY <1>3, <2>1
  <2>3. h \in [K -> Int]
    BY <1>1
  <2>4. ASSUME NEW i \in K PROVE f[i] = g[i] + h[i]
    <3>1. PICK e \in 0 .. n : e = d[i]
      BY <1>1
    <3>2. PICK x \in Int : x = p[i]
      BY <1>1
    <3>3. i \in u <=> e = n + 1 - (k + 1)
      BY <3>1
    <3> HIDE DEF u
    <3>4. /\ f[i] = IF e >= n + 1 - (k + 1) THEN x ELSE 0
          /\ g[i] = IF e >= n + 1 - k THEN x ELSE 0
          /\ h[i] = IF e = n + 1 - (k + 1) THEN x ELSE 0
      BY <3>1, <3>2, <3>3 DEF Met
    <3> QED BY ONLY <3>4, <2>1, n \in Nat, e \in 0 .. n, x \in Int, k \in 0 .. n - 1
  <2>5. u \in SUBSET K
    OBVIOUS
  <2>6. Same(b[k + 1], SumFunction(Over(p, u)))
    BY <1>1, <2>1
  <2>7. SumFunction(Over(p, u)) = SumFunction(h)
    <3> HIDE DEF u, h
    <3>1. h = [i \in K |-> IF i \in u THEN p[i] ELSE 0]
      BY DEF h
    <3>2. IsFiniteSet(K) /\ p \in [K -> Int]
      BY <1>1
    <3> QED BY ONLY <2>5, <3>1, <3>2, SumFiltered
  <2>8. Same(r[k], SumFunction(g))
    BY <1>5
  <2>9. r[k] \in Int /\ r[k + 1] \in Int /\ b[k + 1] \in Int /\ Same(r[k + 1], r[k] + b[k + 1])
    <3> HIDE DEF T, u, f, g, h
    <3> QED BY <1>1, <1>2, <2>1
  <2> HIDE DEF u, f, g, h, T
  <2>11. /\ SumFunction(f) \in Int /\ SumFunction(g) \in Int /\ SumFunction(h) \in Int
         /\ Same(SumFunction(f), SumFunction(g) + SumFunction(h))
    BY <1>1, <2>2, <2>3, <2>4, SumsAdd
  <2>12. PICK F \in Int, Y \in Int, H \in Int :
           F = SumFunction(f) /\ Y = SumFunction(g) /\ H = SumFunction(h)
    BY <2>11
  <2>13. PICK x \in Int, y \in Int, z \in Int : x = r[k] /\ y = b[k + 1] /\ z = r[k + 1]
    BY <2>9
  <2>14. Same(F, Y + H) /\ Same(x, Y) /\ Same(y, H) /\ Same(z, x + y)
    BY <2>6, <2>7, <2>8, <2>9, <2>12, <2>11, <2>13
  <2>15. Same(z, F)
    BY ONLY <2>12, <2>13, <2>14, SameStep
  <2> QED BY <2>12, <2>13, <2>15 DEF T, f
<1>6. \A k \in 0 .. n : k \in T
  <2> HIDE DEF T
  <2> QED BY <1>4, <1>5, AllUpTo
<1> QED BY <1>3, <1>6

\* How often the points of digit e are in the running sums up to the k-th.
Often(e, n, k) == IF e >= n + 1 - k THEN e - (n - k) ELSE 0

\* The running sums weigh every point with its digit.
LEMMA BucketsWeigh ==
  ASSUME NEW n \in Nat, NEW K, NEW p, NEW d, NEW b, Sorted(K, p, d, n, b),
         NEW r, AddsUp(r, n, b), NEW v, AddsUp(v, n, [k \in 1 .. n |-> r[k]])
  PROVE  /\ v[n] \in Int
         /\ Same(v[n], SumFunction([i \in K |-> p[i] * d[i]]))
<1>1. IsFiniteSet(K) /\ p \in [K -> Int] /\ d \in [K -> 0 .. n]
  BY DEF Sorted
<1>2. r \in [0 .. n -> Int]
  BY DEF AddsUp
<1>3. /\ v \in [0 .. n -> Int] /\ v[0] = 0
      /\ \A k \in 1 .. n : Same(v[k], v[k - 1] + r[k])
  BY DEF AddsUp
<1> DEFINE W(k) == [i \in K |-> p[i] * Often(d[i], n, k)]
           T == {k \in Nat : Same(v[k], SumFunction(W(k)))}
<1>4. ASSUME NEW k \in 0 .. n PROVE W(k) \in [K -> Int] /\ \A i \in K : Often(d[i], n, k) \in Int
  <2> SUFFICES ASSUME NEW i \in K PROVE Often(d[i], n, k) \in Int /\ p[i] * Often(d[i], n, k) \in Int
    OBVIOUS
  <2>1. Often(d[i], n, k) \in Int
    BY <1>1 DEF Often
  <2> QED BY <1>1, <2>1
<1>5. 0 \in T
  <2>1. \A i \in K : p[i] * Often(d[i], n, 0) = 0
    BY <1>1 DEF Often
  <2>2. W(0) = [i \in K |-> 0]
    BY <2>1
  <2>4. SumFunction(W(0)) = 0
    BY <1>1, <2>2, SumZero
  <2>5. Same(0, 0)
    BY SameIsEquivalence
  <2> QED BY <1>3, <2>4, <2>5
<1>6. ASSUME NEW k \in 0 .. n - 1, k \in T PROVE k + 1 \in T
  <2> DEFINE f == W(k + 1)
             g == W(k)
             h == Met(K, p, d, n, k + 1)
  <2>1. k + 1 \in 1 .. n /\ k + 1 \in 0 .. n /\ k \in 0 .. n /\ (k + 1) - 1 = k
    OBVIOUS
  <2>2. f \in [K -> Int] /\ g \in [K -> Int]
    BY <1>4, <2>1
  <2>3. h \in [K -> Int] /\ Same(r[k + 1], SumFunction(h))
    BY <2>1, RunningSums
  <2>4. ASSUME NEW i \in K PROVE f[i] = g[i] + h[i]
    <3>1. PICK e \in 0 .. n : e = d[i]
      BY <1>1
    <3>2. PICK x \in Int : x = p[i]
      BY <1>1
    <3>3. /\ f[i] = x * Often(e, n, k + 1) /\ g[i] = x * Often(e, n, k)
          /\ h[i] = IF e >= n + 1 - (k + 1) THEN x ELSE 0
      BY <3>1, <3>2 DEF Met
    <3>4. PICK z \in Int : z = Often(e, n, k)
      <4>1. Often(e, n, k) \in Int
        BY DEF Often
      <4> QED BY <4>1
    <3>5. CASE e >= n + 1 - (k + 1)
      <4>1. Often(e, n, k + 1) = z + 1
        BY <3>4, <3>5 DEF Often
      <4>2. x * (z + 1) = x * z + x
        OBVIOUS
      <4> QED BY <3>3, <3>4, <3>5, <4>1, <4>2
    <3>6. CASE ~(e >= n + 1 - (k + 1))
      <4>1. Often(e, n, k + 1) = 0 /\ z = 0
        BY <3>4, <3>6 DEF Often
      <4>2. x * 0 = x * 0 + 0
        OBVIOUS
      <4> QED BY <3>3, <3>4, <3>6, <4>1, <4>2
    <3> QED BY <3>5, <3>6
  <2>8. Same(v[k], SumFunction(g))
    BY <1>6
  <2>9. v[k] \in Int /\ v[k + 1] \in Int /\ r[k + 1] \in Int /\ Same(v[k + 1], v[k] + r[k + 1])
    <3> HIDE DEF T, f, g, h
    <3> QED BY <1>2, <1>3, <2>1
  <2> HIDE DEF f, g, h, T, W
  <2>11. /\ SumFunction(f) \in Int /\ SumFunction(g) \in Int /\ SumFunction(h) \in Int
         /\ Same(SumFunction(f), SumFunction(g) + SumFunction(h))
    BY <1>1, <2>2, <2>3, <2>4, SumsAdd
  <2>12. PICK F \in Int, Y \in Int, H \in Int :
           F = SumFunction(f) /\ Y = SumFunction(g) /\ H = SumFunction(h)
    BY <2>11
  <2>13. PICK x \in Int, y \in Int, z \in Int : x = v[k] /\ y = r[k + 1] /\ z = v[k + 1]
    BY <2>9
  <2>14. Same(F, Y + H) /\ Same(x, Y) /\ Same(y, H) /\ Same(z, x + y)
    BY <2>3, <2>8, <2>9, <2>12, <2>11, <2>13
  <2>15. Same(z, F)
    BY ONLY <2>12, <2>13, <2>14, SameStep
  <2> QED BY <2>12, <2>13, <2>15 DEF T, f
<1>7. \A k \in 0 .. n : k \in T
  <2> HIDE DEF T
  <2> QED BY <1>5, <1>6, AllUpTo
<1>8. n \in T /\ v[n] \in Int
  BY <1>3, <1>7
<1>9. W(n) = [i \in K |-> p[i] * d[i]]
  <2>1. ASSUME NEW i \in K PROVE p[i] * Often(d[i], n, n) = p[i] * d[i]
    <3>1. PICK e \in 0 .. n : e = d[i]
      BY <1>1
    <3>2. Often(e, n, n) = e
      BY DEF Often
    <3> QED BY <3>1, <3>2
  <2> QED BY <2>1
<1> QED BY <1>8, <1>9


----------------------------------------------------------------------------
(* The windows of msm_vartime_public.                                      *)

MsmTypeInv == points \in Seq(Scalars) /\ scalars \in Seq(Scalars)

LEMMA InitMsmTyped == MsmInit => MsmTypeInv
BY DEF MsmInit, MsmTypeInv

LEMMA NextMsmTyped == MsmTypeInv /\ [MsmNext]_msmVars => MsmTypeInv'
<1> SUFFICES ASSUME MsmTypeInv, [MsmNext]_msmVars PROVE MsmTypeInv'
  OBVIOUS
<1>0. points \in Seq(Scalars) /\ scalars \in Seq(Scalars) /\ MsmPoints \cup MsmScalars \subseteq Scalars
  BY MsmAssumption DEF MsmTypeInv
<1>1. ASSUME NEW p \in MsmPoints, NEW s \in MsmScalars, AddTerm(p, s) PROVE MsmTypeInv'
  BY <1>0, <1>1 DEF AddTerm, MsmTypeInv
<1>2. ASSUME NEW p \in MsmPoints, AddPoint(p) PROVE MsmTypeInv'
  BY <1>0, <1>2 DEF AddPoint, MsmTypeInv
<1>3. ASSUME NEW s \in MsmScalars, AddScalar(s) PROVE MsmTypeInv'
  BY <1>0, <1>3 DEF AddScalar, MsmTypeInv
<1>4. CASE UNCHANGED msmVars
  BY <1>0, <1>4 DEF msmVars, MsmTypeInv
<1> QED BY <1>1, <1>2, <1>3, <1>4 DEF MsmNext

LEMMA TermFacts ==
  ASSUME MsmTypeInv
  PROVE  /\ Terms \in Nat /\ IsFiniteSet(Kept) /\ Kept \subseteq 1 .. Terms
         /\ IsFiniteSet(1 .. Terms)
         /\ \A i \in 1 .. Terms : points[i] \in Scalars /\ scalars[i] \in Scalars
<1>1. PICK a \in Nat, b \in Nat : a = Len(points) /\ b = Len(scalars)
  BY DEF MsmTypeInv
<1>2. Terms = IF a <= b THEN a ELSE b
  BY <1>1 DEF Terms, Min
<1>3. Terms \in Nat /\ Terms <= a /\ Terms <= b
  BY <1>2
<1>4. ASSUME NEW i \in 1 .. Terms PROVE points[i] \in Scalars /\ scalars[i] \in Scalars
  <2>1. i \in 1 .. a /\ i \in 1 .. b
    BY <1>3
  <2> QED BY <1>1, <2>1 DEF MsmTypeInv
<1>5. IsFiniteSet(1 .. Terms)
  BY <1>3, FS_Interval
<1>6. Kept \subseteq 1 .. Terms
  BY DEF Kept
<1> QED BY <1>3, <1>4, <1>5, <1>6, FS_Subset

LEMMA WindowFacts ==
  ASSUME MsmTypeInv, ~(Terms < Widths[1][1])
  PROVE  /\ WindowBits \in Nat \ {0} /\ WindowCount \in Nat
         /\ ScalarBits <= WindowCount * WindowBits
         /\ BucketCount \in Nat /\ TwoTo(WindowBits) \in Nat \ {0}
<1> DEFINE S == {w \in DOMAIN Widths : Widths[w][1] <= Terms}
<1>1. /\ ScalarBits \in Nat /\ Widths \in Seq(Nat \X (Nat \ {0})) /\ Widths # <<>>
  BY MsmAssumption
<1>2. PICK m \in Nat \ {0} : m = Len(Widths) /\ DOMAIN Widths = 1 .. m
  BY <1>1
<1>3. \A w \in 1 .. m : Widths[w][1] \in Nat /\ Widths[w][2] \in Nat \ {0}
  BY <1>1, <1>2
<1>4. Terms \in Nat
  BY TermFacts
<1>5. S \subseteq 0 .. m /\ 1 \in S
  BY <1>2, <1>3, <1>4
<1>6. Max(S) \in S
  <2> HIDE DEF S
  <2> QED BY <1>5, MaxIsGreatest
<1>7. PICK W \in Nat \ {0} : W = WindowBits
  <2>1. Max(S) \in 1 .. m
    BY <1>2, <1>6
  <2>2. WindowBits = Widths[Max(S)][2]
    BY DEF WindowBits
  <2> HIDE DEF S
  <2> QED BY <1>3, <2>1, <2>2
<1>8. PICK N \in Nat : N = WindowCount /\ ScalarBits <= N * W
  <2>1. PICK x \in Nat : x = ScalarBits + W - 1
    BY <1>1
  <2>2. PICK q \in Nat, e \in 0 .. W - 1 : q = x \div W /\ e = x % W /\ x = W * q + e
    OBVIOUS
  <2>3. W * q = q * W
    OBVIOUS
  <2>4. WindowCount = q
    BY <1>7, <2>1, <2>2 DEF WindowCount
  <2>5. ScalarBits <= q * W
    BY <1>1, <2>1, <2>2, <2>3
  <2> QED BY <2>4, <2>5
<1>9. TwoTo(W) \in Nat \ {0}
  BY TwoToDoubles
<1>10. BucketCount \in Nat
  BY <1>7, <1>9 DEF BucketCount
<1> QED BY <1>7, <1>8, <1>9, <1>10

\* What the buckets of a window come to: every kept point times its digit.
LEMMA BucketSumIs ==
  ASSUME MsmTypeInv, ~(Terms < Widths[1][1]), NEW w \in Nat
  PROVE  /\ BucketSum(w) \in Int
         /\ [i \in Kept |-> points[i] * Digit(scalars[i], w)] \in [Kept -> Int]
         /\ Same(BucketSum(w), SumFunction([i \in Kept |-> points[i] * Digit(scalars[i], w)]))
<1> DEFINE n == BucketCount
           p == [i \in Kept |-> points[i]]
           d == [i \in Kept |-> Digit(scalars[i], w)]
           b == [k \in 1 .. n |-> Bucket(w, n + 1 - k)]
           Running(h) == h = [k \in 0 .. n |->
                               IF k = 0 THEN 0 ELSE Plus(h[k - 1], Bucket(w, n + 1 - k))]
           r == CHOOSE h : Running(h)
           Weighing(h) == h = [k \in 0 .. n |-> IF k = 0 THEN 0 ELSE Plus(h[k - 1], r[k])]
           v == CHOOSE h : Weighing(h)
           c == [k \in 1 .. n |-> r[k]]
<1>1. BucketSum(w) = v[n]
  BY DEF BucketSum
<1>2. PICK R \in Nat \ {0} : R = TwoTo(WindowBits) /\ n = R - 1 /\ n \in Nat
  BY WindowFacts DEF BucketCount
<1>3. Scalars \subseteq Int /\ Scalars \subseteq Nat
  BY AlgebraAssumption DEF Scalars
<1>4. ASSUME NEW i \in Kept
      PROVE  points[i] \in Int /\ Digit(scalars[i], w) \in 0 .. n
  <2>1. points[i] \in Scalars /\ scalars[i] \in Scalars
    BY TermFacts
  <2>2. WindowBits \in Nat \ {0}
    BY WindowFacts
  <2>3. PICK q \in Nat \ {0} : q = TwoTo(w * WindowBits)
    <3>1. w * WindowBits \in Nat
      BY <2>2
    <3> QED BY <3>1, TwoToDoubles
  <2>4. PICK x \in Nat : x = scalars[i] \div q
    <3>1. PICK y \in Nat : y = scalars[i]
      BY <1>3, <2>1
    <3>2. y \div q \in Nat
      OBVIOUS
    <3> QED BY <3>1, <3>2
  <2>5. x % R \in 0 .. R - 1
    OBVIOUS
  <2> QED BY <1>2, <1>3, <2>1, <2>3, <2>4, <2>5 DEF Digit
<1>5. p \in [Kept -> Int] /\ d \in [Kept -> 0 .. n] /\ IsFiniteSet(Kept)
  BY <1>4, TermFacts
<1>6. ASSUME NEW x \in Int
      PROVE  /\ Bucket(w, x) \in Int
             /\ Same(Bucket(w, x), SumFunction(Over(p, {i \in Kept : d[i] = x})))
  <2> DEFINE u == {i \in Kept : Digit(scalars[i], w) = x}
  <2>1. u = {i \in Kept : d[i] = x} /\ u \in SUBSET Kept
    OBVIOUS
  <2>2. [i \in u |-> points[i]] = Over(p, u)
    BY DEF Over
  <2>3. Bucket(w, x) = SumFunction([i \in u |-> points[i]]) % Order
    BY DEF Bucket, SumOver
  <2> HIDE DEF u, p
  <2>4. IsFiniteSet(u) /\ Over(p, u) \in [u -> Int]
    BY <1>5, <2>1, FS_Subset DEF Over
  <2>5. /\ SumFunction(Over(p, u)) % Order \in Int
        /\ Same(SumFunction(Over(p, u)) % Order, SumFunction(Over(p, u)))
    BY <2>4, SumReduces
  <2> QED BY <2>1, <2>2, <2>3, <2>5
<1>7. b \in [1 .. n -> Int]
  <2>1. ASSUME NEW k \in 1 .. n PROVE Bucket(w, n + 1 - k) \in Int
    <3>1. PICK x \in Int : x = n + 1 - k
      BY <1>2
    <3> QED BY <1>6, <3>1
  <2> QED BY <2>1
<1> HIDE DEF n, p, d
<1>8. Sorted(Kept, p, d, n, b)
  <2>1. ASSUME NEW k \in 1 .. n
        PROVE  Same(b[k], SumFunction(Over(p, {i \in Kept : d[i] = n + 1 - k})))
    <3>1. n + 1 - k \in Int
      BY <1>2
    <3>2. b[k] = Bucket(w, n + 1 - k)
      OBVIOUS
    <3> HIDE DEF b
    <3> QED BY <1>6, <3>1, <3>2
  <2> HIDE DEF b
  <2> QED BY <1>5, <1>7, <2>1 DEF Sorted
<1>9. \A h : Running(h) <=> Accumulates(h, n, b)
  <2>1. \A k \in 0 .. n : k # 0 => b[k] = Bucket(w, n + 1 - k)
    BY <1>2
  <2> HIDE DEF b
  <2> QED BY <2>1, Zenon DEF Accumulates
<1>10. AddsUp(r, n, b)
  <2> HIDE DEF b, Running
  <2>1. PICK h : Accumulates(h, n, b)
    BY <1>2, <1>7, Accumulation
  <2>2. Running(r)
    BY <1>9, <2>1
  <2> HIDE DEF r
  <2>3. Accumulates(r, n, b)
    BY <1>9, <2>2
  <2> QED BY <1>2, <1>7, <2>3, Accumulation
<1> HIDE DEF r
<1>11. c \in [1 .. n -> Int]
  BY <1>2, <1>10 DEF AddsUp
<1>12. \A h : Weighing(h) <=> Accumulates(h, n, c)
  <2>1. \A k \in 0 .. n : k # 0 => c[k] = r[k]
    BY <1>2
  <2> HIDE DEF c
  <2> QED BY <2>1, Zenon DEF Accumulates
<1>13. AddsUp(v, n, c)
  <2> HIDE DEF c, Weighing
  <2>1. PICK h : Accumulates(h, n, c)
    BY <1>2, <1>11, Accumulation
  <2>2. Weighing(v)
    BY <1>12, <2>1
  <2> HIDE DEF v
  <2>3. Accumulates(v, n, c)
    BY <1>12, <2>2
  <2> QED BY <1>2, <1>11, <2>3, Accumulation
<1> HIDE DEF b, v
<1>14. v[n] \in Int /\ Same(v[n], SumFunction([i \in Kept |-> p[i] * d[i]]))
  BY <1>2, <1>8, <1>10, <1>13, BucketsWeigh
<1>15. /\ [i \in Kept |-> p[i] * d[i]] = [i \in Kept |-> points[i] * Digit(scalars[i], w)]
       /\ [i \in Kept |-> p[i] * d[i]] \in [Kept -> Int]
  <2>1. \A i \in Kept : p[i] = points[i] /\ d[i] = Digit(scalars[i], w)
    BY DEF p, d
  <2>2. \A i \in Kept : p[i] * d[i] \in Int
    BY <1>2, <1>5
  <2> QED BY <2>1, <2>2
<1> QED BY <1>1, <1>14, <1>15

\* The windows from the top: after the last of them a point is weighed with
\* all that its scalar has above nothing.
LEMMA BucketsAre ==
  ASSUME MsmTypeInv, ~(Terms < Widths[1][1])
  PROVE  /\ Buckets \in Scalars
         /\ [i \in Kept |-> points[i] * scalars[i]] \in [Kept -> Int]
         /\ Same(Buckets, SumFunction([i \in Kept |-> points[i] * scalars[i]]))
<1> DEFINE Eq(h) == h = [w \in 0 .. WindowCount |->
                          IF w = 0 THEN 0
                          ELSE Plus(Times(h[w - 1], TwoTo(WindowBits)), BucketSum(WindowCount - w))]
<1>1. PICK N \in Nat, W \in Nat \ {0}, R \in Nat \ {0} :
        /\ N = WindowCount /\ W = WindowBits /\ R = TwoTo(W)
        /\ ScalarBits <= N * W
  BY WindowFacts
<1>2. Scalars \subseteq Int /\ Scalars \subseteq Nat /\ 0 \in Scalars
  BY AlgebraAssumption DEF Scalars
<1>3. \A k \in 1 .. N : N - k \in Nat /\ BucketSum(N - k) \in Int
  <2> SUFFICES ASSUME NEW k \in 1 .. N PROVE N - k \in Nat /\ BucketSum(N - k) \in Int
    OBVIOUS
  <2>1. PICK x \in Nat : x = N - k
    OBVIOUS
  <2> QED BY <2>1, BucketSumIs
<1>4. \A x \in Int, y \in Int : Plus(Times(x, R), y) \in Scalars /\ Same(Plus(Times(x, R), y), R * x + y)
  <2> SUFFICES ASSUME NEW x \in Int, NEW y \in Int
               PROVE  Plus(Times(x, R), y) \in Scalars /\ Same(Plus(Times(x, R), y), R * x + y)
    OBVIOUS
  <2>1. PICK t \in Int : t = Times(x, R) /\ Same(t, x * R)
    <3>1. Times(x, R) \in Scalars /\ Same(Times(x, R), x * R)
      BY SameOperations, R \in Int
    <3> QED BY <1>2, <3>1
  <2>2. Same(y, y)
    BY SameIsEquivalence
  <2>3. PICK m \in Int : m = x * R /\ m = R * x
    <3>1. x * R = R * x
      OBVIOUS
    <3> QED BY <3>1
  <2>4. Plus(t, y) \in Scalars
    BY SameOperations
  <2>5. PICK z \in Int : z = Plus(t, y)
    BY <1>2, <2>4
  <2>6. Same(z, t + y) /\ Same(t + y, m + y)
    BY <2>1, <2>2, <2>3, <2>5, SameOperations, SameArithmetic
  <2>7. PICK e \in Int, f \in Int : e = t + y /\ f = m + y
    OBVIOUS
  <2>8. Same(z, f)
    BY <2>6, <2>7, SameIsEquivalence
  <2> QED BY <2>1, <2>3, <2>4, <2>5, <2>7, <2>8
<1> DEFINE step == [k \in 1 .. N |-> [x \in Int |-> Plus(Times(x, R), BucketSum(N - k))]]
<1>5. \E h : Eq(h)
  <2>1. \A k \in 1 .. N : \A x \in Int : Plus(Times(x, R), BucketSum(N - k)) \in Int
    BY <1>2, <1>3, <1>4
  <2>2. Steps(N, step)
    BY <2>1 DEF Steps
  <2> HIDE DEF step
  <2>3. PICK h : Solves(h, N, 0, step)
    BY <2>2, Recursion
  <2> USE DEF Solves
  <2>4. \A k \in 1 .. N : h[k - 1] \in Int
    BY <2>3
  <2>5. \A k \in 1 .. N : step[k][h[k - 1]] = Plus(Times(h[k - 1], R), BucketSum(N - k))
    BY <2>4 DEF step
  <2>6. Eq(h)
    BY <1>1, <2>3, <2>5
  <2> QED BY <2>6
<1>6. PICK a : Eq(a) /\ Buckets = a[N]
  <2>1. Buckets = (CHOOSE h : Eq(h))[N]
    BY <1>1 DEF Buckets
  <2>2. Eq(CHOOSE h : Eq(h))
    <3> HIDE DEF Eq
    <3> QED BY <1>5
  <2> HIDE DEF Eq
  <2> QED BY <2>1, <2>2
<1>7. /\ a[0] = 0 /\ a = [k \in 0 .. N |-> a[k]]
      /\ \A k \in 1 .. N : a[k] = Plus(Times(a[k - 1], R), BucketSum(N - k))
  BY <1>1, <1>6
<1> HIDE DEF Eq
<1>8. a \in [0 .. N -> Int]
  <2>1. \A k \in 1 .. N : a[k - 1] \in Int => a[k] \in Int
    BY <1>2, <1>3, <1>4, <1>7
  <2>2. a[0] \in Int
    BY <1>7
  <2> QED BY ONLY <1>7, <2>1, <2>2, N \in Nat, IntegersThroughout
<1> DEFINE Above(j, i) == scalars[i] \div TwoTo((N - j) * W)
           S(j) == [i \in Kept |-> points[i] * Above(j, i)]
           T == {j \in Nat : Same(a[j], SumFunction(S(j)))}
<1>9. \A i \in Kept : points[i] \in Int /\ scalars[i] \in Nat /\ scalars[i] < Order
  <2> SUFFICES ASSUME NEW i \in Kept
               PROVE  points[i] \in Int /\ scalars[i] \in Nat /\ scalars[i] < Order
    OBVIOUS
  <2>1. points[i] \in Scalars /\ scalars[i] \in Scalars
    BY TermFacts
  <2>2. \A s \in Scalars : s < Order
    BY AlgebraAssumption DEF Scalars
  <2> QED BY <1>2, <2>1, <2>2
<1>10. ASSUME NEW j \in 0 .. N PROVE TwoTo((N - j) * W) \in Nat \ {0} /\ \A i \in Kept : Above(j, i) \in Nat
  <2>1. (N - j) * W \in Nat
    OBVIOUS
  <2>2. PICK q \in Nat \ {0} : q = TwoTo((N - j) * W)
    BY <2>1, TwoToDoubles
  <2>3. \A s \in Nat : s \div q \in Nat
    OBVIOUS
  <2> QED BY <1>9, <2>2, <2>3
<1> HIDE DEF Above
<1>11. \A j \in 0 .. N : S(j) \in [Kept -> Int]
  BY <1>9, <1>10
<1>12. IsFiniteSet(Kept)
  BY TermFacts
<1>13. 0 \in T
  <2>1. ASSUME NEW i \in Kept PROVE Above(0, i) = 0
    <3>1. PICK s \in Nat : s = scalars[i] /\ s < Order
      BY <1>9
    <3>2. PICK e \in Nat, f \in Nat : e = ScalarBits /\ f = N * W /\ e <= f
      BY <1>1, MsmAssumption
    <3>3. TwoTo(f) >= TwoTo(e)
      <4>1. PICK x \in Nat : x = f - e /\ e + x = f
        BY <3>2
      <4>2. TwoTo(e) <= TwoTo(e + x)
        BY TwoToAdds
      <4> QED BY <4>1, <4>2, TwoToDoubles
    <3>4. PICK q \in Nat \ {0} : q = TwoTo(f)
      BY TwoToDoubles
    <3>5. Order <= TwoTo(e) /\ TwoTo(e) \in Nat /\ Order \in Nat
      BY <3>2, MsmAssumption, TwoToDoubles, AlgebraAssumption
    <3>6. s \in 0 .. q - 1
      BY <3>1, <3>3, <3>4, <3>5
    <3>7. (q * 0 + s) \div q = 0 /\ q * 0 + s = s
      BY <3>6, DivisionUnique
    <3>8. (N - 0) * W = f
      BY <3>2
    <3> QED BY <3>1, <3>4, <3>7, <3>8 DEF Above
  <2>2. \A i \in Kept : points[i] * Above(0, i) = 0
    BY <1>9, <2>1
  <2>3. S(0) = [i \in Kept |-> 0]
    BY <2>2
  <2>4. SumFunction(S(0)) = 0
    BY <1>12, <2>3, SumZero
  <2>5. Same(0, 0)
    BY SameIsEquivalence
  <2> QED BY <1>7, <2>4, <2>5
<1>14. ASSUME NEW j \in 0 .. N - 1, j \in T PROVE j + 1 \in T
  <2>1. PICK k \in 1 .. N : k = j + 1 /\ k - 1 = j /\ N - k \in Nat
    OBVIOUS
  <2>2. a[k] = Plus(Times(a[j], R), BucketSum(N - k)) /\ a[j] \in Int /\ a[k] \in Int
    <3> HIDE DEF T
    <3>1. a[k] = Plus(Times(a[k - 1], R), BucketSum(N - k))
      BY <1>7
    <3>2. k \in 0 .. N /\ j \in 0 .. N
      BY <2>1
    <3> QED BY <1>8, <2>1, <3>1, <3>2
  <2>3. Same(a[j], SumFunction(S(j)))
    BY <1>14
  <2> DEFINE f == S(k)
             g == [i \in Kept |-> points[i] * Digit(scalars[i], N - k)]
             h == S(j)
  <2>4. ASSUME NEW i \in Kept PROVE f[i] = g[i] + R * h[i]
    <3>1. PICK s \in Nat, x \in Int : s = scalars[i] /\ x = points[i]
      BY <1>9
    <3>2. PICK m \in Nat : m = (N - k) * W
      OBVIOUS
    <3>3. PICK q \in Nat \ {0} : q = TwoTo(m)
      BY TwoToDoubles
    <3>4. TwoTo(m + W) = q * R /\ m + W = (N - j) * W
      <4>1. (N - k) * W + W = (N - (k - 1)) * W
        OBVIOUS
      <4>2. TwoTo(m + W) = TwoTo(m) * TwoTo(W)
        BY TwoToAdds
      <4> QED BY <1>1, <2>1, <3>2, <3>3, <4>1, <4>2
    <3>5. /\ s \div q \in Nat /\ s \div (q * R) \in Nat /\ (s \div q) % R \in 0 .. R - 1
          /\ s \div q = R * (s \div (q * R)) + ((s \div q) % R)
      BY QuotientTwice
    <3>6. PICK c \in Nat, d \in Nat, e \in Nat :
            c = s \div q /\ d = s \div (q * R) /\ e = (s \div q) % R
      BY <3>5
    <3>7. Above(k, i) = c /\ Above(j, i) = d /\ Digit(scalars[i], N - k) = e
      BY <1>1, <3>1, <3>2, <3>3, <3>4, <3>6 DEF Above, Digit
    <3>8. x * (R * d + e) = x * e + R * (x * d)
      OBVIOUS
    <3>9. c = R * d + e
      BY <3>5, <3>6
    <3>10. f[i] = x * c /\ g[i] = x * e /\ h[i] = x * d
      BY <3>1, <3>7
    <3> QED BY <3>8, <3>9, <3>10
  <2>5. f \in [Kept -> Int] /\ h \in [Kept -> Int]
    BY <1>11
  <2>6. BucketSum(N - k) \in Int /\ g \in [Kept -> Int] /\ Same(BucketSum(N - k), SumFunction(g))
    BY <2>1, BucketSumIs
  <2> HIDE DEF f, g, h, T, S
  <2>7. \A i \in Kept : Same(f[i], g[i] + R * h[i])
    <3> SUFFICES ASSUME NEW i \in Kept PROVE Same(f[i], g[i] + R * h[i])
      OBVIOUS
    <3>1. f[i] \in Int
      BY <2>5
    <3> QED BY <2>4, <3>1, SameIsEquivalence
  <2>8. /\ SumFunction(f) \in Int /\ SumFunction(g) \in Int /\ SumFunction(h) \in Int
        /\ Same(SumFunction(f), SumFunction(g) + R * SumFunction(h))
    BY <1>12, <2>5, <2>6, <2>7, SumsCombine, R \in Int
  <2>9. PICK F \in Int, Y \in Int, H \in Int :
          F = SumFunction(f) /\ Y = SumFunction(g) /\ H = SumFunction(h)
    BY <2>8
  <2>10. PICK x \in Int, y \in Int, z \in Int : x = a[j] /\ y = BucketSum(N - k) /\ z = a[k]
    BY <2>2, <2>6
  <2>11. Same(z, R * x + y) /\ Same(x, H) /\ Same(y, Y) /\ Same(F, Y + R * H)
    BY <1>4, <2>2, <2>3, <2>6, <2>8, <2>9, <2>10 DEF h
  <2>12. PICK p \in Int, q \in Int : p = R * x /\ q = R * H
    OBVIOUS
  <2>13. Same(p, q)
    <3>1. Same(R, R)
      BY SameIsEquivalence, R \in Int
    <3> QED BY <2>11, <2>12, <3>1, SameArithmetic, R \in Int
  <2>14. Same(z, p + y) /\ Same(F, q + Y)
    <3>1. Y + q = q + Y
      OBVIOUS
    <3> QED BY <2>11, <2>12, <3>1
  <2>15. Same(z, F)
    BY ONLY <2>9, <2>10, <2>11, <2>12, <2>13, <2>14, SameStep
  <2> QED BY <2>1, <2>9, <2>10, <2>15 DEF T, f
<1>15. N \in T
  <2>1. \A j \in 0 .. N : j \in T
    <3> HIDE DEF T
    <3> QED BY <1>13, <1>14, AllUpTo
  <2> HIDE DEF T
  <2> QED BY <2>1
<1>16. S(N) = [i \in Kept |-> points[i] * scalars[i]] /\ S(N) \in [Kept -> Int]
  <2>1. ASSUME NEW i \in Kept PROVE Above(N, i) = scalars[i]
    <3>1. (N - N) * W = 0 /\ TwoTo(0) = 1
      BY TwoToDoubles
    <3>2. PICK s \in Nat : s = scalars[i]
      BY <1>9
    <3>3. s \div 1 = s
      OBVIOUS
    <3> QED BY <3>1, <3>2, <3>3 DEF Above
  <2>2. S(N) = [i \in Kept |-> points[i] * scalars[i]]
    BY <2>1
  <2> QED BY <1>11, <2>2
<1>17. Buckets \in Scalars
  <2>1. CASE N = 0
    BY <1>2, <1>6, <1>7, <2>1
  <2>2. CASE N # 0
    <3>1. N \in 1 .. N /\ a[N - 1] \in Int /\ BucketSum(N - N) \in Int
      BY <1>3, <1>8, <2>2
    <3>2. a[N] = Plus(Times(a[N - 1], R), BucketSum(N - N))
      BY <1>7, <3>1
    <3> QED BY <1>4, <1>6, <3>1, <3>2
  <2> QED BY <2>1, <2>2
<1>18. Same(Buckets, SumFunction(S(N)))
  BY <1>6, <1>15
<1> HIDE DEF S
<1> QED BY <1>16, <1>17, <1>18

\* The buckets come to the sum of all terms.
LEMMA InvMsmIsExact ==
  ASSUME MsmTypeInv
  PROVE  MsmIsExact
<1> SUFFICES ASSUME ~(Terms < Widths[1][1]) PROVE Buckets = Direct
  BY DEF MsmIsExact, MsmVartimePublic
<1> DEFINE D == 1 .. Terms
           f == [i \in D |-> Times(points[i], scalars[i])]
           g == [i \in D |-> points[i] * scalars[i]]
           t == [i \in Kept |-> points[i] * scalars[i]]
<1>1. IsFiniteSet(D) /\ Kept \in SUBSET D /\ \A i \in D : points[i] \in Int /\ scalars[i] \in Int
  BY TermFacts, AlgebraAssumption DEF Scalars
<1>2. Direct = SumFunction(f) % Order
  BY DEF Direct, SumOver
<1>3. \A i \in D : f[i] \in Int /\ g[i] \in Int /\ Same(f[i], g[i])
  <2> SUFFICES ASSUME NEW i \in D PROVE f[i] \in Int /\ g[i] \in Int /\ Same(f[i], g[i])
    OBVIOUS
  <2>1. PICK x \in Int, y \in Int : x = points[i] /\ y = scalars[i]
    BY <1>1
  <2>2. Times(x, y) \in Scalars /\ Same(Times(x, y), x * y)
    BY SameOperations
  <2>3. Scalars \subseteq Int
    BY AlgebraAssumption DEF Scalars
  <2>4. f[i] = Times(x, y) /\ g[i] = x * y /\ x * y \in Int
    BY <2>1
  <2> HIDE DEF f, g
  <2> QED BY <2>2, <2>3, <2>4
<1>4. f \in [D -> Int] /\ g \in [D -> Int]
  BY <1>3
<1>5. t = Over(g, Kept) /\ [i \in D |-> IF i \in Kept THEN g[i] ELSE 0] = g
  <2>1. ASSUME NEW i \in D, i \notin Kept PROVE g[i] = 0
    <3>1. PICK x \in Int, y \in Int : x = points[i] /\ y = scalars[i]
      BY <1>1
    <3>2. x = 0 \/ y = 0
      BY <2>1, <3>1 DEF Kept
    <3>3. x * y = 0
      BY <3>2
    <3> QED BY <3>1, <3>3
  <2>2. t = Over(g, Kept)
    BY <1>1 DEF Over
  <2> HIDE DEF D
  <2> QED BY <1>4, <2>1, <2>2
<1>6. SumFunction(t) = SumFunction(g)
  <2> HIDE DEF D, g, t
  <2>1. SumFunction(Over(g, Kept)) = SumFunction([i \in D |-> IF i \in Kept THEN g[i] ELSE 0])
    BY <1>1, <1>4, SumFiltered
  <2> QED BY <1>5, <2>1
<1>7. Buckets \in Scalars /\ Same(Buckets, SumFunction(t))
  BY BucketsAre
<1> HIDE DEF D, f, g, t
<1>8. PICK o \in Int : o = 1
  OBVIOUS
<1>9. \A i \in D : Same(f[i], o * g[i])
  BY <1>3, <1>8
<1>10. SumFunction(f) \in Int /\ SumFunction(g) \in Int /\ Same(SumFunction(f), o * SumFunction(g))
  BY <1>1, <1>4, <1>8, <1>9, SumScales
<1>11. PICK F \in Int, Y \in Int, B \in Int : F = SumFunction(f) /\ Y = SumFunction(g) /\ B = Buckets
  BY <1>7, <1>10, AlgebraAssumption DEF Scalars
<1>12. Same(F, Y) /\ Same(B, Y)
  <2>1. o * Y = Y
    BY <1>8
  <2> QED BY <1>6, <1>7, <1>10, <1>11, <2>1
<1>13. Same(B, F)
  BY <1>12, SameIsEquivalence
<1>14. B % Order = F % Order
  BY <1>13, SameReduces
<1>15. B % Order = B
  BY <1>7, <1>11, SameReduces
<1> QED BY <1>2, <1>11, <1>14, <1>15

\* msm_vartime_public yields the sum of all terms, for whatever points and
\* scalars, group order, scalar width and windows (msm.rs:32-81).
THEOREM BucketsAreTheSum == MsmSpec => []MsmIsExact
<1>1. MsmSpec => []MsmTypeInv
  BY InitMsmTyped, NextMsmTyped, PTL DEF MsmSpec
<1>2. MsmTypeInv => MsmIsExact
  BY InvMsmIsExact
<1> QED BY <1>1, <1>2, PTL

----------------------------------------------------------------------------
(* Vectors: their inner products are bilinear forms.                       *)

\* What a sum of reduced terms comes to, zeros added to it.
LEMMA SumExtended ==
  ASSUME NEW k \in Nat, NEW m \in Nat, k <= m, NEW f \in [1 .. k -> Int], NEW g \in [1 .. m -> Int],
         \A i \in 1 .. k : Same(f[i], g[i]), \A i \in 1 .. m : i \notin 1 .. k => g[i] = 0
  PROVE  /\ SumFunction(f) % Order \in Scalars /\ SumFunction(g) \in Int
         /\ Same(SumFunction(f) % Order, SumFunction(g))
<1> DEFINE D == 1 .. k
           E == 1 .. m
           h == Over(g, D)
<1>1. IsFiniteSet(D) /\ IsFiniteSet(E) /\ D \in SUBSET E
  BY FS_Interval
<1>2. h \in [D -> Int] /\ \A i \in D : h[i] = g[i]
  BY DEF Over
<1>3. [i \in E |-> IF i \in D THEN g[i] ELSE 0] = g
  OBVIOUS
<1>4. PICK o \in Int : o = 1
  OBVIOUS
<1>5. f \in [D -> Int] /\ g \in [E -> Int] /\ \A i \in D : Same(f[i], o * h[i])
  BY <1>2, <1>4
<1> HIDE DEF D, E, h
<1>6. SumFunction(h) = SumFunction(g)
  <2>1. SumFunction(Over(g, D)) = SumFunction([i \in E |-> IF i \in D THEN g[i] ELSE 0])
    BY <1>1, <1>5, SumFiltered
  <2> QED BY <1>3, <2>1 DEF h
<1>7. SumFunction(f) \in Int /\ SumFunction(h) \in Int /\ Same(SumFunction(f), o * SumFunction(h))
  BY <1>1, <1>2, <1>4, <1>5, SumScales
<1>8. PICK x \in Int, y \in Int : x = SumFunction(f) /\ y = SumFunction(g)
  BY <1>6, <1>7
<1>9. Same(x, y)
  <2>1. o * y = y
    BY <1>4
  <2> QED BY <1>6, <1>7, <1>8, <2>1
<1>10. x % Order \in Scalars /\ x % Order \in Int /\ Same(x % Order, x)
  <2>1. Scalars \subseteq Int
    BY ScalarNumbers
  <2> QED BY <2>1, SameReduces
<1>11. Same(x % Order, y)
  BY <1>9, <1>10, SameIsEquivalence
<1> QED BY <1>8, <1>10, <1>11

\* The vector v, zeros from its end to the m-th place.
Wide(v, m) == [i \in 1 .. m |-> ZeroExtended(v, i)]

LEMMA WideTyped ==
  ASSUME NEW v \in Seq(Int), NEW m \in Nat
  PROVE  /\ Wide(v, m) \in [1 .. m -> Int]
         /\ \A i \in 1 .. m : i > Len(v) => Wide(v, m)[i] = 0
         /\ \A i \in 1 .. m : Wide(v, m)[i] = ZeroExtended(v, i)
         /\ \A i \in Int : ZeroExtended(v, i) \in Int
<1>1. \A i \in Int : ZeroExtended(v, i) \in Int /\ (i > Len(v) => ZeroExtended(v, i) = 0)
  BY DEF ZeroExtended
<1> QED BY <1>1 DEF Wide

Longest(a, b) == Max({Len(a), Len(b)})

LEMMA LongestIs ==
  ASSUME NEW a \in Seq(Int), NEW b \in Seq(Int)
  PROVE  /\ Longest(a, b) \in Nat /\ Longest(a, b) = IF Len(a) >= Len(b) THEN Len(a) ELSE Len(b)
         /\ Widest(a, b) = 1 .. Longest(a, b)
<1>1. PICK x \in Nat, y \in Nat : x = Len(a) /\ y = Len(b)
  OBVIOUS
<1>2. Max({x, y}) = IF x >= y THEN x ELSE y
  BY DEF Max
<1> QED BY <1>1, <1>2 DEF Longest, Widest

\* The terms of a form with weights w of two functions of the places.
Products(w, x, y, m) == [i \in 1 .. m |-> w[i] * (x[i] * y[i])]
Form(w, x, y, m) == SumFunction(Products(w, x, y, m))

LEMMA ProductsTyped ==
  ASSUME NEW m \in Nat, NEW w \in [1 .. m -> Int], NEW x \in [1 .. m -> Int], NEW y \in [1 .. m -> Int]
  PROVE  /\ Products(w, x, y, m) \in [1 .. m -> Int]
         /\ Form(w, x, y, m) \in Int
<1>1. ASSUME NEW i \in 1 .. m PROVE w[i] * (x[i] * y[i]) \in Int
  <2>1. PICK a \in Int, b \in Int, c \in Int : a = w[i] /\ b = x[i] /\ c = y[i]
    OBVIOUS
  <2>2. a * (b * c) \in Int
    OBVIOUS
  <2> QED BY <2>1, <2>2
<1>2. Products(w, x, y, m) \in [1 .. m -> Int]
  BY <1>1 DEF Products
<1>3. IsFiniteSet(1 .. m)
  BY FS_Interval
<1> QED BY <1>2, <1>3, SumSplits DEF Form

Ones(m) == [i \in 1 .. m |-> 1]

\* What both inner products are: the sum of their terms, to any place behind
\* both ends.
LEMMA FormExtended ==
  ASSUME NEW a \in Seq(Int), NEW b \in Seq(Int), NEW m \in Nat, Len(a) <= m, Len(b) <= m,
         NEW w \in [1 .. m -> Int], NEW f \in [1 .. Longest(a, b) -> Int],
         \A i \in 1 .. Longest(a, b) :
           Same(f[i], w[i] * (ZeroExtended(a, i) * ZeroExtended(b, i)))
  PROVE  /\ SumFunction(f) % Order \in Scalars
         /\ Same(SumFunction(f) % Order, Form(w, Wide(a, m), Wide(b, m), m))
<1> DEFINE g == Products(w, Wide(a, m), Wide(b, m), m)
<1>1. PICK k \in Nat : k = Longest(a, b) /\ k >= Len(a) /\ k >= Len(b) /\ k <= m
  BY LongestIs
<1>2. Wide(a, m) \in [1 .. m -> Int] /\ Wide(b, m) \in [1 .. m -> Int]
  BY WideTyped
<1>3. g \in [1 .. m -> Int]
  BY <1>2, ProductsTyped
<1>4. ASSUME NEW i \in 1 .. m
      PROVE  /\ g[i] = w[i] * (ZeroExtended(a, i) * ZeroExtended(b, i))
             /\ i > k => g[i] = 0
  <2>1. PICK x \in Int, y \in Int, z \in Int :
          /\ x = Wide(a, m)[i] /\ y = Wide(b, m)[i] /\ z = w[i]
    BY <1>2
  <2>2. x = ZeroExtended(a, i) /\ y = ZeroExtended(b, i) /\ (i > Len(a) => x = 0)
    BY <2>1, WideTyped
  <2>3. g[i] = z * (x * y)
    BY <2>1 DEF Products
  <2>4. x = 0 => z * (x * y) = 0
    OBVIOUS
  <2> QED BY <1>1, <2>1, <2>2, <2>3, <2>4
<1>5. \A i \in 1 .. k : Same(f[i], g[i])
  <2> SUFFICES ASSUME NEW i \in 1 .. k PROVE Same(f[i], g[i])
    OBVIOUS
  <2>1. i \in 1 .. m
    BY <1>1
  <2>2. g[i] = w[i] * (ZeroExtended(a, i) * ZeroExtended(b, i))
    BY <1>4, <2>1
  <2> HIDE DEF g
  <2> QED BY <1>1, <2>2
<1>6. \A i \in 1 .. m : i \notin 1 .. k => g[i] = 0
  <2> HIDE DEF g
  <2> QED BY <1>4
<1>7. f \in [1 .. k -> Int]
  BY <1>1
<1> HIDE DEF g
<1>8. SumFunction(f) % Order \in Scalars /\ Same(SumFunction(f) % Order, SumFunction(g))
  <2>1. k \in Nat /\ k <= m
    BY <1>1
  <2> QED BY ONLY <1>3, <1>5, <1>6, <1>7, <2>1, m \in Nat, SumExtended, ZenonT(60)
<1> QED BY <1>8 DEF g, Form

LEMMA InnerIs ==
  ASSUME NEW a \in Seq(Int), NEW b \in Seq(Int), NEW m \in Nat, Len(a) <= m, Len(b) <= m
  PROVE  /\ Inner(a, b) \in Scalars
         /\ Same(Inner(a, b), Form(Ones(m), Wide(a, m), Wide(b, m), m))
<1> DEFINE f == [i \in 1 .. Longest(a, b) |-> Times(ZeroExtended(a, i), ZeroExtended(b, i))]
<1>1. PICK k \in Nat : k = Longest(a, b) /\ k <= m
  BY LongestIs
<1>2. Inner(a, b) = SumFunction(f) % Order
  BY LongestIs DEF Inner, SumOver
<1>3. Ones(m) \in [1 .. m -> Int]
  BY DEF Ones
<1>4. ASSUME NEW i \in 1 .. k
      PROVE  f[i] \in Int /\ Same(f[i], Ones(m)[i] * (ZeroExtended(a, i) * ZeroExtended(b, i)))
  <2>1. PICK x \in Int, y \in Int : x = ZeroExtended(a, i) /\ y = ZeroExtended(b, i)
    BY <1>1, WideTyped
  <2>2. Times(x, y) \in Scalars /\ Same(Times(x, y), x * y) /\ Scalars \subseteq Int
    BY SameOperations, ScalarNumbers
  <2>3. f[i] = Times(x, y)
    BY <1>1, <2>1
  <2>4. Ones(m)[i] = 1 /\ 1 * (x * y) = x * y
    BY <1>1 DEF Ones
  <2> QED BY <2>1, <2>2, <2>3, <2>4
<1>5. f \in [1 .. Longest(a, b) -> Int]
  BY <1>1, <1>4
<1> HIDE DEF f
<1>6. \A i \in 1 .. Longest(a, b) : Same(f[i], Ones(m)[i] * (ZeroExtended(a, i) * ZeroExtended(b, i)))
  BY <1>1, <1>4
<1>7. /\ SumFunction(f) % Order \in Scalars
      /\ Same(SumFunction(f) % Order, Form(Ones(m), Wide(a, m), Wide(b, m), m))
  BY <1>3, <1>5, <1>6, FormExtended
<1> QED BY <1>2, <1>7

----------------------------------------------------------------------------
(* The powers of a scalar.                                                 *)

Multiplies(h, n, w) == h = [k \in 0 .. n |-> IF k = 0 THEN 1 ELSE Times(h[k - 1], w)]

LEMMA MultipliesUp ==
  ASSUME NEW n \in Nat, NEW w \in Int
  PROVE  /\ \E h : Multiplies(h, n, w)
         /\ \A h : Multiplies(h, n, w) => /\ h \in [0 .. n -> Scalars] /\ h[0] = 1
                                          /\ \A k \in 1 .. n : h[k] = Times(h[k - 1], w)
<1> DEFINE step == [k \in 1 .. n |-> [x \in Int |-> Times(x, w)]]
<1>0. Scalars \subseteq Int /\ 1 \in Scalars /\ \A x \in Int : Times(x, w) \in Scalars
  <2>1. 1 \in Scalars
    BY ScalarNumbers DEF Scalars
  <2> QED BY <2>1, ScalarNumbers, SameOperations
<1>1. \E h : Multiplies(h, n, w)
  <2>1. Steps(n, step)
    BY <1>0 DEF Steps
  <2> HIDE DEF step
  <2>2. PICK h : Solves(h, n, 1, step)
    BY <2>1, Recursion
  <2> USE DEF Solves
  <2>3. \A k \in 1 .. n : h[k - 1] \in Int
    BY <2>2
  <2>4. \A k \in 1 .. n : step[k][h[k - 1]] = Times(h[k - 1], w)
    BY <2>3 DEF step
  <2>5. Multiplies(h, n, w)
    BY <2>2, <2>4 DEF Multiplies
  <2> QED BY <2>5
<1>2. ASSUME NEW h, Multiplies(h, n, w)
      PROVE  /\ h \in [0 .. n -> Scalars] /\ h[0] = 1
             /\ \A k \in 1 .. n : h[k] = Times(h[k - 1], w)
  <2>1. h[0] = 1 /\ h = [k \in 0 .. n |-> h[k]]
    BY <1>2 DEF Multiplies
  <2>2. \A k \in 1 .. n : h[k] = Times(h[k - 1], w)
    BY <1>2 DEF Multiplies
  <2> DEFINE T == {k \in Nat : h[k] \in Scalars}
  <2>3. 0 \in T
    BY <1>0, <2>1
  <2>4. ASSUME NEW k \in 0 .. n - 1, k \in T PROVE k + 1 \in T
    <3>1. k + 1 \in 1 .. n /\ (k + 1) - 1 = k
      OBVIOUS
    <3>2. h[k + 1] = Times(h[k], w)
      <4> HIDE DEF T
      <4> QED BY <2>2, <3>1
    <3>3. h[k] \in Int
      BY <1>0, <2>4
    <3>4. h[k + 1] \in Scalars
      BY <1>0, <3>2, <3>3
    <3> QED BY <3>4
  <2>5. \A k \in 0 .. n : k \in T
    <3> HIDE DEF T
    <3> QED BY <2>3, <2>4, AllUpTo
  <2>6. \A k \in 0 .. n : h[k] \in Scalars
    BY <2>5
  <2> QED BY <2>1, <2>2, <2>6
<1> QED BY <1>1, <1>2

LEMMA ExponentsAre ==
  ASSUME NEW n \in Nat, NEW w \in Int
  PROVE  /\ Exponents(w, n) \in [0 .. n -> Scalars] /\ Exponents(w, n)[0] = 1
         /\ \A k \in 1 .. n : Exponents(w, n)[k] = Times(Exponents(w, n)[k - 1], w)
<1>1. Exponents(w, n) = CHOOSE h : Multiplies(h, n, w)
  BY DEF Exponents, Multiplies
<1>2. Multiplies(CHOOSE h : Multiplies(h, n, w), n, w)
  BY MultipliesUp
<1> QED BY <1>1, <1>2, MultipliesUp

\* A list of powers does not depend on how long it is.
LEMMA ExponentsExtended ==
  ASSUME NEW n \in Nat, NEW m \in Nat, n <= m, NEW w \in Int
  PROVE  \A k \in 0 .. n : Exponents(w, n)[k] = Exponents(w, m)[k]
<1> DEFINE e == Exponents(w, n)
           f == Exponents(w, m)
<1>1. e[0] = 1 /\ f[0] = 1
  BY ExponentsAre
<1>2. \A k \in 1 .. n : e[k] = Times(e[k - 1], w) /\ f[k] = Times(f[k - 1], w)
  BY ExponentsAre
<1> HIDE DEF e, f
<1> DEFINE T == {k \in Nat : e[k] = f[k]}
<1>3. 0 \in T
  BY <1>1
<1>4. ASSUME NEW k \in 0 .. n - 1, k \in T PROVE k + 1 \in T
  <2>1. k + 1 \in 1 .. n /\ (k + 1) - 1 = k
    OBVIOUS
  <2>2. e[k + 1] = Times(e[k], w) /\ f[k + 1] = Times(f[k], w)
    <3> HIDE DEF T
    <3> QED BY <1>2, <2>1
  <2> QED BY <1>4, <2>2
<1>5. \A k \in 0 .. n : k \in T
  <2> HIDE DEF T
  <2> QED BY <1>3, <1>4, AllUpTo
<1> QED BY <1>5 DEF e, f

Powers(w, m) == [i \in 1 .. m |-> Exponents(w, m)[i]]

LEMMA WeightedInnerIs ==
  ASSUME NEW a \in Seq(Int), NEW b \in Seq(Int), NEW m \in Nat, Len(a) <= m, Len(b) <= m, NEW w \in Int
  PROVE  /\ Powers(w, m) \in [1 .. m -> Int]
         /\ WeightedInner(a, b, w) \in Scalars
         /\ Same(WeightedInner(a, b, w), Form(Powers(w, m), Wide(a, m), Wide(b, m), m))
<1> DEFINE e == Exponents(w, Longest(a, b))
           f == [i \in 1 .. Longest(a, b) |->
                  Times(e[i], Times(ZeroExtended(a, i), ZeroExtended(b, i)))]
<1>1. PICK k \in Nat : k = Longest(a, b) /\ k <= m
  BY LongestIs
<1>2. WeightedInner(a, b, w) = SumFunction(f) % Order
  BY LongestIs DEF WeightedInner, SumOver, Longest
<1>3. e \in [0 .. k -> Scalars] /\ Exponents(w, m) \in [0 .. m -> Scalars]
      /\ \A i \in 0 .. k : e[i] = Exponents(w, m)[i]
  BY <1>1, ExponentsAre, ExponentsExtended
<1>4. Scalars \subseteq Int
  BY ScalarNumbers
<1>5. Powers(w, m) \in [1 .. m -> Int] /\ \A i \in 1 .. k : Powers(w, m)[i] = e[i]
  <2> HIDE DEF e
  <2>1. ASSUME NEW i \in 1 .. m PROVE Exponents(w, m)[i] \in Int
    <3>1. i \in 0 .. m
      OBVIOUS
    <3> QED BY <1>3, <1>4, <3>1
  <2>2. \A i \in 1 .. k : i \in 1 .. m /\ i \in 0 .. k
    BY <1>1
  <2> QED BY <1>3, <2>1, <2>2 DEF Powers
<1>6. ASSUME NEW i \in 1 .. k
      PROVE  f[i] \in Int /\ Same(f[i], Powers(w, m)[i] * (ZeroExtended(a, i) * ZeroExtended(b, i)))
  <2>1. PICK x \in Int, y \in Int : x = ZeroExtended(a, i) /\ y = ZeroExtended(b, i)
    BY <1>1, WideTyped
  <2>2. PICK z \in Int : z = e[i] /\ z = Powers(w, m)[i]
    <3> HIDE DEF e
    <3>1. i \in 0 .. k
      OBVIOUS
    <3> QED BY <1>3, <1>4, <1>5, <3>1
  <2>3. PICK t \in Int : t = Times(x, y) /\ Same(t, x * y)
    BY <1>4, SameOperations
  <2>4. Times(z, t) \in Int /\ Same(Times(z, t), z * (x * y))
    <3>1. PICK p \in Int : p = x * y
      OBVIOUS
    <3>2. Same(t, p) /\ Same(z, z)
      BY <2>3, <3>1, SameIsEquivalence
    <3>3. Times(z, t) \in Int /\ Same(Times(z, t), z * p)
      BY <3>2, SameThrough
    <3> QED BY <3>1, <3>3
  <2>5. f[i] = Times(z, t)
    BY <1>1, <2>1, <2>2, <2>3
  <2> HIDE DEF f
  <2> QED BY <2>1, <2>2, <2>4, <2>5
<1>7. f \in [1 .. Longest(a, b) -> Int]
  BY <1>1, <1>6
<1> HIDE DEF f
<1>8. \A i \in 1 .. Longest(a, b) :
        Same(f[i], Powers(w, m)[i] * (ZeroExtended(a, i) * ZeroExtended(b, i)))
  BY <1>1, <1>6
<1>9. /\ SumFunction(f) % Order \in Scalars
      /\ Same(SumFunction(f) % Order, Form(Powers(w, m), Wide(a, m), Wide(b, m), m))
  BY <1>5, <1>7, <1>8, FormExtended
<1> QED BY <1>2, <1>5, <1>9

\* The powers of the square are every other power.
LEMMA PowersHalve ==
  ASSUME NEW w \in Int, NEW m \in Nat, NEW i \in 1 .. m
  PROVE  /\ Powers(w, 2 * m) \in [1 .. 2 * m -> Int] /\ Powers(Times(w, w), m) \in [1 .. m -> Int]
         /\ Same(Powers(Times(w, w), m)[i], Powers(w, 2 * m)[2 * i])
         /\ Same(Powers(w, 2 * m)[2 * i], Powers(w, 2 * m)[2 * i - 1] * w)
<1> DEFINE v == Times(w, w)
           e == Exponents(w, 2 * m)
           f == Exponents(v, m)
<1>1. v \in Int /\ Scalars \subseteq Int /\ Same(v, w * w)
  BY ScalarNumbers, SameOperations
<1>2. 2 * m \in Nat
  OBVIOUS
<1>3. e \in [0 .. 2 * m -> Scalars] /\ e[0] = 1 /\ \A k \in 1 .. 2 * m : e[k] = Times(e[k - 1], w)
  BY <1>2, ExponentsAre
<1>4. f \in [0 .. m -> Scalars] /\ f[0] = 1 /\ \A k \in 1 .. m : f[k] = Times(f[k - 1], v)
  BY <1>1, ExponentsAre
<1>5. /\ Powers(w, 2 * m) = [k \in 1 .. 2 * m |-> e[k]]
      /\ Powers(v, m) = [k \in 1 .. m |-> f[k]]
  BY DEF Powers
<1> HIDE DEF v, e, f
<1>6. \A k \in 0 .. 2 * m : e[k] \in Int
  BY <1>1, <1>3
<1>7. \A k \in 0 .. m : f[k] \in Int
  BY <1>1, <1>4
<1>8. ASSUME NEW k \in 1 .. 2 * m PROVE Same(e[k], e[k - 1] * w)
  <2>1. k - 1 \in 0 .. 2 * m
    OBVIOUS
  <2>2. PICK x \in Int : x = e[k - 1]
    BY <1>6, <2>1
  <2>3. Same(Times(x, w), x * w)
    BY SameOperations
  <2> QED BY <1>3, <2>2, <2>3
<1>9. ASSUME NEW k \in 1 .. m PROVE Same(f[k], f[k - 1] * v)
  <2>1. k - 1 \in 0 .. m
    OBVIOUS
  <2>2. PICK x \in Int : x = f[k - 1]
    BY <1>7, <2>1
  <2>3. Same(Times(x, v), x * v)
    BY <1>1, SameOperations
  <2> QED BY <1>4, <2>2, <2>3
<1> DEFINE T == {k \in Nat : Same(f[k], e[2 * k])}
<1>10. 0 \in T
  <2>1. f[0] = 1 /\ e[2 * 0] = 1
    BY <1>3, <1>4
  <2>2. Same(1, 1)
    BY SameIsEquivalence
  <2> QED BY <2>1, <2>2
<1>11. ASSUME NEW k \in 0 .. m - 1, k \in T PROVE k + 1 \in T
  <2>1. /\ k + 1 \in 1 .. m /\ (k + 1) - 1 = k /\ k \in 0 .. m /\ k + 1 \in 0 .. m /\ k + 1 \in Nat
        /\ 2 * k + 1 \in 1 .. 2 * m /\ 2 * (k + 1) \in 1 .. 2 * m
        /\ (2 * k + 1) - 1 = 2 * k /\ 2 * (k + 1) - 1 = 2 * k + 1
        /\ 2 * k \in 0 .. 2 * m /\ 2 * k + 1 \in 0 .. 2 * m /\ 2 * (k + 1) \in 0 .. 2 * m
    OBVIOUS
  <2>2. Same(f[k], e[2 * k])
    BY <1>11
  <2> HIDE DEF T
  <2>3. PICK a \in Int, b \in Int : a = f[k] /\ b = f[k + 1]
    BY <1>7, <2>1
  <2>4. PICK c \in Int, d \in Int, g \in Int : c = e[2 * k] /\ d = e[2 * k + 1] /\ g = e[2 * (k + 1)]
    BY <1>6, <2>1
  <2>5. Same(b, a * v)
    BY <1>9, <2>1, <2>3
  <2>6. Same(d, c * w)
    <3>1. Same(e[2 * k + 1], e[2 * k] * w)
      BY <1>8, <2>1
    <3> QED BY <2>4, <3>1
  <2>7. Same(g, d * w)
    <3>1. Same(e[2 * (k + 1)], e[2 * k + 1] * w)
      BY <1>8, <2>1
    <3> QED BY <2>4, <3>1
  <2>8. Same(a, c)
    BY <2>2, <2>3, <2>4
  <2>9. PICK p \in Int, q \in Int, r \in Int, s \in Int : p = a * v /\ q = c * (w * w) /\ r = d * w /\ s = c * w
    BY <1>1
  <2>10. Same(p, q)
    <3>1. w * w \in Int
      OBVIOUS
    <3> QED BY <1>1, <2>8, <2>9, <3>1, SameArithmetic
  <2>11. Same(r, q)
    <3>1. Same(w, w)
      BY SameIsEquivalence
    <3>2. Same(d * w, s * w)
      BY <2>6, <2>9, <3>1, SameArithmetic
    <3>3. s * w = q
      BY <2>9
    <3> QED BY <2>9, <3>2, <3>3
  <2>12. Same(b, p) /\ Same(g, r)
    BY <2>5, <2>7, <2>9
  <2>13. Same(b, g)
    <3>1. Same(b, q)
      BY <2>10, <2>12, SameIsEquivalence
    <3>2. Same(g, q)
      BY <2>11, <2>12, SameIsEquivalence
    <3>3. Same(q, g)
      BY <3>2, SameIsEquivalence
    <3> QED BY <3>1, <3>3, SameIsEquivalence
  <2> QED BY <2>1, <2>3, <2>4, <2>13 DEF T
<1>12. \A k \in 0 .. m : k \in T
  <2> HIDE DEF T
  <2> QED BY <1>10, <1>11, AllUpTo
<1>13. i \in 0 .. m /\ 2 * i \in 1 .. 2 * m /\ 2 * i - 1 \in 1 .. 2 * m
  OBVIOUS
<1>14. Same(f[i], e[2 * i])
  BY <1>12, <1>13
<1>15. Same(e[2 * i], e[2 * i - 1] * w)
  BY <1>8, <1>13
<1>16. /\ Powers(w, 2 * m)[2 * i] = e[2 * i] /\ Powers(w, 2 * m)[2 * i - 1] = e[2 * i - 1]
       /\ Powers(v, m)[i] = f[i]
  BY <1>5, <1>13
<1>17. Powers(w, 2 * m) \in [1 .. 2 * m -> Int] /\ Powers(v, m) \in [1 .. m -> Int]
  <2>1. \A k \in 1 .. 2 * m : e[k] \in Int
    BY <1>6
  <2>2. \A k \in 1 .. m : f[k] \in Int
    BY <1>7
  <2> QED BY <1>5, <2>1, <2>2
<1> QED BY <1>14, <1>15, <1>16, <1>17 DEF v

----------------------------------------------------------------------------
(* What one round makes of a form.                                         *)

\* The sums of f over the parts of its domain, as a function of the part.
PartSums(g, D, f) ==
  /\ g \in [SUBSET D -> Int] /\ g[{}] = 0
  /\ \A u \in SUBSET D : g[u] = SumFunction(Over(f, u))
  /\ \A u \in SUBSET D : \A x \in u : g[u] = f[x] + g[u \ {x}]

LEMMA PartSumsExist ==
  ASSUME NEW D, IsFiniteSet(D), NEW f \in [D -> Int]
  PROVE  \E g : PartSums(g, D, f)
<1> DEFINE g == [u \in SUBSET D |-> SumFunction(Over(f, u))]
<1>1. \A u \in SUBSET D : SumFunction(Over(f, u)) \in Int
  BY SumOverPart
<1>2. SumFunction(Over(f, {})) = 0
  BY SumOverPart
<1>3. ASSUME NEW u \in SUBSET D, NEW x \in u PROVE g[u] = f[x] + g[u \ {x}]
  <2>1. u \ {x} \in SUBSET D
    OBVIOUS
  <2>2. SumFunction(Over(f, u)) = f[x] + SumFunction(Over(f, u \ {x}))
    BY SumOverPart
  <2> QED BY <2>1, <2>2
<1>4. g \in [SUBSET D -> Int]
  BY <1>1
<1>5. g[{}] = 0
  BY <1>2
<1>6. \A u \in SUBSET D : g[u] = SumFunction(Over(f, u))
  OBVIOUS
<1> HIDE DEF g
<1>7. PartSums(g, D, f)
  BY <1>3, <1>4, <1>5, <1>6 DEF PartSums
<1> QED BY <1>7

\* A sum over the places up to k, and the next place.
LEMMA SumUpTo ==
  ASSUME NEW n \in Nat, NEW f \in [1 .. n -> Int]
  PROVE  /\ \A k \in 0 .. n : SumFunction(Over(f, 1 .. k)) \in Int
         /\ SumFunction(Over(f, 1 .. 0)) = 0
         /\ SumFunction(Over(f, 1 .. n)) = SumFunction(f)
         /\ \A k \in 1 .. n :
              SumFunction(Over(f, 1 .. k)) = f[k] + SumFunction(Over(f, 1 .. k - 1))
<1>1. IsFiniteSet(1 .. n)
  BY FS_Interval
<1>2. Over(f, 1 .. n) = f
  BY DEF Over
<1>3. PICK g : PartSums(g, 1 .. n, f)
  BY <1>1, PartSumsExist
<1>4. ASSUME NEW k \in 0 .. n PROVE g[1 .. k] \in Int /\ SumFunction(Over(f, 1 .. k)) = g[1 .. k]
  <2>1. 1 .. k \in SUBSET (1 .. n)
    OBVIOUS
  <2> QED BY <1>3, <2>1 DEF PartSums
<1>5. g[1 .. 0] = 0
  <2>1. 1 .. 0 = {}
    OBVIOUS
  <2> QED BY <1>3, <2>1 DEF PartSums
<1>6. ASSUME NEW k \in 1 .. n
      PROVE  SumFunction(Over(f, 1 .. k)) = f[k] + SumFunction(Over(f, 1 .. k - 1))
  <2>1. k \in 0 .. n /\ k - 1 \in 0 .. n /\ k \in 1 .. k /\ 1 .. k \in SUBSET (1 .. n)
    OBVIOUS
  <2>2. \A x : x \in (1 .. k) \ {k} <=> x \in 1 .. k - 1
    OBVIOUS
  <2>3. (1 .. k) \ {k} = 1 .. k - 1
    BY <2>2
  <2>4. g[1 .. k] = f[k] + g[(1 .. k) \ {k}]
    BY <1>3, <2>1 DEF PartSums
  <2> QED BY <1>4, <2>1, <2>3, <2>4
<1>7. 0 \in 0 .. n
  OBVIOUS
<1> QED BY <1>2, <1>4, <1>5, <1>6, <1>7

\* A sum over twice as many places, two by two.
LEMMA SumByPairs ==
  ASSUME NEW m \in Nat, NEW f \in [1 .. 2 * m -> Int],
         NEW g \in [1 .. m -> Int], \A i \in 1 .. m : g[i] = f[2 * i - 1] + f[2 * i]
  PROVE  SumFunction(g) = SumFunction(f) /\ SumFunction(f) \in Int
<1> DEFINE F(k) == SumFunction(Over(f, 1 .. k))
           H(k) == SumFunction(Over(g, 1 .. k))
           T == {k \in Nat : H(k) = F(2 * k)}
<1>1. PICK n \in Nat : n = 2 * m
  OBVIOUS
<1>2. /\ \A k \in 0 .. n : F(k) \in Int
      /\ F(0) = 0 /\ F(n) = SumFunction(f)
      /\ \A k \in 1 .. n : F(k) = f[k] + F(k - 1)
  <2>1. f \in [1 .. n -> Int]
    BY <1>1
  <2> QED BY <2>1, SumUpTo
<1>3. /\ \A k \in 0 .. m : H(k) \in Int
      /\ H(0) = 0 /\ H(m) = SumFunction(g)
      /\ \A k \in 1 .. m : H(k) = g[k] + H(k - 1)
  BY SumUpTo
<1> HIDE DEF F, H
<1>4. 0 \in T
  <2>1. 2 * 0 = 0 /\ H(0) = F(0)
    BY <1>2, <1>3
  <2> QED BY <2>1
<1>5. ASSUME NEW k \in 0 .. m - 1, k \in T PROVE k + 1 \in T
  <2>1. H(k) = F(2 * k) /\ k + 1 \in Nat
    BY <1>5
  <2> HIDE DEF T
  <2>2. PICK l \in 1 .. m : l = k + 1 /\ l - 1 = k
    OBVIOUS
  <2>3. PICK i \in 1 .. n, j \in 1 .. n : i = 2 * l /\ j = 2 * l - 1 /\ i - 1 = j /\ j - 1 = 2 * k
    <3>1. 2 * l \in 1 .. n /\ 2 * l - 1 \in 1 .. n /\ (2 * l - 1) - 1 = 2 * k
      BY <1>1, <2>2
    <3> QED BY <3>1
  <2>4. F(i) = f[i] + F(j) /\ F(j) = f[j] + F(2 * k) /\ H(l) = g[l] + H(k)
    BY <1>2, <1>3, <2>2, <2>3
  <2>5. PICK x \in Int, y \in Int, z \in Int : x = f[i] /\ y = f[j] /\ z = F(2 * k)
    <3>1. j - 1 \in 0 .. n
      OBVIOUS
    <3> QED BY <1>1, <1>2, <2>3, <3>1
  <2>6. g[l] = y + x
    BY <2>3, <2>5
  <2>7. (y + x) + z = x + (y + z)
    OBVIOUS
  <2>8. H(l) = F(2 * l)
    BY <2>1, <2>3, <2>4, <2>5, <2>6, <2>7
  <2> QED BY <2>1, <2>2, <2>8 DEF T
<1>6. m \in T
  <2>1. \A k \in 0 .. m : k \in T
    <3> HIDE DEF T
    <3> QED BY <1>4, <1>5, AllUpTo
  <2> HIDE DEF T
  <2> QED BY <2>1
<1>7. H(m) = F(n) /\ n \in 0 .. n
  BY <1>1, <1>6
<1> QED BY <1>2, <1>3, <1>7

\* Sums of linear combinations.
LEMMA SumsOfTwo ==
  ASSUME NEW D, IsFiniteSet(D), NEW f \in [D -> Int], NEW g \in [D -> Int], NEW h \in [D -> Int],
         NEW a \in Int, NEW b \in Int, \A x \in D : Same(f[x], a * g[x] + b * h[x])
  PROVE  /\ SumFunction(f) \in Int /\ SumFunction(g) \in Int /\ SumFunction(h) \in Int
         /\ Same(SumFunction(f), a * SumFunction(g) + b * SumFunction(h))
<1> DEFINE t == [x \in D |-> a * g[x]]
<1>1. t \in [D -> Int] /\ \A x \in D : t[x] = a * g[x]
  OBVIOUS
<1> HIDE DEF t
<1>2. ASSUME NEW x \in D PROVE Same(f[x], t[x] + b * h[x]) /\ Same(t[x], a * g[x])
  <2>1. PICK l \in Int : l = t[x] /\ l = a * g[x]
    BY <1>1
  <2> QED BY <2>1, SameIsEquivalence
<1>3. /\ SumFunction(f) \in Int /\ SumFunction(t) \in Int /\ SumFunction(h) \in Int
      /\ Same(SumFunction(f), SumFunction(t) + b * SumFunction(h))
  BY <1>1, <1>2, SumsCombine
<1>4. SumFunction(g) \in Int /\ Same(SumFunction(t), a * SumFunction(g))
  BY <1>1, <1>2, SumScales
<1>5. PICK F \in Int, G1 \in Int, H \in Int, U \in Int :
        F = SumFunction(f) /\ G1 = SumFunction(g) /\ H = SumFunction(h) /\ U = SumFunction(t)
  BY <1>3, <1>4
<1>6. PICK p \in Int, q \in Int : p = a * G1 /\ q = b * H
  OBVIOUS
<1>7. Same(F, U + q) /\ Same(U, p) /\ Same(q, q)
  BY <1>3, <1>4, <1>5, <1>6, SameIsEquivalence
<1>8. Same(U + q, p + q) /\ U + q \in Int /\ p + q \in Int
  BY <1>7, SameArithmetic
<1>9. Same(F, p + q)
  BY <1>7, <1>8, SameIsEquivalence
<1> QED BY <1>3, <1>4, <1>5, <1>6, <1>9

LEMMA SumsOfThree ==
  ASSUME NEW D, IsFiniteSet(D), NEW f \in [D -> Int], NEW g \in [D -> Int], NEW h \in [D -> Int],
         NEW k \in [D -> Int], NEW a \in Int, NEW b \in Int,
         \A x \in D : Same(f[x], (g[x] + a * h[x]) + b * k[x])
  PROVE  /\ SumFunction(f) \in Int /\ SumFunction(g) \in Int
         /\ SumFunction(h) \in Int /\ SumFunction(k) \in Int
         /\ Same(SumFunction(f), (SumFunction(g) + a * SumFunction(h)) + b * SumFunction(k))
<1> DEFINE t == [x \in D |-> g[x] + a * h[x]]
<1>1. t \in [D -> Int] /\ \A x \in D : t[x] = g[x] + a * h[x]
  OBVIOUS
<1> HIDE DEF t
<1>2. ASSUME NEW x \in D PROVE Same(f[x], t[x] + b * k[x]) /\ Same(t[x], g[x] + a * h[x])
  <2>1. PICK l \in Int : l = t[x] /\ l = g[x] + a * h[x]
    BY <1>1
  <2> QED BY <1>1, <2>1, SameIsEquivalence
<1>3. /\ SumFunction(f) \in Int /\ SumFunction(t) \in Int /\ SumFunction(k) \in Int
      /\ Same(SumFunction(f), SumFunction(t) + b * SumFunction(k))
  BY <1>1, <1>2, SumsCombine
<1>4. /\ SumFunction(g) \in Int /\ SumFunction(h) \in Int
      /\ Same(SumFunction(t), SumFunction(g) + a * SumFunction(h))
  <2>1. \A x \in D : Same(t[x], g[x] + a * h[x])
    BY <1>2
  <2> QED BY ONLY <1>1, <2>1, IsFiniteSet(D), g \in [D -> Int], h \in [D -> Int], a \in Int, SumsCombine, ZenonT(60)
<1>5. PICK F \in Int, U \in Int, K1 \in Int, P \in Int :
        /\ F = SumFunction(f) /\ U = SumFunction(t) /\ K1 = b * SumFunction(k)
        /\ P = SumFunction(g) + a * SumFunction(h)
  BY <1>3, <1>4
<1>6. Same(F, U + K1) /\ Same(U, P) /\ Same(K1, K1)
  BY <1>3, <1>4, <1>5, SameIsEquivalence
<1>7. Same(U + K1, P + K1) /\ U + K1 \in Int /\ P + K1 \in Int
  BY <1>6, SameArithmetic
<1>8. Same(F, P + K1)
  BY <1>6, <1>7, SameIsEquivalence
<1> QED BY <1>3, <1>4, <1>5, <1>8

\* One term of a folded form.
LEMMA FoldedTerm ==
  ASSUME NEW w1 \in Int, NEW w2 \in Int, NEW q \in Int, NEW a1 \in Int, NEW a2 \in Int,
         NEW b1 \in Int, NEW b2 \in Int, NEW c \in Int, NEW d \in Int,
         NEW s \in Int, NEW u \in Int, NEW y \in Int,
         Same(q, w2), Same(q * (s * u), w1), Same(c, s * a1 + y * a2), Same(d, u * b1 + y * b2)
  PROVE  Same(q * (c * d),
              ((w1 * (a1 * b1) + w2 * (a2 * b2)) + y * (s * (q * (a1 * b2)) + u * (q * (a2 * b1))))
                + (y * y - 1) * (q * (a2 * b2)))
<1>1. PICK k \in Int : q = w2 + Order * k
  BY DEF Same
<1>2. PICK l \in Int : q * (s * u) = w1 + Order * l
  BY DEF Same
<1>3. PICK c1 \in Int, d1 \in Int : c1 = s * a1 + y * a2 /\ d1 = u * b1 + y * b2
  OBVIOUS
<1>4. Same(q * (c * d), q * (c1 * d1))
  <2>1. Same(c, c1) /\ Same(d, d1) /\ Same(q, q)
    BY <1>3, SameIsEquivalence
  <2>2. PICK e \in Int, f \in Int : e = c * d /\ f = c1 * d1
    OBVIOUS
  <2>3. Same(e, f)
    BY <2>1, <2>2, SameArithmetic
  <2> QED BY <2>1, <2>2, <2>3, SameArithmetic
<1>5. PICK p \in Int, r \in Int, t \in Int : p = a1 * b1 /\ r = a2 * b2 /\ t = s * (q * (a1 * b2)) + u * (q * (a2 * b1))
  OBVIOUS
<1>6. q * (c1 * d1) = ((q * (s * u)) * p + y * t) + (y * y) * (q * r)
  BY <1>3, <1>5
<1>7. (q * (s * u)) * p = w1 * p + (Order * l) * p
  BY <1>2, ScalarNumbers
<1>8. q * r = w2 * r + (Order * k) * r
  BY <1>1, ScalarNumbers
<1>9. PICK z \in Int : z = q * r
  OBVIOUS
<1>10. q * (c1 * d1) = (((w1 * p + w2 * r) + y * t) + (y * y - 1) * z) + Order * (l * p + k * r)
  <2>1. PICK n \in Int : n = Order
    BY ScalarNumbers
  <2>2. q * (c1 * d1) = ((w1 * p + (n * l) * p) + y * t) + (y * y) * z
    BY <1>6, <1>7, <1>9, <2>1
  <2>3. z = w2 * r + (n * k) * r
    BY <1>8, <1>9, <2>1
  <2>4. (y * y) * z = (y * y - 1) * z + z
    OBVIOUS
  <2>5. ((w1 * p + (n * l) * p) + y * t) + ((y * y - 1) * z + (w2 * r + (n * k) * r))
          = (((w1 * p + w2 * r) + y * t) + (y * y - 1) * z) + n * (l * p + k * r)
    OBVIOUS
  <2> QED BY <2>1, <2>2, <2>3, <2>4, <2>5
<1>11. PICK A \in Int, B \in Int, j \in Int : A = q * (c1 * d1) /\ B = ((w1 * p + w2 * r) + y * t) + (y * y - 1) * z /\ j = l * p + k * r
  OBVIOUS
<1>12. Same(A, B)
  BY <1>10, <1>11 DEF Same
<1>13. Same(q * (c * d), B)
  <2>1. PICK C \in Int : C = q * (c * d)
    OBVIOUS
  <2>2. Same(C, A)
    BY <1>4, <1>11, <2>1
  <2> QED BY <1>12, <2>1, <2>2, SameIsEquivalence
<1> QED BY <1>5, <1>9, <1>11, <1>13

Firsts(x, m) == [i \in 1 .. m |-> x[2 * i - 1]]
Seconds(x, m) == [i \in 1 .. m |-> x[2 * i]]

LEMMA HalvesTyped ==
  ASSUME NEW m \in Nat, NEW x \in [1 .. 2 * m -> Int]
  PROVE  /\ Firsts(x, m) \in [1 .. m -> Int] /\ Seconds(x, m) \in [1 .. m -> Int]
         /\ \A i \in 1 .. m : Firsts(x, m)[i] = x[2 * i - 1] /\ Seconds(x, m)[i] = x[2 * i]
         /\ \A i \in 1 .. m : x[2 * i - 1] \in Int /\ x[2 * i] \in Int
<1>1. \A i \in 1 .. m : 2 * i - 1 \in 1 .. 2 * m /\ 2 * i \in 1 .. 2 * m
  OBVIOUS
<1>2. \A i \in 1 .. m : x[2 * i - 1] \in Int /\ x[2 * i] \in Int
  BY <1>1
<1> QED BY <1>2 DEF Firsts, Seconds

\* What is folded from weights w, and functions a and b, into half the places.
FoldsTo(q, c, d, m, w, a, b, s, u, y) ==
  \A i \in 1 .. m : /\ Same(q[i], w[2 * i]) /\ Same(q[i] * (s * u), w[2 * i - 1])
                   /\ Same(c[i], s * a[2 * i - 1] + y * a[2 * i])
                   /\ Same(d[i], u * b[2 * i - 1] + y * b[2 * i])

LEMMA FormFolds ==
  ASSUME NEW m \in Nat, NEW w \in [1 .. 2 * m -> Int],
         NEW a \in [1 .. 2 * m -> Int], NEW b \in [1 .. 2 * m -> Int],
         NEW q \in [1 .. m -> Int], NEW c \in [1 .. m -> Int], NEW d \in [1 .. m -> Int],
         NEW s \in Int, NEW u \in Int, NEW y \in Int, FoldsTo(q, c, d, m, w, a, b, s, u, y)
  PROVE  LET crossing == Form(q, Firsts(a, m), Seconds(b, m), m)
             crossed == Form(q, Seconds(a, m), Firsts(b, m), m)
             seconds == Form(q, Seconds(a, m), Seconds(b, m), m)
         IN  /\ crossing \in Int /\ crossed \in Int /\ seconds \in Int
             /\ Form(q, c, d, m) \in Int /\ Form(w, a, b, 2 * m) \in Int
             /\ Same(Form(q, c, d, m),
                     (Form(w, a, b, 2 * m) + y * (s * crossing + u * crossed)) + (y * y - 1) * seconds)
<1> DEFINE a1 == Firsts(a, m)
           a2 == Seconds(a, m)
           b1 == Firsts(b, m)
           b2 == Seconds(b, m)
           D == 1 .. m
           new == Products(q, c, d, m)
           all == Products(w, a, b, 2 * m)
           old == [i \in D |-> w[2 * i - 1] * (a[2 * i - 1] * b[2 * i - 1]) + w[2 * i] * (a[2 * i] * b[2 * i])]
           x12 == Products(q, a1, b2, m)
           x21 == Products(q, a2, b1, m)
           x22 == Products(q, a2, b2, m)
           cross == [i \in D |-> s * x12[i] + u * x21[i]]
<1>1. /\ a1 \in [D -> Int] /\ a2 \in [D -> Int] /\ b1 \in [D -> Int] /\ b2 \in [D -> Int]
      /\ \A i \in D : /\ a1[i] = a[2 * i - 1] /\ a2[i] = a[2 * i] /\ b1[i] = b[2 * i - 1] /\ b2[i] = b[2 * i]
      /\ \A i \in D : /\ a[2 * i - 1] \in Int /\ a[2 * i] \in Int
                      /\ b[2 * i - 1] \in Int /\ b[2 * i] \in Int
                      /\ w[2 * i - 1] \in Int /\ w[2 * i] \in Int
  BY HalvesTyped
<1>2. 2 * m \in Nat
  OBVIOUS
<1> HIDE DEF a1, a2, b1, b2
<1>3. /\ new \in [D -> Int] /\ x12 \in [D -> Int] /\ x21 \in [D -> Int] /\ x22 \in [D -> Int]
      /\ all \in [1 .. 2 * m -> Int]
  BY <1>1, <1>2, ProductsTyped
<1>4. \A i \in D : /\ new[i] = q[i] * (c[i] * d[i])
                   /\ x12[i] = q[i] * (a1[i] * b2[i]) /\ x21[i] = q[i] * (a2[i] * b1[i])
                   /\ x22[i] = q[i] * (a2[i] * b2[i])
  BY DEF Products
<1>5. \A i \in 1 .. 2 * m : all[i] = w[i] * (a[i] * b[i])
  BY DEF Products
<1>6. /\ Form(q, c, d, m) = SumFunction(new) /\ Form(w, a, b, 2 * m) = SumFunction(all)
      /\ Form(q, a1, b2, m) = SumFunction(x12) /\ Form(q, a2, b1, m) = SumFunction(x21)
      /\ Form(q, a2, b2, m) = SumFunction(x22)
  BY DEF Form
<1> HIDE DEF new, all, x12, x21, x22
<1>7. old \in [D -> Int] /\ \A i \in D : old[i] = all[2 * i - 1] + all[2 * i]
  <2>1. ASSUME NEW i \in D PROVE old[i] \in Int /\ old[i] = all[2 * i - 1] + all[2 * i]
    <3>1. 2 * i - 1 \in 1 .. 2 * m /\ 2 * i \in 1 .. 2 * m
      OBVIOUS
    <3>2. all[2 * i - 1] \in Int /\ all[2 * i] \in Int
      BY <1>3, <3>1
    <3>3. old[i] = all[2 * i - 1] + all[2 * i]
      BY <1>5, <3>1
    <3>4. PICK j \in Int, k \in Int : j = all[2 * i - 1] /\ k = all[2 * i]
      BY <3>2
    <3> HIDE DEF old
    <3>5. old[i] = j + k
      BY <3>3, <3>4
    <3>6. j + k \in Int
      OBVIOUS
    <3> QED BY ONLY <3>3, <3>5, <3>6
  <2> QED BY <2>1
<1>8. cross \in [D -> Int] /\ \A i \in D : cross[i] = s * x12[i] + u * x21[i]
  BY <1>3
<1>9. ASSUME NEW i \in D PROVE Same(new[i], (old[i] + y * cross[i]) + (y * y - 1) * x22[i])
  <2>1. PICK p1 \in Int, p2 \in Int, p3 \in Int, p4 \in Int :
          p1 = a[2 * i - 1] /\ p2 = a[2 * i] /\ p3 = b[2 * i - 1] /\ p4 = b[2 * i]
    BY <1>1
  <2>2. PICK v1 \in Int, v2 \in Int, r \in Int, e \in Int, f \in Int :
          v1 = w[2 * i - 1] /\ v2 = w[2 * i] /\ r = q[i] /\ e = c[i] /\ f = d[i]
    BY <1>1
  <2>3. /\ Same(r, v2) /\ Same(r * (s * u), v1)
        /\ Same(e, s * p1 + y * p2) /\ Same(f, u * p3 + y * p4)
    BY <2>1, <2>2 DEF FoldsTo
  <2>4. Same(r * (e * f),
             ((v1 * (p1 * p3) + v2 * (p2 * p4)) + y * (s * (r * (p1 * p4)) + u * (r * (p2 * p3))))
               + (y * y - 1) * (r * (p2 * p4)))
    BY <2>3, FoldedTerm, ZenonT(60)
  <2>5. /\ new[i] = r * (e * f) /\ old[i] = v1 * (p1 * p3) + v2 * (p2 * p4)
        /\ x12[i] = r * (p1 * p4) /\ x21[i] = r * (p2 * p3) /\ x22[i] = r * (p2 * p4)
    BY <1>1, <1>4, <2>1, <2>2
  <2>6. cross[i] = s * (r * (p1 * p4)) + u * (r * (p2 * p3))
    BY <1>8, <2>5
  <2> HIDE DEF old, cross
  <2> QED BY <2>4, <2>5, <2>6
<1>10. IsFiniteSet(D)
  BY FS_Interval
<1>11. SumFunction(old) = SumFunction(all) /\ SumFunction(all) \in Int
  <2> HIDE DEF old
  <2> QED BY <1>3, <1>7, SumByPairs
<1> HIDE DEF old, cross, D
<1>12. PICK z \in Int : z = y * y - 1
  OBVIOUS
<1>13. /\ SumFunction(new) \in Int /\ SumFunction(old) \in Int
       /\ SumFunction(cross) \in Int /\ SumFunction(x22) \in Int
       /\ Same(SumFunction(new), (SumFunction(old) + y * SumFunction(cross)) + z * SumFunction(x22))
  <2>1. \A i \in D : Same(new[i], (old[i] + y * cross[i]) + z * x22[i])
    BY <1>9, <1>12
  <2> QED BY ONLY <1>3, <1>7, <1>8, <1>10, <2>1, y \in Int, z \in Int, SumsOfThree, Zenon
<1>14. /\ SumFunction(x12) \in Int /\ SumFunction(x21) \in Int
       /\ Same(SumFunction(cross), s * SumFunction(x12) + u * SumFunction(x21))
  <2>1. cross \in [D -> Int] /\ x12 \in [D -> Int] /\ x21 \in [D -> Int]
    BY <1>3, <1>8
  <2>2. ASSUME NEW i \in D PROVE Same(cross[i], s * x12[i] + u * x21[i])
    <3>1. PICK l \in Int : l = cross[i] /\ l = s * x12[i] + u * x21[i]
      BY <1>8
    <3> QED BY <3>1, SameIsEquivalence
  <2>3. \A i \in D : Same(cross[i], s * x12[i] + u * x21[i])
    BY ONLY <2>2
  <2>4. /\ SumFunction(cross) \in Int /\ SumFunction(x12) \in Int /\ SumFunction(x21) \in Int
        /\ Same(SumFunction(cross), s * SumFunction(x12) + u * SumFunction(x21))
    BY ONLY <1>10, <2>1, <2>3, s \in Int, u \in Int, SumsOfTwo, Zenon
  <2> QED BY <2>4
<1>15. PICK F \in Int, O \in Int, X \in Int, P \in Int, Z \in Int :
         /\ F = SumFunction(new) /\ O = SumFunction(all) /\ X = SumFunction(cross)
         /\ P = s * SumFunction(x12) + u * SumFunction(x21) /\ Z = z * SumFunction(x22)
  <2>1. s * SumFunction(x12) + u * SumFunction(x21) \in Int
    BY <1>14
  <2>2. z * SumFunction(x22) \in Int
    BY <1>13
  <2> QED BY <1>11, <1>13, <2>1, <2>2
<1>16. Same(F, (O + y * X) + Z) /\ Same(X, P)
  BY <1>11, <1>13, <1>14, <1>15
<1>17. Same(F, (O + y * P) + Z)
  <2>1. PICK k \in Int, l \in Int : k = y * X /\ l = y * P
    OBVIOUS
  <2>2. Same(y, y) /\ Same(O, O) /\ Same(Z, Z)
    BY SameIsEquivalence
  <2>3. Same(k, l)
    BY <1>16, <2>1, <2>2, SameArithmetic
  <2>4. PICK g \in Int, h \in Int : g = O + k /\ h = O + l
    OBVIOUS
  <2>5. Same(g, h)
    BY <2>2, <2>3, <2>4, SameArithmetic
  <2>6. PICK i \in Int, j \in Int : i = g + Z /\ j = h + Z
    OBVIOUS
  <2>7. Same(i, j)
    BY <2>2, <2>5, <2>6, SameArithmetic
  <2>8. Same(F, i)
    BY <1>16, <2>1, <2>4, <2>6
  <2>9. Same(F, j)
    BY <2>7, <2>8, SameIsEquivalence
  <2> QED BY <2>1, <2>4, <2>6, <2>9
<1> QED BY <1>6, <1>11, <1>12, <1>13, <1>14, <1>15, <1>17 DEF a1, a2, b1, b2

\* The two halves of a vector.
LEMMA HalvesOf ==
  ASSUME NEW S, NEW v \in Seq(S)
  PROVE  /\ Evens(v) \in Seq(S) /\ Len(Evens(v)) = (Len(v) + 1) \div 2
         /\ Odds(v) \in Seq(S) /\ Len(Odds(v)) = Len(v) \div 2
         /\ \A i \in 1 .. Len(Evens(v)) : Evens(v)[i] = v[2 * i - 1]
         /\ \A i \in 1 .. Len(Odds(v)) : Odds(v)[i] = v[2 * i]
<1>1. PICK n \in Nat : n = Len(v) /\ \A j \in 1 .. n : v[j] \in S
  OBVIOUS
<1>2. PICK k \in Nat, l \in Nat : k = (n + 1) \div 2 /\ l = n \div 2
  OBVIOUS
<1>3. \A i \in 1 .. k : 2 * i - 1 \in 1 .. n
  BY <1>2
<1>4. \A i \in 1 .. l : 2 * i \in 1 .. n
  BY <1>2
<1>5. Evens(v) = [i \in 1 .. k |-> v[2 * i - 1]] /\ Odds(v) = [i \in 1 .. l |-> v[2 * i]]
  BY <1>1, <1>2 DEF Evens, Odds
<1>6. [i \in 1 .. k |-> v[2 * i - 1]] \in [1 .. k -> S] /\ [i \in 1 .. l |-> v[2 * i]] \in [1 .. l -> S]
  BY <1>1, <1>3, <1>4
<1>7. Evens(v) \in Seq(S) /\ Len(Evens(v)) = k
  BY <1>5, <1>6
<1>8. Odds(v) \in Seq(S) /\ Len(Odds(v)) = l
  BY <1>5, <1>6
<1> QED BY <1>1, <1>2, <1>5, <1>7, <1>8

LEMMA WideHalves ==
  ASSUME NEW v \in Seq(Int), NEW m \in Nat, Len(v) <= 2 * m
  PROVE  /\ Len(Evens(v)) <= m /\ Len(Odds(v)) <= m
         /\ Wide(Evens(v), m) = Firsts(Wide(v, 2 * m), m)
         /\ Wide(Odds(v), m) = Seconds(Wide(v, 2 * m), m)
<1>1. PICK n \in Nat, k \in Nat, l \in Nat :
        /\ n = Len(v) /\ k = Len(Evens(v)) /\ l = Len(Odds(v))
        /\ k = (n + 1) \div 2 /\ l = n \div 2
  BY HalvesOf
<1>2. k <= m /\ l <= m
  BY <1>1
<1>3. ASSUME NEW i \in 1 .. m PROVE ZeroExtended(Evens(v), i) = ZeroExtended(v, 2 * i - 1)
  <2>1. i \in 1 .. k <=> 2 * i - 1 \in 1 .. n
    BY <1>1
  <2>2. DOMAIN Evens(v) = 1 .. k /\ DOMAIN v = 1 .. n
    BY <1>1, HalvesOf
  <2>3. i \in 1 .. k => Evens(v)[i] = v[2 * i - 1]
    BY <1>1, HalvesOf
  <2> QED BY <2>1, <2>2, <2>3 DEF ZeroExtended
<1>4. ASSUME NEW i \in 1 .. m PROVE ZeroExtended(Odds(v), i) = ZeroExtended(v, 2 * i)
  <2>1. i \in 1 .. l <=> 2 * i \in 1 .. n
    BY <1>1
  <2>2. DOMAIN Odds(v) = 1 .. l /\ DOMAIN v = 1 .. n
    BY <1>1, HalvesOf
  <2>3. i \in 1 .. l => Odds(v)[i] = v[2 * i]
    BY <1>1, HalvesOf
  <2> QED BY <2>1, <2>2, <2>3 DEF ZeroExtended
<1>5. \A i \in 1 .. m : 2 * i - 1 \in 1 .. 2 * m /\ 2 * i \in 1 .. 2 * m
  OBVIOUS
<1>6. \A i \in 1 .. m : /\ Wide(v, 2 * m)[2 * i - 1] = ZeroExtended(v, 2 * i - 1)
                       /\ Wide(v, 2 * m)[2 * i] = ZeroExtended(v, 2 * i)
  BY <1>5 DEF Wide
<1>7. Wide(Evens(v), m) = Firsts(Wide(v, 2 * m), m)
  BY <1>3, <1>6 DEF Wide, Firsts
<1>8. Wide(Odds(v), m) = Seconds(Wide(v, 2 * m), m)
  BY <1>4, <1>6 DEF Wide, Seconds
<1> QED BY <1>1, <1>2, <1>7, <1>8

\* An entry is an integer, and nothing beyond the end.
LEMMA EntryTyped ==
  ASSUME NEW v \in Seq(Int), NEW i \in Int
  PROVE  /\ ZeroExtended(v, i) \in Int
         /\ i > Len(v) => ZeroExtended(v, i) = 0
         /\ i \in 1 .. Len(v) => ZeroExtended(v, i) = v[i]
BY DEF ZeroExtended

LEMMA CombinedTyped ==
  ASSUME NEW v \in Seq(Int), NEW s \in Int, NEW t \in Int
  PROVE  LET c == Combined(Evens(v), s, Odds(v), t)
         IN  /\ c \in Seq(Scalars) /\ c \in Seq(Int) /\ Len(c) = (Len(v) + 1) \div 2
             /\ \A i \in 1 .. Len(c) :
                  c[i] = Plus(Times(s, ZeroExtended(Evens(v), i)), Times(t, ZeroExtended(Odds(v), i)))
<1> DEFINE c == Combined(Evens(v), s, Odds(v), t)
<1>1. PICK n \in Nat, k \in Nat, l \in Nat :
        /\ n = Len(v) /\ k = Len(Evens(v)) /\ l = Len(Odds(v))
        /\ k = (n + 1) \div 2 /\ l = n \div 2
  BY HalvesOf
<1>2. k >= l
  BY <1>1
<1>3. Evens(v) \in Seq(Int) /\ Odds(v) \in Seq(Int)
  BY HalvesOf
<1>4. Widest(Evens(v), Odds(v)) = 1 .. k
  BY <1>1, <1>2, <1>3, LongestIs, ZenonT(60)
<1>5. c = [i \in 1 .. k |-> Plus(Times(s, ZeroExtended(Evens(v), i)), Times(t, ZeroExtended(Odds(v), i)))]
  BY <1>4 DEF Combined
<1>6. ASSUME NEW i \in 1 .. k PROVE c[i] \in Scalars
  <2>1. PICK x \in Int, y \in Int : x = ZeroExtended(Evens(v), i) /\ y = ZeroExtended(Odds(v), i)
    <3>1. i \in Int
      OBVIOUS
    <3>2. ZeroExtended(Evens(v), i) \in Int /\ ZeroExtended(Odds(v), i) \in Int
      BY <1>3, <3>1, EntryTyped
    <3> QED BY <3>2
  <2>2. PICK p \in Int, q \in Int : p = Times(s, x) /\ q = Times(t, y)
    BY ScalarNumbers, SameOperations
  <2>3. c[i] = Plus(p, q)
    BY <1>5, <2>1, <2>2
  <2> HIDE DEF c
  <2> QED BY <2>3, SameOperations
<1>7. c \in [1 .. k -> Scalars]
  BY <1>5, <1>6
<1>8. Scalars \subseteq Int
  BY ScalarNumbers
<1>9. c \in Seq(Scalars) /\ Len(c) = k
  <2> HIDE DEF c
  <2> QED BY <1>7
<1>10. c \in Seq(Int)
  <2> HIDE DEF c
  <2>1. c \in [1 .. k -> Int]
    BY <1>7, <1>8
  <2> QED BY <2>1
<1> QED BY <1>1, <1>5, <1>9, <1>10

LEMMA WideCombined ==
  ASSUME NEW v \in Seq(Int), NEW s \in Int, NEW t \in Int, NEW m \in Nat, Len(v) <= 2 * m, NEW i \in 1 .. m
  PROVE  /\ Len(Combined(Evens(v), s, Odds(v), t)) <= m
         /\ Same(Wide(Combined(Evens(v), s, Odds(v), t), m)[i],
                 s * Wide(v, 2 * m)[2 * i - 1] + t * Wide(v, 2 * m)[2 * i])
<1> DEFINE c == Combined(Evens(v), s, Odds(v), t)
<1>1. PICK n \in Nat, k \in Nat, l \in Nat :
        /\ n = Len(v) /\ k = Len(Evens(v)) /\ l = Len(Odds(v))
        /\ k = (n + 1) \div 2 /\ l = n \div 2
  <2>1. Len(Evens(v)) = (Len(v) + 1) \div 2 /\ Len(Odds(v)) = Len(v) \div 2
    BY ONLY v \in Seq(Int), HalvesOf
  <2>2. PICK n \in Nat : n = Len(v)
    OBVIOUS
  <2>3. (n + 1) \div 2 \in Nat /\ n \div 2 \in Nat
    OBVIOUS
  <2> QED BY ONLY <2>1, <2>2, <2>3
<1>2. k <= m /\ l <= k
  BY <1>1
<1>3. /\ c \in Seq(Int) /\ Len(c) = k
      /\ \A j \in 1 .. k :
           c[j] = Plus(Times(s, ZeroExtended(Evens(v), j)), Times(t, ZeroExtended(Odds(v), j)))
  <2>1. Len(c) = k
    BY <1>1, CombinedTyped
  <2> QED BY <2>1, CombinedTyped
<1> HIDE DEF c
<1>4. Evens(v) \in Seq(Int) /\ Odds(v) \in Seq(Int)
  BY HalvesOf
<1>5. PICK x \in Int, y \in Int : /\ x = ZeroExtended(Evens(v), i) /\ y = ZeroExtended(Odds(v), i)
                                  /\ (i > k => x = 0) /\ (i > l => y = 0)
  <2>4. i \in Int
    OBVIOUS
  <2>1. ZeroExtended(Evens(v), i) \in Int /\ ZeroExtended(Odds(v), i) \in Int
    BY <1>4, <2>4, EntryTyped
  <2>2. i > k => ZeroExtended(Evens(v), i) = 0
    <3>1. i > Len(Evens(v)) => ZeroExtended(Evens(v), i) = 0
      BY <1>4, <2>4, EntryTyped
    <3> QED BY <1>1, <3>1
  <2>3. i > l => ZeroExtended(Odds(v), i) = 0
    <3>1. i > Len(Odds(v)) => ZeroExtended(Odds(v), i) = 0
      BY <1>4, EntryTyped
    <3> QED BY <1>1, <3>1
  <2> QED BY <2>1, <2>2, <2>3
<1>6. x = Wide(v, 2 * m)[2 * i - 1] /\ y = Wide(v, 2 * m)[2 * i]
  <2>1. Wide(Evens(v), m)[i] = x /\ Wide(Odds(v), m)[i] = y
    BY <1>5 DEF Wide
  <2>2. Wide(Evens(v), m)[i] = Wide(v, 2 * m)[2 * i - 1]
    BY WideHalves DEF Firsts
  <2>3. Wide(Odds(v), m)[i] = Wide(v, 2 * m)[2 * i]
    BY WideHalves DEF Seconds
  <2> QED BY <2>1, <2>2, <2>3
<1>7. Wide(c, m)[i] = ZeroExtended(c, i)
  BY DEF Wide
<1>8. Same(ZeroExtended(c, i), s * x + t * y)
  <2>1. CASE i <= k
    <3>1. ZeroExtended(c, i) = Plus(Times(s, x), Times(t, y))
      BY <1>3, <1>5, <2>1 DEF ZeroExtended
    <3>2. PICK p \in Int, q \in Int : p = s * x /\ q = t * y
      OBVIOUS
    <3>3. Times(s, x) \in Int /\ Same(Times(s, x), p) /\ Times(t, y) \in Int /\ Same(Times(t, y), q)
      BY <3>2, ScalarNumbers, SameOperations
    <3>4. Same(Plus(Times(s, x), Times(t, y)), p + q)
      BY <3>3, SameThrough
    <3> QED BY <3>1, <3>2, <3>4
  <2>2. CASE i > k
    <3>1. ZeroExtended(c, i) = 0
      BY <1>1, <1>3, <2>2 DEF ZeroExtended
    <3>2. x = 0 /\ y = 0
      BY <1>2, <1>5, <2>2, <1>1
    <3>3. s * x + t * y = 0
      BY <3>2
    <3>4. Same(0, 0)
      BY SameIsEquivalence
    <3> QED BY <3>1, <3>3, <3>4
  <2> QED BY <1>1, <2>1, <2>2
<1>9. Len(c) <= m
  BY <1>2, <1>3
<1> QED BY <1>6, <1>7, <1>8, <1>9 DEF c

\* A form of a vector and a scaled one.
LEMMA InnerScaled ==
  ASSUME NEW a \in Seq(Int), NEW v \in Seq(Int), NEW s \in Int
  PROVE  /\ Inner(a, Scaled(s, v)) \in Scalars /\ Inner(a, v) \in Scalars
         /\ Same(Inner(a, Scaled(s, v)), s * Inner(a, v))
<1> DEFINE m == Len(a) + Len(v)
           c == Scaled(s, v)
<1>1. m \in Nat /\ Len(a) <= m /\ Len(v) <= m
  OBVIOUS
<1>2. PICK k \in Nat : k = Len(v) /\ DOMAIN v = 1 .. k /\ \A i \in 1 .. k : v[i] \in Int
  OBVIOUS
<1>3. c = [i \in 1 .. k |-> Times(s, v[i])]
  BY <1>2 DEF Scaled
<1>4. \A x \in Int : Times(s, x) \in Int /\ Same(Times(s, x), s * x)
  BY ScalarNumbers, SameOperations
<1>5. c \in [1 .. k -> Int]
  BY <1>2, <1>3, <1>4
<1>6. c \in Seq(Int) /\ Len(c) = k /\ DOMAIN c = 1 .. k
  <2> HIDE DEF c
  <2> QED BY <1>5
<1>7. ASSUME NEW i \in 1 .. m PROVE Same(ZeroExtended(c, i), s * ZeroExtended(v, i))
  <2>1. CASE i \in 1 .. k
    BY <1>2, <1>3, <1>4, <2>1 DEF ZeroExtended
  <2>2. CASE i \notin 1 .. k
    <3>1. ZeroExtended(c, i) = 0 /\ ZeroExtended(v, i) = 0
      <4> HIDE DEF c
      <4> QED BY <1>2, <1>6, <2>2 DEF ZeroExtended
    <3>2. s * 0 = 0 /\ Same(0, 0)
      BY SameIsEquivalence
    <3> QED BY <3>1, <3>2
  <2> QED BY <2>1, <2>2
<1> HIDE DEF c, m
<1> DEFINE f == Products(Ones(m), Wide(a, m), Wide(c, m), m)
           g == Products(Ones(m), Wide(a, m), Wide(v, m), m)
           D == 1 .. m
<1>8. /\ Wide(a, m) \in [D -> Int] /\ Wide(c, m) \in [D -> Int] /\ Wide(v, m) \in [D -> Int]
      /\ Ones(m) \in [D -> Int]
      /\ \A i \in D : Ones(m)[i] = 1
      /\ \A i \in D : Wide(c, m)[i] = ZeroExtended(c, i) /\ Wide(v, m)[i] = ZeroExtended(v, i)
  <2>1. Wide(a, m) \in [D -> Int] /\ Wide(v, m) \in [D -> Int]
    BY <1>1, WideTyped
  <2>2. Wide(c, m) \in [D -> Int]
    BY <1>1, <1>6, WideTyped
  <2>3. Ones(m) \in [D -> Int] /\ \A i \in D : Ones(m)[i] = 1
    BY DEF Ones
  <2>4. \A i \in D : Wide(c, m)[i] = ZeroExtended(c, i) /\ Wide(v, m)[i] = ZeroExtended(v, i)
    BY DEF Wide
  <2> QED BY <2>1, <2>2, <2>3, <2>4
<1>9. f \in [D -> Int] /\ g \in [D -> Int]
  BY <1>1, <1>8, ProductsTyped
<1>10. ASSUME NEW i \in D PROVE Same(f[i], s * g[i])
  <2>1. PICK x \in Int, y \in Int, z \in Int : x = Wide(a, m)[i] /\ y = Wide(c, m)[i] /\ z = Wide(v, m)[i]
    BY <1>8
  <2>2. f[i] = 1 * (x * y) /\ g[i] = 1 * (x * z)
    BY <1>8, <2>1 DEF Products
  <2>3. 1 * (x * y) = x * y /\ 1 * (x * z) = x * z
    OBVIOUS
  <2>4. PICK p \in Int : p = s * z
    OBVIOUS
  <2>5. Same(y, p) /\ Same(x, x)
    BY <1>7, <1>8, <2>1, <2>4, SameIsEquivalence
  <2>6. Same(x * y, x * p)
    BY <2>5, SameArithmetic
  <2>7. x * p = s * (x * z)
    BY <2>4
  <2> HIDE DEF f, g
  <2> QED BY <2>2, <2>3, <2>6, <2>7
<1>11. IsFiniteSet(D)
  BY <1>1, FS_Interval
<1> HIDE DEF f, g, D
<1>12. SumFunction(f) \in Int /\ SumFunction(g) \in Int /\ Same(SumFunction(f), s * SumFunction(g))
  BY <1>9, <1>10, <1>11, SumScales
<1>13. /\ Inner(a, c) \in Scalars /\ Same(Inner(a, c), SumFunction(f))
       /\ Inner(a, v) \in Scalars /\ Same(Inner(a, v), SumFunction(g))
  BY <1>1, <1>2, <1>6, InnerIs DEF Form, f, g
<1>14. PICK F \in Int, H \in Int, I \in Int, J \in Int :
         F = SumFunction(f) /\ H = SumFunction(g) /\ I = Inner(a, c) /\ J = Inner(a, v)
  BY <1>12, <1>13, ScalarNumbers
<1>15. Same(I, s * J)
  <2>1. PICK p \in Int, q \in Int : p = s * H /\ q = s * J
    OBVIOUS
  <2>2. Same(I, F) /\ Same(F, p) /\ Same(J, H) /\ Same(s, s)
    BY <1>12, <1>13, <1>14, <2>1, SameIsEquivalence
  <2>3. Same(q, p)
    BY <2>1, <2>2, SameArithmetic
  <2>4. Same(I, p) /\ Same(p, q)
    BY <2>2, <2>3, SameIsEquivalence
  <2>5. Same(I, q)
    BY <2>4, SameIsEquivalence
  <2> QED BY <2>1, <2>5
<1> QED BY <1>13, <1>14, <1>15 DEF c

\* What a round makes of a form of two vectors: y times the two cross terms,
\* and y * y - 1 times the form of the odd entries.
Round(o, p, q, z, s, u, y) == (o + y * (s * p + u * q)) + (y * y - 1) * z

LEMMA RoundForm ==
  ASSUME NEW o \in Int, NEW p \in Int, NEW q \in Int, NEW z \in Int,
         NEW O \in Int, NEW P \in Int, NEW Q \in Int, NEW Z \in Int,
         NEW s \in Int, NEW u \in Int, NEW y \in Int,
         Same(o, O), Same(p, P), Same(q, Q), Same(z, Z)
  PROVE  /\ Round(o, p, q, z, s, u, y) \in Int /\ Round(O, P, Q, Z, s, u, y) \in Int
         /\ Same(Round(o, p, q, z, s, u, y), Round(O, P, Q, Z, s, u, y))
<1>1. PICK a1 \in Int, a2 \in Int, A1 \in Int, A2 \in Int, b \in Int, B \in Int :
        /\ a1 = s * p /\ A1 = s * P /\ a2 = u * q /\ A2 = u * Q
        /\ b = a1 + a2 /\ B = A1 + A2
  OBVIOUS
<1>2. PICK c \in Int, C \in Int, k \in Int, d \in Int, D \in Int :
        /\ c = y * b /\ C = y * B /\ k = y * y - 1 /\ d = k * z /\ D = k * Z
  OBVIOUS
<1>3. Same(s, s) /\ Same(u, u) /\ Same(y, y) /\ Same(k, k)
  BY SameIsEquivalence
<1>4. Same(a1, A1) /\ Same(a2, A2)
  BY <1>1, <1>3, SameArithmetic
<1>5. Same(b, B)
  BY <1>1, <1>4, SameArithmetic
<1>6. Same(c, C) /\ Same(d, D)
  BY <1>2, <1>3, <1>5, SameArithmetic
<1>7. PICK e \in Int, E \in Int : e = o + c /\ E = O + C
  OBVIOUS
<1>8. Same(e, E)
  BY <1>6, <1>7, SameArithmetic
<1>9. Same(e + d, E + D)
  BY <1>6, <1>8, SameArithmetic
<1>10. Round(o, p, q, z, s, u, y) = e + d /\ Round(O, P, Q, Z, s, u, y) = E + D
  BY <1>1, <1>2, <1>7 DEF Round
<1> QED BY <1>9, <1>10

\* The inner product of two folded vectors.
LEMMA InnerFolds ==
  ASSUME NEW a \in Seq(Int), NEW b \in Seq(Int), NEW s \in Int, NEW u \in Int, NEW y \in Int, Same(s * u, 1)
  PROVE  LET c == Combined(Evens(a), s, Odds(a), y)
             d == Combined(Evens(b), u, Odds(b), y)
         IN  /\ Inner(c, d) \in Scalars /\ Inner(a, b) \in Scalars
             /\ Inner(Evens(a), Odds(b)) \in Scalars /\ Inner(Odds(a), Evens(b)) \in Scalars
             /\ Inner(Odds(a), Odds(b)) \in Scalars
             /\ Same(Inner(c, d),
                     Round(Inner(a, b), Inner(Evens(a), Odds(b)), Inner(Odds(a), Evens(b)),
                           Inner(Odds(a), Odds(b)), s, u, y))
<1> DEFINE c == Combined(Evens(a), s, Odds(a), y)
           d == Combined(Evens(b), u, Odds(b), y)
           m == Len(a) + Len(b)
           w == Ones(2 * m)
           q == Ones(m)
           A == Wide(a, 2 * m)
           B == Wide(b, 2 * m)
           C == Wide(c, m)
           D == Wide(d, m)
<1>1. m \in Nat /\ 2 * m \in Nat /\ Len(a) <= 2 * m /\ Len(b) <= 2 * m
  OBVIOUS
<1>2. c \in Seq(Int) /\ d \in Seq(Int)
  BY CombinedTyped
<1>3. \A i \in 1 .. m : Same(C[i], s * A[2 * i - 1] + y * A[2 * i])
  BY <1>1, WideCombined
<1>4. \A i \in 1 .. m : Same(D[i], u * B[2 * i - 1] + y * B[2 * i])
  BY <1>1, WideCombined
<1>5. Len(c) <= m /\ Len(d) <= m
  <2>1. PICK k \in Nat, l \in Nat : k = Len(a) /\ l = Len(b)
    OBVIOUS
  <2>2. Len(c) = (k + 1) \div 2 /\ Len(d) = (l + 1) \div 2
    BY <2>1, CombinedTyped
  <2>3. (k + 1) \div 2 <= k + l /\ (l + 1) \div 2 <= k + l
    BY <2>1
  <2> QED BY <2>1, <2>2, <2>3
<1>6. w \in [1 .. 2 * m -> Int] /\ q \in [1 .. m -> Int] /\ A \in [1 .. 2 * m -> Int]
      /\ B \in [1 .. 2 * m -> Int] /\ C \in [1 .. m -> Int] /\ D \in [1 .. m -> Int]
  <2>1. w \in [1 .. 2 * m -> Int] /\ q \in [1 .. m -> Int]
    BY DEF Ones
  <2>2. A \in [1 .. 2 * m -> Int] /\ B \in [1 .. 2 * m -> Int]
    BY <1>1, WideTyped
  <2>3. C \in [1 .. m -> Int] /\ D \in [1 .. m -> Int]
    BY <1>1, <1>2, WideTyped
  <2> QED BY <2>1, <2>2, <2>3
<1>7. FoldsTo(q, C, D, m, w, A, B, s, u, y)
  <2>1. \A i \in 1 .. m : 2 * i \in 1 .. 2 * m /\ 2 * i - 1 \in 1 .. 2 * m
    BY <1>1
  <2>2. \A i \in 1 .. m : q[i] = 1 /\ w[2 * i] = 1 /\ w[2 * i - 1] = 1
    BY <2>1 DEF Ones
  <2>3. Same(1, 1)
    BY SameIsEquivalence
  <2>4. PICK t \in Int : t = s * u /\ 1 * t = t
    OBVIOUS
  <2>5. Same(1 * (s * u), 1)
    BY <2>4
  <2> HIDE DEF q, w, A, B, C, D, m
  <2> QED BY <1>3, <1>4, <2>2, <2>3, <2>5 DEF FoldsTo
<1>8. /\ Firsts(A, m) = Wide(Evens(a), m) /\ Seconds(A, m) = Wide(Odds(a), m)
      /\ Firsts(B, m) = Wide(Evens(b), m) /\ Seconds(B, m) = Wide(Odds(b), m)
      /\ Len(Evens(a)) <= m /\ Len(Odds(a)) <= m /\ Len(Evens(b)) <= m /\ Len(Odds(b)) <= m
  BY <1>1, WideHalves
<1>9. Evens(a) \in Seq(Int) /\ Odds(a) \in Seq(Int) /\ Evens(b) \in Seq(Int) /\ Odds(b) \in Seq(Int)
  BY HalvesOf
<1>10. /\ Inner(c, d) \in Scalars /\ Same(Inner(c, d), Form(q, C, D, m))
       /\ Inner(a, b) \in Scalars /\ Same(Inner(a, b), Form(w, A, B, 2 * m))
  BY <1>1, <1>2, <1>5, InnerIs
<1>11. /\ Inner(Evens(a), Odds(b)) \in Scalars
       /\ Same(Inner(Evens(a), Odds(b)), Form(q, Firsts(A, m), Seconds(B, m), m))
       /\ Inner(Odds(a), Evens(b)) \in Scalars
       /\ Same(Inner(Odds(a), Evens(b)), Form(q, Seconds(A, m), Firsts(B, m), m))
       /\ Inner(Odds(a), Odds(b)) \in Scalars
       /\ Same(Inner(Odds(a), Odds(b)), Form(q, Seconds(A, m), Seconds(B, m), m))
  <2> HIDE DEF m, A, B, C, D, w
  <2> QED BY <1>1, <1>8, <1>9, InnerIs
<1> HIDE DEF c, d, m, w, q, A, B, C, D
<1>12. PICK O \in Int, P \in Int, Q \in Int, Z \in Int, R \in Int :
         /\ O = Form(w, A, B, 2 * m) /\ P = Form(q, Firsts(A, m), Seconds(B, m), m)
         /\ Q = Form(q, Seconds(A, m), Firsts(B, m), m) /\ Z = Form(q, Seconds(A, m), Seconds(B, m), m)
         /\ R = Form(q, C, D, m)
         /\ Same(R, Round(O, P, Q, Z, s, u, y))
  <2>1. /\ Form(q, Firsts(A, m), Seconds(B, m), m) \in Int
        /\ Form(q, Seconds(A, m), Firsts(B, m), m) \in Int
        /\ Form(q, Seconds(A, m), Seconds(B, m), m) \in Int
        /\ Form(q, C, D, m) \in Int /\ Form(w, A, B, 2 * m) \in Int
    BY <1>1, <1>6, <1>7, FormFolds
  <2>2. Same(Form(q, C, D, m),
             Round(Form(w, A, B, 2 * m), Form(q, Firsts(A, m), Seconds(B, m), m),
                   Form(q, Seconds(A, m), Firsts(B, m), m), Form(q, Seconds(A, m), Seconds(B, m), m),
                   s, u, y))
    BY <1>1, <1>6, <1>7, FormFolds DEF Round
  <2> QED BY ONLY <2>1, <2>2
<1>13. PICK o \in Int, p \in Int, r \in Int, z \in Int, t \in Int :
         /\ o = Inner(a, b) /\ p = Inner(Evens(a), Odds(b)) /\ r = Inner(Odds(a), Evens(b))
         /\ z = Inner(Odds(a), Odds(b)) /\ t = Inner(c, d)
  BY <1>10, <1>11, ScalarNumbers
<1>14. Same(o, O) /\ Same(p, P) /\ Same(r, Q) /\ Same(z, Z) /\ Same(t, R)
  BY <1>10, <1>11, <1>12, <1>13
<1>15. PICK x \in Int, X \in Int :
         /\ x = Round(o, p, r, z, s, u, y) /\ X = Round(O, P, Q, Z, s, u, y)
         /\ Same(x, X)
  <2>1. /\ Round(o, p, r, z, s, u, y) \in Int /\ Round(O, P, Q, Z, s, u, y) \in Int
        /\ Same(Round(o, p, r, z, s, u, y), Round(O, P, Q, Z, s, u, y))
    BY <1>14, RoundForm
  <2> QED BY ONLY <2>1
<1>16. Same(R, X)
  BY <1>12, <1>15
<1>17. Same(t, x)
  <2>1. Same(X, x) /\ Same(t, X)
    BY <1>14, <1>15, <1>16, SameIsEquivalence, ZenonT(60)
  <2> QED BY <2>1, SameIsEquivalence
<1> QED BY <1>10, <1>11, <1>13, <1>15, <1>17 DEF c, d

\* The weighted square of a folded vector, under the square of the weight.
LEMMA WeightedFolds ==
  ASSUME NEW a \in Seq(Int), NEW w \in Int, NEW s \in Int, NEW y \in Int, Same((s * s) * w, 1)
  PROVE  LET c == Combined(Evens(a), s, Odds(a), y)
             v == Times(w, w)
         IN  /\ WeightedInner(c, c, v) \in Scalars /\ WeightedInner(a, a, w) \in Scalars
             /\ WeightedInner(Evens(a), Odds(a), v) \in Scalars
             /\ WeightedInner(Odds(a), Odds(a), v) \in Scalars
             /\ Same(WeightedInner(c, c, v),
                     Round(WeightedInner(a, a, w), WeightedInner(Evens(a), Odds(a), v),
                           WeightedInner(Evens(a), Odds(a), v), WeightedInner(Odds(a), Odds(a), v),
                           s, s, y))
<1> DEFINE c == Combined(Evens(a), s, Odds(a), y)
           v == Times(w, w)
           m == Len(a)
           W == Powers(w, 2 * m)
           q == Powers(v, m)
           A == Wide(a, 2 * m)
           C == Wide(c, m)
<1>1. m \in Nat /\ 2 * m \in Nat /\ Len(a) <= 2 * m /\ v \in Int
  <2>1. m \in Nat /\ 2 * m \in Nat /\ Len(a) <= 2 * m
    OBVIOUS
  <2>2. v \in Int
    BY ScalarNumbers, SameOperations
  <2> QED BY <2>1, <2>2
<1>2. c \in Seq(Int)
  BY CombinedTyped
<1>3. \A i \in 1 .. m : Same(C[i], s * A[2 * i - 1] + y * A[2 * i])
  BY <1>1, WideCombined
<1>5. Len(c) <= m
  <2>1. PICK k \in Nat : k = Len(a)
    OBVIOUS
  <2>2. Len(c) = (k + 1) \div 2
    BY <2>1, CombinedTyped
  <2>3. (k + 1) \div 2 <= k
    BY <2>1
  <2> QED BY <2>1, <2>2, <2>3
<1>8. /\ Firsts(A, m) = Wide(Evens(a), m) /\ Seconds(A, m) = Wide(Odds(a), m)
      /\ Len(Evens(a)) <= m /\ Len(Odds(a)) <= m
  BY <1>1, WideHalves
<1>9. Evens(a) \in Seq(Int) /\ Odds(a) \in Seq(Int)
  BY HalvesOf
<1>10. /\ q \in [1 .. m -> Int] /\ WeightedInner(c, c, v) \in Scalars
       /\ Same(WeightedInner(c, c, v), Form(q, C, C, m))
  <2> HIDE DEF c, v, m
  <2> QED BY <1>1, <1>2, <1>5, WeightedInnerIs
<1>11. /\ W \in [1 .. 2 * m -> Int] /\ WeightedInner(a, a, w) \in Scalars
       /\ Same(WeightedInner(a, a, w), Form(W, A, A, 2 * m))
  <2> HIDE DEF v, m
  <2> QED BY <1>1, WeightedInnerIs
<1>12. /\ WeightedInner(Evens(a), Odds(a), v) \in Scalars
       /\ Same(WeightedInner(Evens(a), Odds(a), v), Form(q, Firsts(A, m), Seconds(A, m), m))
       /\ WeightedInner(Odds(a), Odds(a), v) \in Scalars
       /\ Same(WeightedInner(Odds(a), Odds(a), v), Form(q, Seconds(A, m), Seconds(A, m), m))
  <2> HIDE DEF m, A, v
  <2> QED BY <1>1, <1>8, <1>9, WeightedInnerIs
<1>6. A \in [1 .. 2 * m -> Int] /\ C \in [1 .. m -> Int]
  <2>1. A \in [1 .. 2 * m -> Int]
    BY <1>1, WideTyped
  <2>2. C \in [1 .. m -> Int]
    BY <1>1, <1>2, WideTyped
  <2> QED BY <2>1, <2>2
<1>7. FoldsTo(q, C, C, m, W, A, A, s, s, y)
  <2>1. ASSUME NEW i \in 1 .. m
        PROVE  Same(q[i], W[2 * i]) /\ Same(q[i] * (s * s), W[2 * i - 1])
    <3>1. 2 * i \in 1 .. 2 * m /\ 2 * i - 1 \in 1 .. 2 * m
      BY <1>1
    <3>2. PICK e \in Int, f \in Int, g \in Int, r \in Int :
            e = q[i] /\ f = W[2 * i] /\ g = W[2 * i - 1] /\ r = s * s
      <4>1. q[i] \in Int /\ W[2 * i] \in Int /\ W[2 * i - 1] \in Int
        <5> HIDE DEF q, W, m
        <5> QED BY <1>10, <1>11, <3>1
      <4>2. s * s \in Int
        OBVIOUS
      <4> QED BY ONLY <4>1, <4>2
    <3>3. Same(e, f) /\ Same(f, g * w)
      BY <1>1, <3>2, PowersHalve
    <3>4. PICK h \in Int : h = g * w
      OBVIOUS
    <3>5. Same(r, r) /\ Same(e, h)
      BY <3>3, <3>4, SameIsEquivalence
    <3>6. Same(e * r, h * r)
      BY <3>5, SameArithmetic
    <3>7. PICK k \in Int : k = r * w /\ h * r = g * k
      <4>1. h * r = g * (r * w)
        BY <3>4
      <4> QED BY <4>1
    <3>8. Same(k, 1) /\ Same(g, g)
      BY <3>2, <3>7, SameIsEquivalence
    <3>9. Same(g * k, g * 1)
      <4>1. 1 \in Int
        OBVIOUS
      <4> QED BY <3>8, <4>1, SameArithmetic
    <3>10. PICK x \in Int, z \in Int : x = e * r /\ z = g * k
      OBVIOUS
    <3>11. Same(x, z) /\ Same(z, g)
      <4>1. g * 1 = g
        OBVIOUS
      <4> QED BY <3>6, <3>7, <3>9, <3>10, <4>1
    <3>12. Same(x, g)
      BY <3>11, SameIsEquivalence
    <3> QED BY <3>2, <3>3, <3>10, <3>12
  <2> HIDE DEF q, W, A, C, m
  <2> QED BY <1>3, <2>1 DEF FoldsTo
<1> HIDE DEF c, m, W, q, A, C, v
<1>13. PICK O \in Int, P \in Int, Q \in Int, Z \in Int, R \in Int :
         /\ O = Form(W, A, A, 2 * m) /\ P = Form(q, Firsts(A, m), Seconds(A, m), m)
         /\ Q = Form(q, Seconds(A, m), Firsts(A, m), m) /\ Z = Form(q, Seconds(A, m), Seconds(A, m), m)
         /\ R = Form(q, C, C, m)
         /\ Same(R, Round(O, P, Q, Z, s, s, y))
  <2>1. /\ Form(q, Firsts(A, m), Seconds(A, m), m) \in Int
        /\ Form(q, Seconds(A, m), Firsts(A, m), m) \in Int
        /\ Form(q, Seconds(A, m), Seconds(A, m), m) \in Int
        /\ Form(q, C, C, m) \in Int /\ Form(W, A, A, 2 * m) \in Int
    BY <1>1, <1>6, <1>7, <1>10, <1>11, FormFolds
  <2>2. Same(Form(q, C, C, m),
             Round(Form(W, A, A, 2 * m), Form(q, Firsts(A, m), Seconds(A, m), m),
                   Form(q, Seconds(A, m), Firsts(A, m), m), Form(q, Seconds(A, m), Seconds(A, m), m),
                   s, s, y))
    BY <1>1, <1>6, <1>7, <1>10, <1>11, FormFolds DEF Round
  <2> QED BY ONLY <2>1, <2>2
<1>14. P = Q
  <2>1. \A i \in 1 .. m : Firsts(A, m)[i] \in Int /\ Seconds(A, m)[i] \in Int
    <3>1. Firsts(A, m) \in [1 .. m -> Int] /\ Seconds(A, m) \in [1 .. m -> Int]
      BY <1>1, <1>6, HalvesTyped
    <3> QED BY <3>1
  <2>2. \A i \in 1 .. m : Firsts(A, m)[i] * Seconds(A, m)[i] = Seconds(A, m)[i] * Firsts(A, m)[i]
    BY <2>1
  <2>3. Products(q, Firsts(A, m), Seconds(A, m), m) = Products(q, Seconds(A, m), Firsts(A, m), m)
    BY <2>2 DEF Products
  <2> QED BY <1>13, <2>3 DEF Form
<1>15. PICK o \in Int, p \in Int, z \in Int, t \in Int :
         /\ o = WeightedInner(a, a, w) /\ p = WeightedInner(Evens(a), Odds(a), v)
         /\ z = WeightedInner(Odds(a), Odds(a), v) /\ t = WeightedInner(c, c, v)
  BY <1>10, <1>11, <1>12, ScalarNumbers
<1>16. Same(o, O) /\ Same(p, P) /\ Same(p, Q) /\ Same(z, Z) /\ Same(t, R)
  BY <1>10, <1>11, <1>12, <1>13, <1>14, <1>15
<1>17. PICK x \in Int, X \in Int :
         /\ x = Round(o, p, p, z, s, s, y) /\ X = Round(O, P, Q, Z, s, s, y)
         /\ Same(x, X)
  <2>1. /\ Round(o, p, p, z, s, s, y) \in Int /\ Round(O, P, Q, Z, s, s, y) \in Int
        /\ Same(Round(o, p, p, z, s, s, y), Round(O, P, Q, Z, s, s, y))
    BY <1>16, RoundForm
  <2> QED BY ONLY <2>1
<1>18. Same(R, X)
  BY <1>13, <1>17
<1>19. Same(t, x)
  <2>1. Same(X, x) /\ Same(t, X)
    BY <1>16, <1>17, <1>18, SameIsEquivalence, ZenonT(60)
  <2> QED BY <2>1, SameIsEquivalence, ZenonT(60)
<1> QED BY <1>10, <1>11, <1>12, <1>15, <1>17, <1>19 DEF c, v

----------------------------------------------------------------------------
(* The rounds of the norm argument.                                        *)

LEMMA RoundsAdd ==
  ASSUME NEW y \in Int, NEW k \in Int,
         NEW o1 \in Int, NEW o2 \in Int, NEW b1 \in Int, NEW b2 \in Int,
         NEW z1 \in Int, NEW z2 \in Int, NEW t1 \in Int, NEW t2 \in Int,
         Same(t1, (o1 + y * b1) + k * z1), Same(t2, (o2 + y * b2) + k * z2)
  PROVE  Same(t1 + t2, ((o1 + o2) + y * (b1 + b2)) + k * (z1 + z2))
<1>1. PICK r1 \in Int, r2 \in Int : r1 = (o1 + y * b1) + k * z1 /\ r2 = (o2 + y * b2) + k * z2
  OBVIOUS
<1>2. Same(t1 + t2, r1 + r2)
  BY <1>1, SameArithmetic
<1>3. r1 + r2 = ((o1 + o2) + y * (b1 + b2)) + k * (z1 + z2)
  BY <1>1
<1> QED BY <1>2, <1>3

LEMMA PlusFour ==
  ASSUME NEW a \in Int, NEW b \in Int, NEW c \in Int, NEW d \in Int,
         NEW A \in Int, NEW B \in Int, NEW C \in Int, NEW D \in Int,
         Same(a, A), Same(b, B), Same(c, C), Same(d, D)
  PROVE  /\ Plus(Plus(a, b), Plus(c, d)) \in Scalars
         /\ Same(Plus(Plus(a, b), Plus(c, d)), (A + B) + (C + D))
<1>1. PICK e \in Int, f \in Int, E \in Int, F \in Int :
        /\ e = Plus(a, b) /\ f = Plus(c, d) /\ E = A + B /\ F = C + D
        /\ Same(e, E) /\ Same(f, F)
  <2>1. Plus(a, b) \in Int /\ Same(Plus(a, b), A + B) /\ Plus(c, d) \in Int /\ Same(Plus(c, d), C + D)
    BY SameThrough
  <2> QED BY <2>1
<1>2. Plus(e, f) \in Scalars
  BY SameOperations
<1>3. Same(Plus(e, f), E + F)
  BY <1>1, SameThrough
<1> QED BY <1>1, <1>2, <1>3

NormTyped ==
  /\ lVec \in Seq(Scalars) /\ nVec \in Seq(Scalars)
  /\ gVec \in Seq(Scalars) /\ hVec \in Seq(Scalars) /\ cVec \in Seq(Scalars)
  /\ normRho \in Scalars /\ normRho # 0 /\ normMu = Times(normRho, normRho)
  /\ normCom \in Scalars /\ offset \in Scalars

\* What the four products of the commitment come to, as integers.
LEMMA CommitIs ==
  ASSUME NEW gs \in Seq(Int), NEW hs \in Seq(Int), NEW cs \in Seq(Int), NEW weight \in Int,
         NEW ls \in Seq(Int), NEW ns \in Seq(Int)
  PROVE  /\ Inner(cs, ls) \in Scalars /\ WeightedInner(ns, ns, weight) \in Scalars
         /\ Inner(hs, ls) \in Scalars /\ Inner(gs, ns) \in Scalars
         /\ NormCommit(gs, hs, cs, weight, ls, ns) \in Scalars
         /\ Same(NormCommit(gs, hs, cs, weight, ls, ns),
                 (Inner(cs, ls) + WeightedInner(ns, ns, weight)) + (Inner(hs, ls) + Inner(gs, ns)))
<1>1. \A a, b \in Seq(Int) : Inner(a, b) \in Scalars
  <2>1. TAKE a, b \in Seq(Int)
  <2>2. Len(a) + Len(b) \in Nat /\ Len(a) <= Len(a) + Len(b) /\ Len(b) <= Len(a) + Len(b)
    OBVIOUS
  <2> QED BY <2>2, InnerIs
<1>2. WeightedInner(ns, ns, weight) \in Scalars
  <2>1. Len(ns) \in Nat /\ Len(ns) <= Len(ns)
    OBVIOUS
  <2> QED BY <2>1, WeightedInnerIs
<1>3. PICK a \in Int, b \in Int, c \in Int, d \in Int :
        /\ a = Inner(cs, ls) /\ b = WeightedInner(ns, ns, weight)
        /\ c = Inner(hs, ls) /\ d = Inner(gs, ns)
  BY <1>1, <1>2, ScalarNumbers
<1>4. Same(a, a) /\ Same(b, b) /\ Same(c, c) /\ Same(d, d)
  BY SameIsEquivalence
<1>5. /\ Plus(Plus(a, b), Plus(c, d)) \in Scalars
      /\ Same(Plus(Plus(a, b), Plus(c, d)), (a + b) + (c + d))
  BY <1>4, PlusFour
<1> QED BY <1>1, <1>2, <1>3, <1>5 DEF NormCommit

\* A round adds the flights that the challenge weighs.
LEMMA RoundCommits ==
  ASSUME NormTyped, NEW y \in Scalars
  PROVE  LET h == Combined(Evens(hVec), 1, Odds(hVec), y)
             g == Combined(Evens(gVec), normRho, Odds(gVec), y)
             c == Combined(Evens(cVec), 1, Odds(cVec), y)
             l == Combined(Evens(lVec), 1, Odds(lVec), y)
             n == Combined(Evens(nVec), Inverted(normRho), Odds(nVec), y)
         IN  /\ FlightX \in Scalars /\ FlightR \in Scalars
             /\ NormCommit(gVec, hVec, cVec, normMu, lVec, nVec) \in Scalars
             /\ NormCommit(g, h, c, Times(normMu, normMu), l, n) \in Scalars
             /\ Same(NormCommit(g, h, c, Times(normMu, normMu), l, n),
                     NormCommit(gVec, hVec, cVec, normMu, lVec, nVec)
                       + (y * FlightX + (y * y - 1) * FlightR))
<1> DEFINE h == Combined(Evens(hVec), 1, Odds(hVec), y)
           g == Combined(Evens(gVec), normRho, Odds(gVec), y)
           c == Combined(Evens(cVec), 1, Odds(cVec), y)
           l == Combined(Evens(lVec), 1, Odds(lVec), y)
           n == Combined(Evens(nVec), Inverted(normRho), Odds(nVec), y)
           v == Times(normMu, normMu)
<1>1. /\ lVec \in Seq(Int) /\ nVec \in Seq(Int) /\ gVec \in Seq(Int) /\ hVec \in Seq(Int)
      /\ cVec \in Seq(Int) /\ y \in Int /\ 1 \in Int
  <2>1. ASSUME NEW x \in Seq(Scalars) PROVE x \in Seq(Int)
    <3>2. x \in [1 .. Len(x) -> Scalars] /\ Scalars \subseteq Int
      BY ScalarNumbers
    <3>1. x \in [1 .. Len(x) -> Int]
      BY <3>2
    <3> QED BY <3>1
  <2> QED BY <2>1, ScalarNumbers DEF NormTyped
<1>2. PICK r \in Int, s \in Int, w \in Int :
        /\ r = normRho /\ s = Inverted(normRho) /\ w = normMu
        /\ Same(r * s, 1) /\ Same((s * s) * w, 1)
  <2>1. normRho \in Scalars /\ normRho # 0
    BY DEF NormTyped
  <2>2. PICK r \in Int, s \in Int : r = normRho /\ s = Inverted(normRho) /\ Times(r, s) = 1
    BY <2>1, InverseIs, ScalarNumbers
  <2>3. PICK w \in Int : w = Times(r, r) /\ w = normMu
    BY <2>2, SameOperations, ScalarNumbers DEF NormTyped
  <2>4. Same(r * s, 1)
    <3>1. PICK p \in Int, o \in Int : p = r * s /\ o = 1
      OBVIOUS
    <3>2. Same(Times(r, s), p)
      BY <3>1, SameOperations
    <3> QED BY <2>2, <3>1, <3>2, SameIsEquivalence
  <2>5. Same((s * s) * w, 1)
    <3>1. PICK p \in Int, q \in Int, o \in Int, x \in Int : p = s * s /\ q = r * r /\ o = 1 /\ x = r * s
      OBVIOUS
    <3>2. Same(w, q) /\ Same(p, p)
      BY <2>3, <3>1, SameOperations, SameIsEquivalence, ZenonT(60)
    <3>3. Same(p * w, p * q)
      BY <3>2, SameArithmetic
    <3>4. p * q = x * x
      <4>1. (s * s) * (r * r) = (r * s) * (r * s)
        OBVIOUS
      <4> QED BY <3>1, <4>1
    <3>5. Same(x * x, o * o)
      BY <2>4, <3>1, SameArithmetic
    <3>6. PICK a \in Int, b \in Int : a = p * w /\ b = p * q
      OBVIOUS
    <3>7. Same(a, b) /\ Same(b, o)
      <4>1. o * o = o
        BY <3>1
      <4> QED BY <3>3, <3>4, <3>5, <3>6, <4>1
    <3> QED BY <3>1, <3>6, <3>7, SameIsEquivalence
  <2> QED BY <2>2, <2>3, <2>4, <2>5
<1>3. Same(1 * 1, 1)
  <2>1. 1 * 1 = 1
    OBVIOUS
  <2> QED BY <2>1, SameIsEquivalence
<1>4. v \in Int
  <2>1. v \in Scalars
    BY <1>2, SameOperations
  <2> QED BY <2>1, ScalarNumbers
<1>5. l \in Seq(Int) /\ n \in Seq(Int) /\ g \in Seq(Int) /\ h \in Seq(Int) /\ c \in Seq(Int)
  BY <1>1, <1>2, CombinedTyped
<1>6. /\ Evens(lVec) \in Seq(Int) /\ Odds(lVec) \in Seq(Int)
      /\ Evens(nVec) \in Seq(Int) /\ Odds(nVec) \in Seq(Int)
      /\ Evens(gVec) \in Seq(Int) /\ Odds(gVec) \in Seq(Int)
  BY <1>1, HalvesOf
\* The four products, folded.
<1>7. PICK o1 \in Int, p1 \in Int, q1 \in Int, z1 \in Int, t1 \in Int :
        /\ o1 = Inner(cVec, lVec) /\ p1 = Inner(Evens(cVec), Odds(lVec))
        /\ q1 = Inner(Odds(cVec), Evens(lVec)) /\ z1 = Inner(Odds(cVec), Odds(lVec)) /\ t1 = Inner(c, l)
        /\ Same(t1, Round(o1, p1, q1, z1, 1, 1, y))
  <2>1. /\ Inner(c, l) \in Scalars /\ Inner(cVec, lVec) \in Scalars
        /\ Inner(Evens(cVec), Odds(lVec)) \in Scalars /\ Inner(Odds(cVec), Evens(lVec)) \in Scalars
        /\ Inner(Odds(cVec), Odds(lVec)) \in Scalars
        /\ Same(Inner(c, l), Round(Inner(cVec, lVec), Inner(Evens(cVec), Odds(lVec)),
                                   Inner(Odds(cVec), Evens(lVec)), Inner(Odds(cVec), Odds(lVec)), 1, 1, y))
    BY <1>1, <1>3, InnerFolds
  <2> HIDE DEF c, l
  <2> QED BY <2>1, ScalarNumbers
<1>8. PICK o2 \in Int, p2 \in Int, z2 \in Int, t2 \in Int :
        /\ o2 = WeightedInner(nVec, nVec, normMu) /\ p2 = WeightedInner(Evens(nVec), Odds(nVec), v)
        /\ z2 = WeightedInner(Odds(nVec), Odds(nVec), v) /\ t2 = WeightedInner(n, n, v)
        /\ Same(t2, Round(o2, p2, p2, z2, s, s, y))
  <2>1. /\ WeightedInner(n, n, v) \in Scalars /\ WeightedInner(nVec, nVec, normMu) \in Scalars
        /\ WeightedInner(Evens(nVec), Odds(nVec), v) \in Scalars
        /\ WeightedInner(Odds(nVec), Odds(nVec), v) \in Scalars
        /\ Same(WeightedInner(n, n, v),
                Round(WeightedInner(nVec, nVec, normMu), WeightedInner(Evens(nVec), Odds(nVec), v),
                      WeightedInner(Evens(nVec), Odds(nVec), v), WeightedInner(Odds(nVec), Odds(nVec), v),
                      s, s, y))
    BY <1>1, <1>2, WeightedFolds
  <2> HIDE DEF n, v
  <2> QED BY <2>1, ScalarNumbers
<1>9. PICK o3 \in Int, p3 \in Int, q3 \in Int, z3 \in Int, t3 \in Int :
        /\ o3 = Inner(hVec, lVec) /\ p3 = Inner(Evens(hVec), Odds(lVec))
        /\ q3 = Inner(Odds(hVec), Evens(lVec)) /\ z3 = Inner(Odds(hVec), Odds(lVec)) /\ t3 = Inner(h, l)
        /\ Same(t3, Round(o3, p3, q3, z3, 1, 1, y))
  <2>1. /\ Inner(h, l) \in Scalars /\ Inner(hVec, lVec) \in Scalars
        /\ Inner(Evens(hVec), Odds(lVec)) \in Scalars /\ Inner(Odds(hVec), Evens(lVec)) \in Scalars
        /\ Inner(Odds(hVec), Odds(lVec)) \in Scalars
        /\ Same(Inner(h, l), Round(Inner(hVec, lVec), Inner(Evens(hVec), Odds(lVec)),
                                   Inner(Odds(hVec), Evens(lVec)), Inner(Odds(hVec), Odds(lVec)), 1, 1, y))
    BY <1>1, <1>3, InnerFolds
  <2> HIDE DEF h, l
  <2> QED BY <2>1, ScalarNumbers
<1>10. PICK o4 \in Int, p4 \in Int, q4 \in Int, z4 \in Int, t4 \in Int :
         /\ o4 = Inner(gVec, nVec) /\ p4 = Inner(Evens(gVec), Odds(nVec))
         /\ q4 = Inner(Odds(gVec), Evens(nVec)) /\ z4 = Inner(Odds(gVec), Odds(nVec)) /\ t4 = Inner(g, n)
         /\ Same(t4, Round(o4, p4, q4, z4, r, s, y))
  <2>1. /\ Inner(g, n) \in Scalars /\ Inner(gVec, nVec) \in Scalars
        /\ Inner(Evens(gVec), Odds(nVec)) \in Scalars /\ Inner(Odds(gVec), Evens(nVec)) \in Scalars
        /\ Inner(Odds(gVec), Odds(nVec)) \in Scalars
        /\ Same(Inner(g, n), Round(Inner(gVec, nVec), Inner(Evens(gVec), Odds(nVec)),
                                   Inner(Odds(gVec), Evens(nVec)), Inner(Odds(gVec), Odds(nVec)), r, s, y))
    BY <1>1, <1>2, InnerFolds
  <2> HIDE DEF g, n
  <2> QED BY <2>1, ScalarNumbers
\* The flights and the commitments in these terms.
<1>11. PICK b1 \in Int, b2 \in Int, b3 \in Int, b4 \in Int, k \in Int :
         /\ b1 = 1 * p1 + 1 * q1 /\ b2 = s * p2 + s * p2 /\ b3 = 1 * p3 + 1 * q3
         /\ b4 = r * p4 + s * q4 /\ k = y * y - 1
  <2>1. /\ 1 * p1 + 1 * q1 \in Int /\ s * p2 + s * p2 \in Int /\ 1 * p3 + 1 * q3 \in Int
        /\ r * p4 + s * q4 \in Int /\ y * y - 1 \in Int
    BY <1>1
  <2> QED BY ONLY <2>1
<1>12. FlightX \in Scalars /\ Same(FlightX, (b2 + b1) + (b3 + b4))
  <2>1. PICK x1 \in Int : x1 = Plus(p1, q1) /\ Same(x1, b1)
    <3>1. Plus(p1, q1) \in Scalars /\ Same(Plus(p1, q1), p1 + q1)
      BY SameOperations
    <3>2. b1 = p1 + q1
      BY <1>11
    <3> QED BY <3>1, <3>2, ScalarNumbers
  <2>2. PICK x2 \in Int : x2 = Times(2, Times(s, p2)) /\ Same(x2, b2)
    <3>1. PICK e \in Int, o \in Int, f \in Int : e = Times(s, p2) /\ o = 2 /\ f = s * p2 /\ Same(e, f)
      <4>1. Times(s, p2) \in Scalars /\ Same(Times(s, p2), s * p2)
        BY SameOperations
      <4>2. s * p2 \in Int
        OBVIOUS
      <4>3. Times(s, p2) \in Int
        BY <4>1, ScalarNumbers
      <4>4. 2 \in Int
        OBVIOUS
      <4> QED BY ONLY <4>1, <4>2, <4>3, <4>4
    <3>2. Same(o, o)
      BY SameIsEquivalence
    <3>3. Times(o, e) \in Int /\ Same(Times(o, e), o * f)
      BY <3>1, <3>2, SameThrough
    <3>4. b2 = o * f
      BY <1>11, <3>1
    <3> QED BY <3>1, <3>3, <3>4
  <2>3. PICK x3 \in Int : x3 = Plus(p3, q3) /\ Same(x3, b3)
    <3>1. Plus(p3, q3) \in Scalars /\ Same(Plus(p3, q3), p3 + q3)
      BY SameOperations
    <3>2. b3 = p3 + q3
      BY <1>11
    <3> QED BY <3>1, <3>2, ScalarNumbers
  <2>4. PICK x4 \in Int : /\ x4 = Plus(Inner(Evens(gVec), Scaled(normRho, Odds(nVec))),
                                       Inner(Odds(gVec), Scaled(Inverted(normRho), Evens(nVec))))
                          /\ Same(x4, b4)
    <3>1. PICK e \in Int, f \in Int, E \in Int, F \in Int :
            /\ e = Inner(Evens(gVec), Scaled(normRho, Odds(nVec)))
            /\ f = Inner(Odds(gVec), Scaled(Inverted(normRho), Evens(nVec)))
            /\ E = r * p4 /\ F = s * q4 /\ Same(e, E) /\ Same(f, F)
      <4>1. /\ Inner(Evens(gVec), Scaled(r, Odds(nVec))) \in Scalars
            /\ Same(Inner(Evens(gVec), Scaled(r, Odds(nVec))), r * Inner(Evens(gVec), Odds(nVec)))
        BY <1>6, InnerScaled
      <4>2. /\ Inner(Odds(gVec), Scaled(s, Evens(nVec))) \in Scalars
            /\ Same(Inner(Odds(gVec), Scaled(s, Evens(nVec))), s * Inner(Odds(gVec), Evens(nVec)))
        BY <1>6, InnerScaled
      <4>3. r * p4 \in Int /\ s * q4 \in Int
        OBVIOUS
      <4> QED BY <1>2, <1>10, <4>1, <4>2, <4>3, ScalarNumbers
    <3>2. Plus(e, f) \in Int /\ Same(Plus(e, f), E + F)
      BY <3>1, SameThrough
    <3>3. E + F = b4
      BY <1>11, <3>1
    <3> QED BY <3>1, <3>2, <3>3
  <2>5. FlightX = Plus(Plus(x2, x1), Plus(x3, x4))
    BY <1>2, <1>7, <1>8, <1>9, <2>1, <2>2, <2>3, <2>4 DEF FlightX
  <2> QED BY <2>1, <2>2, <2>3, <2>4, <2>5, PlusFour
<1>13. FlightR \in Scalars /\ Same(FlightR, (z2 + z1) + (z3 + z4))
  <2>1. Same(z1, z1) /\ Same(z2, z2) /\ Same(z3, z3) /\ Same(z4, z4)
    BY SameIsEquivalence
  <2>2. FlightR = Plus(Plus(z2, z1), Plus(z3, z4))
    BY <1>7, <1>8, <1>9, <1>10 DEF FlightR
  <2> QED BY <2>1, <2>2, PlusFour
<1>14. /\ NormCommit(gVec, hVec, cVec, normMu, lVec, nVec) \in Scalars
       /\ Same(NormCommit(gVec, hVec, cVec, normMu, lVec, nVec), (o1 + o2) + (o3 + o4))
  BY <1>1, <1>2, <1>7, <1>8, <1>9, <1>10, CommitIs
<1>15. NormCommit(g, h, c, v, l, n) \in Scalars
       /\ Same(NormCommit(g, h, c, v, l, n), (t1 + t2) + (t3 + t4))
  <2> HIDE DEF g, h, c, v, l, n
  <2> QED BY <1>4, <1>5, <1>7, <1>8, <1>9, <1>10, CommitIs
<1> HIDE DEF g, h, c, v, l, n
<1>16. PICK C \in Int, N \in Int, X \in Int, R \in Int, O \in Int, B \in Int, Z \in Int, T \in Int :
         /\ C = NormCommit(gVec, hVec, cVec, normMu, lVec, nVec)
         /\ N = NormCommit(g, h, c, v, l, n) /\ X = FlightX /\ R = FlightR
         /\ O = (o1 + o2) + (o3 + o4) /\ B = (b2 + b1) + (b3 + b4)
         /\ Z = (z2 + z1) + (z3 + z4) /\ T = (t1 + t2) + (t3 + t4)
         /\ Same(C, O) /\ Same(N, T) /\ Same(X, B) /\ Same(R, Z)
  <2>1. /\ (o1 + o2) + (o3 + o4) \in Int /\ (b2 + b1) + (b3 + b4) \in Int
        /\ (z2 + z1) + (z3 + z4) \in Int /\ (t1 + t2) + (t3 + t4) \in Int
    OBVIOUS
  <2> QED BY <1>12, <1>13, <1>14, <1>15, <2>1, ScalarNumbers
<1>17. Same(T, O + (y * B + k * Z))
  <2>1. /\ Same(t1, (o1 + y * b1) + k * z1) /\ Same(t2, (o2 + y * b2) + k * z2)
        /\ Same(t3, (o3 + y * b3) + k * z3) /\ Same(t4, (o4 + y * b4) + k * z4)
    BY <1>7, <1>8, <1>9, <1>10, <1>11 DEF Round
  <2>2. PICK o5 \in Int, b5 \in Int, z5 \in Int, t5 \in Int :
          /\ o5 = o2 + o1 /\ b5 = b2 + b1 /\ z5 = z2 + z1 /\ t5 = t2 + t1
          /\ Same(t5, (o5 + y * b5) + k * z5)
    <3>1. Same(t2 + t1, ((o2 + o1) + y * (b2 + b1)) + k * (z2 + z1))
      BY <1>1, <2>1, RoundsAdd, ZenonT(60)
    <3>2. o2 + o1 \in Int /\ b2 + b1 \in Int /\ z2 + z1 \in Int /\ t2 + t1 \in Int
      OBVIOUS
    <3> QED BY ONLY <3>1, <3>2
  <2>3. PICK o6 \in Int, b6 \in Int, z6 \in Int, t6 \in Int :
          /\ o6 = o3 + o4 /\ b6 = b3 + b4 /\ z6 = z3 + z4 /\ t6 = t3 + t4
          /\ Same(t6, (o6 + y * b6) + k * z6)
    <3>1. Same(t3 + t4, ((o3 + o4) + y * (b3 + b4)) + k * (z3 + z4))
      BY <1>1, <2>1, RoundsAdd, ZenonT(60)
    <3>2. o3 + o4 \in Int /\ b3 + b4 \in Int /\ z3 + z4 \in Int /\ t3 + t4 \in Int
      OBVIOUS
    <3> QED BY ONLY <3>1, <3>2
  <2>4. Same(t5 + t6, ((o5 + o6) + y * (b5 + b6)) + k * (z5 + z6))
    BY <1>1, <2>2, <2>3, RoundsAdd, ZenonT(60)
  <2>5. t5 + t6 = T /\ o5 + o6 = O /\ b5 + b6 = B /\ z5 + z6 = Z
    BY <1>16, <2>2, <2>3
  <2>6. (O + y * B) + k * Z = O + (y * B + k * Z)
    BY <1>1
  <2> QED BY <2>4, <2>5, <2>6
<1>18. Same(N, C + (y * X + k * R))
  <2>1. Same(y, y) /\ Same(k, k)
    BY <1>1, SameIsEquivalence
  <2>2. Same(y * X, y * B) /\ Same(k * R, k * Z)
    BY <1>1, <1>16, <2>1, SameArithmetic
  <2>3. PICK e \in Int, f \in Int, E \in Int, F \in Int : e = y * X /\ f = k * R /\ E = y * B /\ F = k * Z
    BY <1>1
  <2>4. Same(e + f, E + F)
    BY <2>2, <2>3, SameArithmetic
  <2>5. PICK a \in Int, A \in Int : a = e + f /\ A = E + F
    OBVIOUS
  <2>6. Same(C + a, O + A)
    BY <1>16, <2>4, <2>5, SameArithmetic
  <2>7. PICK d \in Int, D \in Int : d = C + a /\ D = O + A
    OBVIOUS
  <2>8. Same(D, d) /\ Same(T, D) /\ Same(N, T)
    <3>1. Same(d, D) /\ Same(T, D)
      BY <1>17, <2>3, <2>5, <2>6, <2>7
    <3> QED BY <1>16, <3>1, SameIsEquivalence
  <2>9. Same(N, d)
    <3>1. Same(T, d)
      BY <2>8, SameIsEquivalence
    <3> QED BY <2>8, <3>1, SameIsEquivalence
  <2> QED BY <2>3, <2>5, <2>7, <2>9
<1> QED BY <1>11, <1>12, <1>13, <1>14, <1>15, <1>16, <1>18 DEF g, h, c, v, l, n

----------------------------------------------------------------------------
(* How many rounds there are.                                              *)

HalvesUp(h, n, x) == h = [k \in 0 .. n |-> IF k = 0 THEN x ELSE (h[k - 1] + 1) \div 2]

LEMMA HalvingExists ==
  ASSUME NEW n \in Nat, NEW x \in Nat
  PROVE  /\ \E h : HalvesUp(h, n, x)
         /\ \A h : HalvesUp(h, n, x) => /\ h[0] = x /\ \A k \in 0 .. n : h[k] \in Nat
                                        /\ \A k \in 1 .. n : h[k] = (h[k - 1] + 1) \div 2
<1> DEFINE step == [k \in 1 .. n |-> [z \in Int |-> (z + 1) \div 2]]
<1>1. \E h : HalvesUp(h, n, x)
  <2>1. Steps(n, step)
    BY DEF Steps
  <2> HIDE DEF step
  <2>2. PICK h : Solves(h, n, x, step)
    BY <2>1, Recursion
  <2> USE DEF Solves
  <2>3. \A k \in 1 .. n : h[k - 1] \in Int
    BY <2>2
  <2>4. \A k \in 1 .. n : step[k][h[k - 1]] = (h[k - 1] + 1) \div 2
    BY <2>3 DEF step
  <2>5. HalvesUp(h, n, x)
    BY <2>2, <2>4 DEF HalvesUp
  <2> QED BY <2>5
<1>2. ASSUME NEW h, HalvesUp(h, n, x)
      PROVE  /\ h[0] = x /\ \A k \in 0 .. n : h[k] \in Nat
             /\ \A k \in 1 .. n : h[k] = (h[k - 1] + 1) \div 2
  <2>1. h[0] = x
    BY <1>2 DEF HalvesUp
  <2>2. \A k \in 1 .. n : h[k] = (h[k - 1] + 1) \div 2
    BY <1>2 DEF HalvesUp
  <2> DEFINE T == {k \in Nat : h[k] \in Nat}
  <2>3. 0 \in T
    BY <2>1
  <2>4. ASSUME NEW k \in 0 .. n - 1, k \in T PROVE k + 1 \in T
    <3>1. h[k + 1] = (h[k] + 1) \div 2
      <4>1. k + 1 \in 1 .. n /\ (k + 1) - 1 = k
        OBVIOUS
      <4> HIDE DEF T
      <4> QED BY <2>2, <4>1
    <3>2. PICK z \in Nat : z = h[k]
      BY <2>4
    <3>3. (z + 1) \div 2 \in Nat
      OBVIOUS
    <3> QED BY <3>1, <3>2, <3>3
  <2>5. \A k \in 0 .. n : k \in T
    <3> HIDE DEF T
    <3> QED BY <2>3, <2>4, AllUpTo
  <2> QED BY <2>1, <2>2, <2>5
<1> QED BY <1>1, <1>2

LEMMA HalvedIs ==
  ASSUME NEW n \in Nat, NEW x \in Nat
  PROVE  /\ Halved(x, n) \in Nat /\ Halved(x, 0) = x
         /\ Halved(x, n + 1) = (Halved(x, n) + 1) \div 2
<1>1. ASSUME NEW m \in Nat PROVE \E h : HalvesUp(h, m, x) /\ Halved(x, m) = h[m]
  <2>1. Halved(x, m) = (CHOOSE h : HalvesUp(h, m, x))[m]
    BY DEF Halved, HalvesUp
  <2>2. HalvesUp(CHOOSE h : HalvesUp(h, m, x), m, x)
    BY HalvingExists
  <2> QED BY <2>1, <2>2
<1>2. PICK h : HalvesUp(h, n, x) /\ Halved(x, n) = h[n]
  BY <1>1
<1>3. PICK g : HalvesUp(g, n + 1, x) /\ Halved(x, n + 1) = g[n + 1]
  BY <1>1
<1>4. Halved(x, n) \in Nat /\ h[0] = x /\ \A k \in 1 .. n : h[k] = (h[k - 1] + 1) \div 2
  BY <1>2, HalvingExists
<1>5. g[0] = x /\ \A k \in 1 .. n + 1 : g[k] = (g[k - 1] + 1) \div 2
  BY <1>3, HalvingExists
<1>6. Halved(x, 0) = x
  <2>1. PICK f : HalvesUp(f, 0, x) /\ Halved(x, 0) = f[0]
    BY <1>1
  <2> QED BY <2>1, HalvingExists
<1> DEFINE T == {k \in Nat : g[k] = h[k]}
<1>7. 0 \in T
  BY <1>4, <1>5
<1>8. ASSUME NEW k \in 0 .. n - 1, k \in T PROVE k + 1 \in T
  <2>1. k + 1 \in 1 .. n /\ k + 1 \in 1 .. n + 1 /\ (k + 1) - 1 = k
    OBVIOUS
  <2>2. g[k + 1] = (g[k] + 1) \div 2 /\ h[k + 1] = (h[k] + 1) \div 2
    <3> HIDE DEF T
    <3> QED BY <1>4, <1>5, <2>1
  <2> QED BY <1>8, <2>2
<1>9. \A k \in 0 .. n : k \in T
  <2> HIDE DEF T
  <2> QED BY <1>7, <1>8, AllUpTo
<1>10. g[n] = h[n]
  BY <1>9
<1>11. g[n + 1] = (g[n] + 1) \div 2
  <2>1. n + 1 \in 1 .. n + 1 /\ (n + 1) - 1 = n
    OBVIOUS
  <2> HIDE DEF T
  <2> QED BY <1>5, <2>1
<1> QED BY <1>2, <1>3, <1>4, <1>6, <1>10, <1>11

\* How many entries there are after r rounds, and that the rounds end there.
Entries(r) == Halved(Len(HVec), r) + Halved(Len(GVec), r)
EndsAt(r) == Entries(r) < SmallEnough /\ \A q \in 0 .. r - 1 : Entries(q) >= SmallEnough

LEMMA EntriesFall ==
  ASSUME NEW r \in Nat
  PROVE  /\ Entries(r) \in Nat /\ Entries(0) = Len(HVec) + Len(GVec)
         /\ Entries(r) >= SmallEnough => Entries(r + 1) <= Entries(r) - 1
<1>1. PICK a \in Nat, b \in Nat : a = Len(HVec) /\ b = Len(GVec)
  BY NormAssumption
<1>2. PICK c \in Nat, d \in Nat, C \in Nat, D \in Nat :
        /\ c = Halved(a, r) /\ d = Halved(b, r) /\ C = Halved(a, r + 1) /\ D = Halved(b, r + 1)
        /\ C = (c + 1) \div 2 /\ D = (d + 1) \div 2
  <2>1. /\ Halved(a, r) \in Nat /\ Halved(b, r) \in Nat
        /\ Halved(a, r + 1) = (Halved(a, r) + 1) \div 2
        /\ Halved(b, r + 1) = (Halved(b, r) + 1) \div 2
    BY HalvedIs
  <2>2. \A z \in Nat : (z + 1) \div 2 \in Nat
    OBVIOUS
  <2> QED BY <2>1, <2>2
<1>3. Halved(a, 0) = a /\ Halved(b, 0) = b
  BY HalvedIs
<1>4. SmallEnough \in Nat /\ SmallEnough >= 4
  BY NormAssumption
<1>5. c + d >= 4 => C + D <= c + d - 1
  BY <1>2
<1>6. Entries(r) = c + d /\ Entries(r + 1) = C + D /\ Entries(0) = a + b
  BY <1>1, <1>2, <1>3 DEF Entries
<1>7. c + d >= SmallEnough => c + d >= 4
  BY <1>4
<1> QED BY <1>1, <1>5, <1>6, <1>7

\* The rounds end, at one place only, and the verifier expects them there.
LEMMA RoundsEnd ==
  /\ ExpectedRounds \in Nat /\ EndsAt(ExpectedRounds)
  /\ \A r \in Nat : EndsAt(r) => r = ExpectedRounds
<1> DEFINE N == Len(GVec) + Len(HVec)
           T == {r \in Nat : Entries(r) < SmallEnough}
<1>1. N \in Nat /\ SmallEnough \in Nat /\ SmallEnough >= 4 /\ Len(HVec) + Len(GVec) = N
  BY NormAssumption
<1>2. \A r \in Nat : Entries(r) \in Nat
  BY EntriesFall
<1>3. \E r \in 0 .. N : r \in T
  <2>1. SUFFICES ASSUME \A r \in 0 .. N : r \notin T PROVE FALSE
    OBVIOUS
  <2>2. \A r \in 0 .. N : Entries(r) >= SmallEnough
    BY <1>1, <1>2, <2>1
  <2> DEFINE U == {r \in Nat : Entries(r) + r <= N}
  <2>3. 0 \in U
    <3>1. Entries(0) = N
      BY <1>1, EntriesFall
    <3> QED BY <1>1, <3>1
  <2>4. ASSUME NEW r \in 0 .. N - 1, r \in U PROVE r + 1 \in U
    <3>1. r \in Nat /\ r + 1 \in Nat /\ r \in 0 .. N
      BY <1>1
    <3>2. Entries(r + 1) <= Entries(r) - 1
      <4>1. Entries(r) >= SmallEnough
        <5> HIDE DEF U
        <5> QED BY <2>2, <3>1
      <4> HIDE DEF U
      <4> QED BY <3>1, <4>1, EntriesFall
    <3>3. Entries(r) + r <= N
      BY <2>4
    <3>4. PICK e \in Nat, f \in Nat : e = Entries(r) /\ f = Entries(r + 1)
      <4> HIDE DEF U
      <4> QED BY <1>2, <3>1
    <3>5. f + (r + 1) <= N
      <4> HIDE DEF U, N
      <4> QED BY <1>1, <3>1, <3>2, <3>3, <3>4
    <3> QED BY <3>1, <3>4, <3>5
  <2>5. \A r \in 0 .. N : r \in U
    <3> HIDE DEF U, N
    <3> QED BY <1>1, <2>3, <2>4, AllUpTo
  <2>6. Entries(N) + N <= N /\ N \in 0 .. N
    <3>1. N \in 0 .. N
      BY <1>1
    <3> QED BY <2>5, <3>1
  <2>7. PICK e \in Nat : e = Entries(N) /\ e >= SmallEnough
    <3> HIDE DEF N, U
    <3> QED BY <1>1, <1>2, <2>2, <2>6
  <2> HIDE DEF N, U
  <2> QED BY <1>1, <2>6, <2>7
<1>4. PICK m \in T : \A r \in T : m <= r
  <2>1. T \subseteq Nat /\ T # {}
    BY <1>1, <1>3
  <2> HIDE DEF T
  <2> QED BY <2>1, NatLeast
<1>5. m \in 0 .. N /\ EndsAt(m)
  <2>1. m \in Nat /\ Entries(m) < SmallEnough
    BY <1>4
  <2>2. m <= N
    <3>1. PICK r \in 0 .. N : r \in T
      BY <1>3
    <3>2. m <= r
      <4> HIDE DEF T
      <4> QED BY <1>4, <3>1
    <3> HIDE DEF T, N
    <3> QED BY <1>1, <2>1, <3>2
  <2>3. ASSUME NEW q \in 0 .. m - 1 PROVE Entries(q) >= SmallEnough
    <3>1. q \in Nat /\ ~(m <= q)
      BY <2>1
    <3>2. q \notin T
      <4> HIDE DEF T
      <4> QED BY <1>4, <3>1
    <3>3. Entries(q) \in Nat /\ ~(Entries(q) < SmallEnough)
      BY <1>2, <3>1, <3>2
    <3> QED BY <1>1, <3>3
  <2> QED BY <1>1, <2>1, <2>2, <2>3 DEF EndsAt
<1>6. ExpectedRounds = CHOOSE r \in 0 .. N : EndsAt(r)
  BY DEF ExpectedRounds, EndsAt, Entries
<1>7. ExpectedRounds \in 0 .. N /\ EndsAt(ExpectedRounds)
  <2> HIDE DEF N
  <2> QED BY <1>5, <1>6
<1>8. ASSUME NEW r \in Nat, NEW q \in Nat, EndsAt(r), EndsAt(q) PROVE ~(q < r)
  <2>1. q < r => q \in 0 .. r - 1
    OBVIOUS
  <2>2. q < r => Entries(q) >= SmallEnough
    BY <1>8, <2>1 DEF EndsAt
  <2>3. Entries(q) < SmallEnough /\ Entries(q) \in Nat
    BY <1>2, <1>8 DEF EndsAt
  <2> QED BY <1>1, <2>2, <2>3
<1>9. ExpectedRounds \in Nat
  <2> HIDE DEF N
  <2> QED BY <1>1, <1>7
<1>10. ASSUME NEW r \in Nat, EndsAt(r) PROVE r = ExpectedRounds
  <2>1. ~(r < ExpectedRounds) /\ ~(ExpectedRounds < r)
    BY <1>7, <1>8, <1>9, <1>10
  <2> QED BY <1>9, <2>1
<1> QED BY <1>7, <1>9, <1>10

RoundsCounted ==
  /\ flights \in Seq(Scalars \X Scalars)
  /\ Len(lVec) = Halved(Len(HVec), Len(flights)) /\ Len(hVec) = Halved(Len(HVec), Len(flights))
  /\ Len(cVec) = Halved(Len(HVec), Len(flights))
  /\ Len(nVec) = Halved(Len(GVec), Len(flights)) /\ Len(gVec) = Halved(Len(GVec), Len(flights))
  /\ \A q \in 0 .. Len(flights) - 1 : Entries(q) >= SmallEnough

\* The inductive invariant: both sides have halved everything as often as
\* there are flights, every time from too many entries, the weight is never
\* zero, and the commitment is as far from its opening as it was.
NormInv == NormTyped /\ RoundsCounted /\ FoldKeepsOpening

LEMMA FieldIs ==
  /\ Field = Scalars
  /\ GVec \in Seq(Scalars) /\ HVec \in Seq(Scalars) /\ Coefficients \in Seq(Scalars)
  /\ Len(Coefficients) = Len(HVec) /\ Len(HVec) \in Nat /\ Len(GVec) \in Nat
  /\ \A w \in Witnesses : w[1] \in Seq(Scalars) /\ w[2] \in Seq(Scalars)
  /\ Offsets \subseteq Scalars /\ Challenges \subseteq Scalars
  /\ \A weight \in Rhos : weight \in Scalars /\ weight # 0
<1>1. Field = Scalars
  BY DEF Field, Scalars
<1> QED BY <1>1, NormAssumption

\* The weight of the next round is not zero either.
LEMMA SquareIsNotZero ==
  ASSUME NEW w \in Scalars, w # 0
  PROVE  Times(w, w) \in Scalars /\ Times(w, w) # 0
<1>1. Times(w, w) \in Scalars
  BY ScalarNumbers, SameOperations
<1> QED BY <1>1, NoZeroDivisors

LEMMA IntegerSequences == ASSUME NEW x \in Seq(Scalars) PROVE x \in Seq(Int)
<1>1. x \in [1 .. Len(x) -> Scalars] /\ Scalars \subseteq Int
  BY ScalarNumbers
<1>2. x \in [1 .. Len(x) -> Int]
  BY <1>1
<1> QED BY <1>2

LEMMA InitNormInv == NormInit => NormInv
<1> SUFFICES ASSUME NormInit PROVE NormInv
  OBVIOUS
<1>1. PICK w \in Witnesses, weight \in Rhos, delta \in Offsets :
        Len(w[1]) = Len(HVec) /\ Len(w[2]) = Len(GVec) /\ NormStart(w, weight, delta)
  BY DEF NormInit
<1>2. /\ w[1] \in Seq(Scalars) /\ w[2] \in Seq(Scalars) /\ delta \in Scalars
      /\ weight \in Scalars /\ weight # 0
  BY FieldIs
<1>3. Times(weight, weight) \in Scalars
  BY <1>2, SquareIsNotZero
<1>4. /\ lVec = w[1] /\ nVec = w[2] /\ gVec = GVec /\ hVec = HVec /\ cVec = Coefficients
      /\ normRho = weight /\ normMu = Times(weight, weight) /\ offset = delta /\ flights = <<>>
      /\ normCom = Plus(NormCommit(GVec, HVec, Coefficients, Times(weight, weight), w[1], w[2]), delta)
  BY <1>1 DEF NormStart
<1>5. FoldKeepsOpening
  BY <1>4 DEF FoldKeepsOpening
<1>6. NormTyped
  <2>1. NormCommit(GVec, HVec, Coefficients, Times(weight, weight), w[1], w[2]) \in Scalars
    <3>1. /\ GVec \in Seq(Int) /\ HVec \in Seq(Int) /\ Coefficients \in Seq(Int)
          /\ w[1] \in Seq(Int) /\ w[2] \in Seq(Int) /\ Times(weight, weight) \in Int
      BY <1>2, <1>3, FieldIs, IntegerSequences, ScalarNumbers
    <3> QED BY <3>1, CommitIs
  <2>2. normCom \in Scalars
    BY <1>2, <1>4, <2>1, SameOperations, ScalarNumbers
  <2> QED BY <1>2, <1>4, <2>2, FieldIs DEF NormTyped
<1>7. RoundsCounted
  <2>1. flights = <<>> /\ flights \in Seq(Scalars \X Scalars) /\ Len(flights) = 0
    BY <1>4
  <2>2. Halved(Len(HVec), 0) = Len(HVec) /\ Halved(Len(GVec), 0) = Len(GVec)
    BY FieldIs, HalvedIs
  <2>3. \A q \in 0 .. 0 - 1 : FALSE
    OBVIOUS
  <2> QED BY <1>1, <1>4, <2>1, <2>2, <2>3, FieldIs DEF RoundsCounted
<1> QED BY <1>5, <1>6, <1>7 DEF NormInv

\* A round halves as Halved does.
LEMMA RoundHalves ==
  ASSUME NEW v \in Seq(Scalars), NEW x \in Nat, NEW k \in Nat, Len(v) = Halved(x, k),
         NEW s \in Scalars, NEW y \in Scalars
  PROVE  /\ Combined(Evens(v), s, Odds(v), y) \in Seq(Scalars)
         /\ Len(Combined(Evens(v), s, Odds(v), y)) = Halved(x, k + 1)
<1>1. v \in Seq(Int) /\ s \in Int /\ y \in Int
  BY IntegerSequences, ScalarNumbers
<1>2. /\ Combined(Evens(v), s, Odds(v), y) \in Seq(Scalars)
      /\ Len(Combined(Evens(v), s, Odds(v), y)) = (Len(v) + 1) \div 2
  BY <1>1, CombinedTyped
<1> QED BY <1>2, HalvedIs

LEMMA RoundNormInv == ASSUME NormInv, NEW y \in Challenges, FoldRound(y) PROVE NormInv'
<1> DEFINE k == Len(flights)
           mu == Times(normMu, normMu)
<1>1. y \in Scalars /\ 1 \in Scalars
  <2>1. 1 \in Scalars
    BY ScalarNumbers DEF Scalars
  <2> QED BY <2>1, FieldIs
<1>2. /\ hVec' = Combined(Evens(hVec), 1, Odds(hVec), y)
      /\ gVec' = Combined(Evens(gVec), normRho, Odds(gVec), y)
      /\ cVec' = Combined(Evens(cVec), 1, Odds(cVec), y)
      /\ lVec' = Combined(Evens(lVec), 1, Odds(lVec), y)
      /\ nVec' = Combined(Evens(nVec), Inverted(normRho), Odds(nVec), y)
      /\ normRho' = normMu /\ normMu' = mu /\ normCom' = NormFolded(y) /\ offset' = offset
      /\ flights' = Append(flights, <<FlightX, FlightR>>)
  BY DEF FoldRound
<1>3. NormTyped /\ RoundsCounted /\ FoldKeepsOpening
  BY DEF NormInv
<1>4. /\ normRho \in Scalars /\ normRho # 0 /\ normMu \in Scalars /\ normMu # 0
      /\ mu \in Scalars /\ Inverted(normRho) \in Scalars
  <2>1. normRho \in Scalars /\ normRho # 0 /\ normMu = Times(normRho, normRho)
    BY <1>3 DEF NormTyped
  <2>2. normMu \in Scalars /\ normMu # 0
    BY <2>1, SquareIsNotZero
  <2> QED BY <2>1, <2>2, SquareIsNotZero, InverseIs
<1>5. k \in Nat /\ Len(flights') = k + 1 /\ flights' \in Seq(Scalars \X Scalars)
  <2>1. FlightX \in Scalars /\ FlightR \in Scalars
    BY <1>1, <1>3, RoundCommits
  <2>2. flights \in Seq(Scalars \X Scalars)
    BY <1>3 DEF RoundsCounted
  <2> QED BY <1>2, <2>1, <2>2
<1>6. /\ hVec' \in Seq(Scalars) /\ Len(hVec') = Halved(Len(HVec), k + 1)
      /\ gVec' \in Seq(Scalars) /\ Len(gVec') = Halved(Len(GVec), k + 1)
      /\ cVec' \in Seq(Scalars) /\ Len(cVec') = Halved(Len(HVec), k + 1)
      /\ lVec' \in Seq(Scalars) /\ Len(lVec') = Halved(Len(HVec), k + 1)
      /\ nVec' \in Seq(Scalars) /\ Len(nVec') = Halved(Len(GVec), k + 1)
  <2>1. /\ hVec \in Seq(Scalars) /\ gVec \in Seq(Scalars) /\ cVec \in Seq(Scalars)
        /\ lVec \in Seq(Scalars) /\ nVec \in Seq(Scalars)
    BY <1>3 DEF NormTyped
  <2>2. /\ Len(hVec) = Halved(Len(HVec), k) /\ Len(gVec) = Halved(Len(GVec), k)
        /\ Len(cVec) = Halved(Len(HVec), k) /\ Len(lVec) = Halved(Len(HVec), k)
        /\ Len(nVec) = Halved(Len(GVec), k)
    BY <1>3 DEF RoundsCounted
  <2>3. Len(HVec) \in Nat /\ Len(GVec) \in Nat
    BY FieldIs
  <2> HIDE DEF k
  <2>4. hVec' \in Seq(Scalars) /\ Len(hVec') = Halved(Len(HVec), k + 1)
    <3>1. hVec \in Seq(Scalars) /\ Len(hVec) = Halved(Len(HVec), k)
      BY <2>1, <2>2
    <3>2. /\ Combined(Evens(hVec), 1, Odds(hVec), y) \in Seq(Scalars)
          /\ Len(Combined(Evens(hVec), 1, Odds(hVec), y)) = Halved(Len(HVec), k + 1)
      BY <1>1, <1>5, <2>3, <3>1, RoundHalves
    <3> QED BY <1>2, <3>2
  <2>5. gVec' \in Seq(Scalars) /\ Len(gVec') = Halved(Len(GVec), k + 1)
    <3>1. gVec \in Seq(Scalars) /\ Len(gVec) = Halved(Len(GVec), k)
      BY <2>1, <2>2
    <3>2. /\ Combined(Evens(gVec), normRho, Odds(gVec), y) \in Seq(Scalars)
          /\ Len(Combined(Evens(gVec), normRho, Odds(gVec), y)) = Halved(Len(GVec), k + 1)
      BY <1>1, <1>4, <1>5, <2>3, <3>1, RoundHalves
    <3> QED BY <1>2, <3>2
  <2>6. cVec' \in Seq(Scalars) /\ Len(cVec') = Halved(Len(HVec), k + 1)
    <3>1. cVec \in Seq(Scalars) /\ Len(cVec) = Halved(Len(HVec), k)
      BY <2>1, <2>2
    <3>2. /\ Combined(Evens(cVec), 1, Odds(cVec), y) \in Seq(Scalars)
          /\ Len(Combined(Evens(cVec), 1, Odds(cVec), y)) = Halved(Len(HVec), k + 1)
      BY <1>1, <1>5, <2>3, <3>1, RoundHalves
    <3> QED BY <1>2, <3>2
  <2>7. lVec' \in Seq(Scalars) /\ Len(lVec') = Halved(Len(HVec), k + 1)
    <3>1. lVec \in Seq(Scalars) /\ Len(lVec) = Halved(Len(HVec), k)
      BY <2>1, <2>2
    <3>2. /\ Combined(Evens(lVec), 1, Odds(lVec), y) \in Seq(Scalars)
          /\ Len(Combined(Evens(lVec), 1, Odds(lVec), y)) = Halved(Len(HVec), k + 1)
      BY <1>1, <1>5, <2>3, <3>1, RoundHalves
    <3> QED BY <1>2, <3>2
  <2>8. nVec' \in Seq(Scalars) /\ Len(nVec') = Halved(Len(GVec), k + 1)
    <3>1. nVec \in Seq(Scalars) /\ Len(nVec) = Halved(Len(GVec), k)
      BY <2>1, <2>2
    <3>2. /\ Combined(Evens(nVec), Inverted(normRho), Odds(nVec), y) \in Seq(Scalars)
          /\ Len(Combined(Evens(nVec), Inverted(normRho), Odds(nVec), y)) = Halved(Len(GVec), k + 1)
      BY <1>1, <1>4, <1>5, <2>3, <3>1, RoundHalves
    <3> QED BY <1>2, <3>2
  <2> QED BY <2>4, <2>5, <2>6, <2>7, <2>8
<1>7. \A q \in 0 .. (k + 1) - 1 : Entries(q) >= SmallEnough
  <2>1. Len(lVec) + Len(nVec) >= SmallEnough
    BY DEF FoldRound, Folds
  <2>2. Entries(k) >= SmallEnough
    BY <1>3, <2>1 DEF RoundsCounted, Entries
  <2>3. \A q \in 0 .. k - 1 : Entries(q) >= SmallEnough
    BY <1>3 DEF RoundsCounted
  <2>4. \A q \in 0 .. (k + 1) - 1 : q = k \/ q \in 0 .. k - 1
    BY <1>5
  <2> QED BY <2>2, <2>3, <2>4
<1>8. RoundsCounted'
  <2>1. /\ RoundsCounted' <=>
             /\ flights' \in Seq(Scalars \X Scalars)
             /\ Len(lVec') = Halved(Len(HVec), Len(flights'))
             /\ Len(hVec') = Halved(Len(HVec), Len(flights'))
             /\ Len(cVec') = Halved(Len(HVec), Len(flights'))
             /\ Len(nVec') = Halved(Len(GVec), Len(flights'))
             /\ Len(gVec') = Halved(Len(GVec), Len(flights'))
             /\ \A q \in 0 .. Len(flights') - 1 : Entries(q) >= SmallEnough
    BY DEF RoundsCounted, Entries, Halved
  <2> QED BY <1>5, <1>6, <1>7, <2>1
\* The commitment.
<1>9. PICK C \in Int, N \in Int, X \in Int, R \in Int, o \in Int, c \in Int :
        /\ C = NormCommit(gVec, hVec, cVec, normMu, lVec, nVec) /\ X = FlightX /\ R = FlightR
        /\ N = NormCommit(gVec', hVec', cVec', normMu', lVec', nVec')
        /\ o = offset /\ c = normCom /\ N \in Scalars /\ o \in Scalars
        /\ c = Plus(C, o) /\ Same(N, C + (y * X + (y * y - 1) * R))
  <2>1. /\ FlightX \in Scalars /\ FlightR \in Scalars
        /\ NormCommit(gVec, hVec, cVec, normMu, lVec, nVec) \in Scalars
        /\ NormCommit(gVec', hVec', cVec', normMu', lVec', nVec') \in Scalars
        /\ Same(NormCommit(gVec', hVec', cVec', normMu', lVec', nVec'),
                NormCommit(gVec, hVec, cVec, normMu, lVec, nVec)
                  + (y * FlightX + (y * y - 1) * FlightR))
    BY <1>1, <1>2, <1>3, RoundCommits
  <2>2. normCom \in Scalars /\ offset \in Scalars
    BY <1>3 DEF NormTyped
  <2>3. normCom = Plus(NormCommit(gVec, hVec, cVec, normMu, lVec, nVec), offset)
    BY <1>3 DEF FoldKeepsOpening
  <2> QED BY <2>1, <2>2, <2>3, ScalarNumbers
<1>10. NormFolded(y) \in Scalars /\ NormFolded(y) = Plus(N, o)
  <2>1. PICK b \in Int, a \in Int, e \in Int, s \in Int, d \in Int, f \in Int :
          /\ b = y /\ a = b * X /\ s = b * b /\ d = s - 1 /\ e = d * R /\ f = C + o
    BY <1>1, ScalarNumbers
  <2>2. PICK A \in Int, S \in Int : A = Times(b, X) /\ Same(A, a) /\ S = Times(b, b) /\ Same(S, s)
    <3>1. /\ Times(b, X) \in Scalars /\ Same(Times(b, X), b * X)
          /\ Times(b, b) \in Scalars /\ Same(Times(b, b), b * b)
      BY SameOperations
    <3> QED BY <2>1, <3>1, ScalarNumbers
  <2>3. PICK D \in Int, one \in Int : one = 1 /\ D = Minus(S, one) /\ Same(D, d)
    <3>1. PICK one \in Int : one = 1 /\ Same(one, one)
      BY SameIsEquivalence
    <3>2. Minus(S, one) \in Int /\ Same(Minus(S, one), s - one)
      BY <2>2, <3>1, SameThrough
    <3> QED BY <2>1, <3>1, <3>2
  <2>4. PICK E \in Int : E = Times(D, R) /\ Same(E, e)
    <3>1. Same(R, R)
      BY SameIsEquivalence
    <3>2. Times(D, R) \in Int /\ Same(Times(D, R), d * R)
      BY <2>3, <3>1, SameThrough
    <3> QED BY <2>1, <3>2
  <2>5. PICK F \in Int : F = Plus(A, E) /\ Same(F, a + e)
    BY <2>2, <2>4, SameThrough
  <2>6. PICK g \in Int : g = a + e
    OBVIOUS
  <2>7. Same(c, f)
    BY <1>9, <2>1, SameOperations
  <2>8. Plus(c, F) \in Scalars /\ Same(Plus(c, F), f + g)
    BY <2>5, <2>6, <2>7, SameThrough, SameOperations
  <2>9. NormFolded(y) = Plus(c, F)
    BY <1>9, <2>1, <2>2, <2>3, <2>4, <2>5 DEF NormFolded
  <2>10. Plus(N, o) \in Scalars /\ Same(Plus(N, o), (C + g) + o)
    <3>1. PICK h \in Int : h = C + g
      OBVIOUS
    <3>2. Same(N, h)
      BY <1>9, <2>1, <2>6, <3>1
    <3>3. Same(o, o)
      BY SameIsEquivalence
    <3> QED BY <3>1, <3>2, <3>3, SameThrough, SameOperations
  <2>11. PICK h \in Int, x \in Int, z \in Int : h = f + g /\ x = Plus(c, F) /\ z = Plus(N, o)
    <3>1. f + g \in Int
      OBVIOUS
    <3>2. Plus(c, F) \in Int /\ Plus(N, o) \in Int
      BY <2>8, <2>10, ScalarNumbers
    <3> QED BY ONLY <3>1, <3>2
  <2>12. h = (C + g) + o
    BY <2>1, <2>11
  <2>13. Same(x, h) /\ Same(z, h)
    BY <2>8, <2>10, <2>11, <2>12
  <2>14. Same(x, z)
    <3>1. Same(h, z)
      BY <2>13, SameIsEquivalence
    <3> QED BY <2>13, <3>1, SameIsEquivalence
  <2>15. x \in Scalars /\ z \in Scalars
    BY <2>8, <2>10, <2>11
  <2> QED BY <2>9, <2>11, <2>14, <2>15, SameScalars
<1>11. FoldKeepsOpening'
  <2>1. FoldKeepsOpening' <=>
          normCom' = Plus(NormCommit(gVec', hVec', cVec', normMu', lVec', nVec'), offset')
    BY DEF FoldKeepsOpening
  <2> QED BY <1>2, <1>9, <1>10, <2>1
<1>12. NormTyped'
  <2>1. normMu' = Times(normRho', normRho') /\ offset' \in Scalars /\ normCom' \in Scalars
    BY <1>2, <1>3, <1>10 DEF NormTyped
  <2> QED BY <1>2, <1>4, <1>6, <2>1 DEF NormTyped
<1> QED BY <1>8, <1>11, <1>12 DEF NormInv

LEMMA NextNormInv == NormInv /\ [NormNext]_normVars => NormInv'
<1>1. ASSUME NormInv, NormNext PROVE NormInv'
  BY <1>1, RoundNormInv DEF NormNext
<1>2. ASSUME NormInv, UNCHANGED normVars PROVE NormInv'
  BY <1>2 DEF normVars, NormInv, NormTyped, RoundsCounted, FoldKeepsOpening
<1> QED BY <1>1, <1>2

LEMMA NormInvIsExact == NormInv => NormArgumentIsExact
<1> SUFFICES ASSUME NormInv PROVE NormArgumentIsExact
  OBVIOUS
<1> DEFINE k == Len(flights)
<1>1. NormTyped /\ RoundsCounted /\ FoldKeepsOpening
  BY DEF NormInv
<1>2. k \in Nat /\ SmallEnough \in Nat
  BY <1>1, NormAssumption DEF RoundsCounted
<1>3. Finished <=> Entries(k) < SmallEnough
  <2>1. Len(lVec) + Len(nVec) = Entries(k) /\ Entries(k) \in Nat
    <3>1. Len(lVec) + Len(nVec) = Entries(k)
      BY <1>1 DEF RoundsCounted, Entries
    <3> QED BY <1>2, <3>1, EntriesFall
  <2> QED BY <1>2, <2>1 DEF Finished, Folds
<1>4. \A q \in 0 .. k - 1 : Entries(q) >= SmallEnough
  BY <1>1 DEF RoundsCounted
<1>5. Finished <=> k = ExpectedRounds
  <2>1. Finished => EndsAt(k)
    BY <1>3, <1>4 DEF EndsAt
  <2>2. EndsAt(k) => k = ExpectedRounds
    BY <1>2, RoundsEnd
  <2>3. EndsAt(ExpectedRounds)
    BY RoundsEnd
  <2>4. k = ExpectedRounds => Entries(k) < SmallEnough
    BY <2>3 DEF EndsAt
  <2> QED BY <1>3, <2>1, <2>2, <2>4
<1>6. ShapesAgree
  BY <1>1, <1>5 DEF ShapesAgree, RoundsCounted
<1>7. NormCommit(gVec, hVec, cVec, normMu, lVec, nVec) = normCom <=> offset = 0
  <2>1. NormCommit(gVec, hVec, cVec, normMu, lVec, nVec) \in Scalars
    <3>1. /\ gVec \in Seq(Int) /\ hVec \in Seq(Int) /\ cVec \in Seq(Int)
          /\ lVec \in Seq(Int) /\ nVec \in Seq(Int)
      BY <1>1, IntegerSequences DEF NormTyped
    <3>2. normMu \in Int
      <4>1. normMu \in Scalars
        BY <1>1, SquareIsNotZero DEF NormTyped
      <4> QED BY <4>1, ScalarNumbers
    <3> QED BY <3>1, <3>2, CommitIs
  <2>2. PICK C \in Int, o \in Int, c \in Int :
          /\ C = NormCommit(gVec, hVec, cVec, normMu, lVec, nVec) /\ o = offset /\ c = normCom
          /\ C \in Scalars /\ o \in Scalars /\ c \in Scalars /\ c = Plus(C, o)
    BY <1>1, <2>1, ScalarNumbers DEF NormTyped, FoldKeepsOpening
  <2>3. Same(c, C + o)
    BY <2>2, SameOperations
  <2>4. o = 0 => C = c
    <3>1. o = 0 => C + o = C
      OBVIOUS
    <3> QED BY <2>2, <2>3, <3>1, SameScalars
  <2>5. C = c => o = 0
    <3>1. SUFFICES ASSUME C = c PROVE o = 0
      OBVIOUS
    <3>2. PICK d \in Int, z \in Int : d = C + o /\ z = 0
      OBVIOUS
    <3>3. Same(C, d) /\ Same(C, C)
      BY <2>3, <3>1, <3>2, SameIsEquivalence
    <3>4. Same(C - C, d - C)
      BY <3>3, SameArithmetic
    <3>5. C - C = z /\ d - C = o
      BY <3>2
    <3>6. Same(z, o)
      BY <3>4, <3>5
    <3> QED BY <2>2, <3>2, <3>6, SameScalars, ScalarNumbers
  <2> QED BY <2>2, <2>4, <2>5
<1>8. AcceptsOpenings
  <2>1. Finished => (NormVerifies <=> /\ offset = 0
                                      /\ \A i \in DOMAIN flights : flights[i][1] # 0 /\ flights[i][2] # 0)
    <3>1. SUFFICES ASSUME Finished
                   PROVE  NormVerifies <=> /\ offset = 0
                                           /\ \A i \in DOMAIN flights : flights[i][1] # 0 /\ flights[i][2] # 0
      OBVIOUS
    <3>2. Len(flights) = ExpectedRounds
      BY <1>5, <3>1
    <3>3. Len(lVec) = Halved(Len(HVec), ExpectedRounds) /\ Len(nVec) = Halved(Len(GVec), ExpectedRounds)
      BY <1>1, <3>2 DEF RoundsCounted
    <3> QED BY <1>7, <3>2, <3>3 DEF NormVerifies
  <2> QED BY <2>1 DEF AcceptsOpenings
<1> QED BY <1>1, <1>6, <1>8 DEF NormArgumentIsExact

\* An honest norm argument verifies whatever the challenges and the lengths,
\* and one about a commitment that its vectors do not open never does.
THEOREM FoldingIsExact == NormSpec => []NormArgumentIsExact
<1>1. NormSpec => []NormInv
  BY InitNormInv, NextNormInv, PTL DEF NormSpec
<1> QED BY <1>1, NormInvIsExact, PTL

=============================================================================
