----------------------------- MODULE PrimeField -----------------------------
(***************************************************************************)
(* Arithmetic modulo a prime, and vectors over it: scalars and the         *)
(* logarithms of points, the vectors of the range argument, and the        *)
(* coordinates of the affine kernels.                                      *)
(***************************************************************************)
EXTENDS Integers, Sequences, FiniteSets, FiniteSetsExt, SequencesExt

CONSTANT Order    \* how many elements there are, a prime

ASSUME PrimeOrder == \A d \in 2 .. Order - 1 : Order % d # 0

Plus(a, b) == (a + b) % Order
Minus(a, b) == (a - b) % Order
Times(a, b) == (a * b) % Order

\* Sum of f(x) over the finite set S.
SumOver(f(_), S) == SumFunction([x \in S |-> f(x)]) % Order

Power(a, n) ==
  LET p[i \in 0 .. n] ==
        IF i = 0 THEN 1
        ELSE IF i % 2 = 1 THEN Times(p[i - 1], a)
        ELSE LET half == p[i \div 2] IN Times(half, half)
  IN  p[n]

\* invert().unwrap_or(ZERO): what the element times it is one, by division with
\* remainder; zero has none and stands for it.
Inverted(a) ==
  LET inverse[i \in 1 .. Order - 1] ==
        IF i = 1 THEN 1 ELSE Times(Order - (Order \div i), inverse[Order % i])
  IN  IF a = 0 THEN 0 ELSE inverse[a]

----------------------------------------------------------------------------
(* Vectors; a shorter one is extended with zeros.                          *)

ZeroExtended(v, i) == IF i \in DOMAIN v THEN v[i] ELSE 0
Widest(a, b) == 1 .. Max({Len(a), Len(b)})

Combined(a, s, b, t) ==
  [i \in Widest(a, b) |-> Plus(Times(s, ZeroExtended(a, i)), Times(t, ZeroExtended(b, i)))]
Scaled(s, a) == [i \in DOMAIN a |-> Times(s, a[i])]

Inner(a, b) == SumOver(LAMBDA i : Times(ZeroExtended(a, i), ZeroExtended(b, i)), Widest(a, b))

\* The powers of w up to the n-th.
Exponents(w, n) ==
  LET exp[i \in 0 .. n] == IF i = 0 THEN 1 ELSE Times(exp[i - 1], w)
  IN  exp

\* The sum of w^i * a[i] * b[i].
WeightedInner(a, b, w) ==
  LET exp == Exponents(w, Max({Len(a), Len(b)}))
  IN  SumOver(LAMBDA i : Times(exp[i], Times(ZeroExtended(a, i), ZeroExtended(b, i))), Widest(a, b))

Evens(v) == [i \in 1 .. (Len(v) + 1) \div 2 |-> v[2 * i - 1]]
Odds(v) == [i \in 1 .. Len(v) \div 2 |-> v[2 * i]]
=============================================================================
