--------------------------------- MODULE Msm ---------------------------------
(***************************************************************************)
(* Multi-scalar multiplication as msm.rs does it for public data: the bits *)
(* of every scalar are cut into windows, the points of a window are thrown *)
(* into buckets by digit, and running sums weigh the buckets.              *)
(*                                                                         *)
(* As in CapsuleAlgebra, a point is its logarithm modulo the group order.  *)
(***************************************************************************)
EXTENDS CapsuleAlgebra

CONSTANTS
  ScalarBits,     \* 256
  Widths,         \* the pairs <<fewest terms, window bits>>, in ascending order
  MsmPoints, MsmScalars, \* the terms that occur
  MaxTerms        \* bound on the terms

\* 2^n
TwoTo(n) ==
  LET power[k \in 0 .. n] == IF k = 0 THEN 1 ELSE 2 * power[k - 1]
  IN  power[n]

ASSUME MsmAssumption ==
  /\ ScalarBits \in Nat /\ Order <= TwoTo(ScalarBits)
  /\ Widths \in Seq(Nat \X (Nat \ {0})) /\ Widths # <<>>
  /\ MsmPoints \cup MsmScalars \subseteq Scalars

VARIABLES points, scalars

msmVars == <<points, scalars>>

Terms == Min({Len(points), Len(scalars)})     \* zip-shortest

\* msm, by the library's linear combination.
Direct == SumOver(LAMBDA i : Times(points[i], scalars[i]), 1 .. Terms)

WindowBits == Widths[Max({w \in DOMAIN Widths : Widths[w][1] <= Terms})][2]
WindowCount == (ScalarBits + WindowBits - 1) \div WindowBits
BucketCount == TwoTo(WindowBits) - 1

\* scalar_window: bits past the last read as zero.
Digit(s, window) == (s \div TwoTo(window * WindowBits)) % TwoTo(WindowBits)

Kept == {i \in 1 .. Terms : points[i] # 0 /\ scalars[i] # 0}
Bucket(window, digit) ==
  SumOver(LAMBDA i : points[i], {i \in Kept : Digit(scalars[i], window) = digit})

\* Slip: the running sum leaves out the topmost bucket.
BucketSumShort(window) ==
  LET running[k \in 0 .. BucketCount - 1] ==
        IF k = 0 THEN 0 ELSE Plus(running[k - 1], Bucket(window, BucketCount - k))
      weighed[k \in 0 .. BucketCount - 1] ==
        IF k = 0 THEN 0 ELSE Plus(weighed[k - 1], running[k])
  IN  weighed[BucketCount - 1]

\* From the topmost bucket down, every one is added once more than the last.
BucketSum(window) ==
  LET running[k \in 0 .. BucketCount] ==
        IF k = 0 THEN 0 ELSE Plus(running[k - 1], Bucket(window, BucketCount + 1 - k))
      weighed[k \in 0 .. BucketCount] ==
        IF k = 0 THEN 0 ELSE Plus(weighed[k - 1], running[k])
  IN  weighed[BucketCount]

\* The windows from the top, with window_bits doublings between them.
Buckets ==
  LET acc[w \in 0 .. WindowCount] ==
        IF w = 0 THEN 0
        ELSE Plus(Times(acc[w - 1], TwoTo(WindowBits)), BucketSum(WindowCount - w))
  IN  acc[WindowCount]

MsmVartimePublic == IF Terms < Widths[1][1] THEN Direct ELSE Buckets

----------------------------------------------------------------------------
MsmInit == points = <<>> /\ scalars = <<>>

AddTerm(p, s) == points' = Append(points, p) /\ scalars' = Append(scalars, s)

\* Callers may pass more scalars than points, or the other way round.
AddPoint(p) == points' = Append(points, p) /\ UNCHANGED scalars
AddScalar(s) == scalars' = Append(scalars, s) /\ UNCHANGED points

MsmNext ==
  /\ Max({Len(points), Len(scalars)}) < MaxTerms /\ Len(points) = Len(scalars)
  /\ \E p \in MsmPoints, s \in MsmScalars : AddTerm(p, s) \/ AddPoint(p) \/ AddScalar(s)

MsmSpec == MsmInit /\ [][MsmNext]_msmVars

----------------------------------------------------------------------------
\* The buckets yield the sum of all terms, for every number of terms at which
\* the window changes, a top window that the scalar does not fill, and points
\* and scalars that are left out (msm.rs:32-81).
MsmIsExact == MsmVartimePublic = Direct
=============================================================================
