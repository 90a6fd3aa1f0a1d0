--------------------------- MODULE Parallel_proofs ---------------------------
(***************************************************************************)
(* For any number of items and threads, mapping in parallel does what      *)
(* mapping inline does, wherever tasks panic, and searching in parallel    *)
(* answers what searching inline does, whatever loads of the flag are      *)
(* stale.  For every curve and batch, the sums a worker's chunk asks for   *)
(* are those of the group law.                                             *)
(***************************************************************************)
EXTENDS Parallel, BatchAffine, CapsuleAlgebra_proofs

----------------------------------------------------------------------------
(* parallel_map_indexed.                                                   *)

\* How many indices the first w chunks cover.
Cut(w) == MinOf(w * Size, input.len)

ShapeInv ==
  /\ input \in Inputs
  /\ spawned \in 0 .. Workers /\ joined \in 0 .. Workers
  /\ Workers <= 1 => spawned = 0 /\ joined = 0
  /\ joined # 0 => spawned = Workers
  /\ next \in [0 .. Workers - 1 -> Nat]

\* A worker has run a first part of its chunk, and stopped on a panic at most.
WorkerInv(w) ==
  /\ Start(w) <= next[w]
  /\ next[w] = Start(w) \/ next[w] <= End(w)
  /\ \A i \in Start(w) .. next[w] - 1 : i \notin input.panics
  /\ w \in panicked => next[w] \in input.panics

WorkersInv == \A w \in 0 .. Workers - 1 : WorkerInv(w)

\* The joined workers panicked nowhere, and their results are in order.
JoinInv ==
  /\ \A i \in 0 .. Cut(joined) - 1 : i \notin input.panics
  /\ collected = [k \in 1 .. Cut(joined) |-> k - 1]
  /\ \A w \in 0 .. joined - 1 : Finished(w)

PayloadInv ==
  payload # None =>
    payload \in input.panics /\ \A i \in input.panics : payload <= i

EndInv == outcome # None => outcome = InlineOutcome /\ \A w \in 0 .. spawned - 1 : Finished(w)

IInv ==
  /\ ShapeInv /\ WorkersInv /\ JoinInv /\ PayloadInv /\ EndInv
  /\ outcome # None => spawned = Workers \/ Workers <= 1

----------------------------------------------------------------------------
\* Rounding up, the chunks cover all items, and none is empty for want of size.
LEMMA Covers ==
  ASSUME NEW len \in Nat, NEW w \in Nat \ {0}
  PROVE  /\ DivCeil(len, w) \in Nat
         /\ w * DivCeil(len, w) >= len
         /\ len > 0 => DivCeil(len, w) > 0
<1> DEFINE q == (len + w - 1) \div w
<1>1. q \in Int /\ w * q <= len + w - 1 /\ len + w - 1 < w * q + w
  OBVIOUS
<1>2. q >= 0
  OBVIOUS
<1>3. len > 0 => q > 0
  <2> SUFFICES ASSUME len > 0, q = 0 PROVE FALSE
    BY <1>1, <1>2
  <2> w * q = 0
    OBVIOUS
  <2> QED BY <1>1
<1>4. w * q >= len
  <2> HIDE DEF q
  <2>1. PICK p \in Int : p = w * q
    BY <1>1
  <2> QED BY <1>1, <2>1
<1> QED BY <1>1, <1>2, <1>3, <1>4 DEF DivCeil

\* Chunks follow one another up to the end of the items.
LEMMA Chunks ==
  ASSUME input \in Inputs
  PROVE  /\ input.len \in Nat /\ Workers \in Nat \ {0} /\ Size \in Nat
         /\ input.panics \subseteq 0 .. input.len - 1
         /\ Cut(0) = 0 /\ Cut(Workers) = input.len
         /\ \A w \in Nat :
              /\ Start(w) \in Nat /\ Cut(w) \in Nat /\ End(w) = Cut(w + 1)
              /\ Start(w) < input.len =>
                   Start(w) = Cut(w) /\ Cut(w) < Cut(w + 1) /\ Cut(w + 1) <= input.len
              /\ Start(w) >= input.len => Cut(w) = input.len /\ Cut(w + 1) = input.len
<1>1. input.len \in Nat /\ input.requested \in Nat \ {0} /\ input.panics \subseteq 0 .. input.len - 1
  BY InputsAssumption
<1>2. Workers \in Nat \ {0}
  BY <1>1 DEF Workers, WorkerCount, MinOf
<1>3. Size \in Nat /\ Workers * Size >= input.len /\ (input.len > 0 => Size > 0)
  BY <1>1, <1>2, Covers DEF Size, ChunkSize
<1>4. Cut(0) = 0
  BY <1>1, <1>3 DEF Cut, MinOf
<1>5. Cut(Workers) = input.len
  <2>1. Workers * Size \in Int
    BY <1>2, <1>3
  <2> QED BY <1>1, <1>3, <2>1 DEF Cut, MinOf
<1>6. ASSUME NEW w \in Nat
      PROVE  /\ Start(w) \in Nat /\ Cut(w) \in Nat /\ End(w) = Cut(w + 1)
             /\ Start(w) < input.len =>
                  Start(w) = Cut(w) /\ Cut(w) < Cut(w + 1) /\ Cut(w + 1) <= input.len
             /\ Start(w) >= input.len => Cut(w) = input.len /\ Cut(w + 1) = input.len
  <2>1. PICK s \in Nat : s = w * Size
    BY <1>3
  <2>2. (w + 1) * Size = s + Size
    BY <1>3, <2>1
  <2>3. Start(w) = s /\ Cut(w) = MinOf(s, input.len) /\ Cut(w + 1) = MinOf(s + Size, input.len)
        /\ End(w) = MinOf(s + Size, input.len)
    BY <2>1, <2>2 DEF Start, ChunkStart, End, ChunkEnd, Cut
  <2> HIDE DEF Cut, Start, End
  <2> QED BY <1>1, <1>3, <2>3 DEF MinOf
<1> QED BY <1>1, <1>2, <1>3, <1>4, <1>5, <1>6

\* The arguments do not change, nor does the way they are cut.
LEMMA Steady ==
  ASSUME input' = input
  PROVE  /\ Workers' = Workers /\ Size' = Size
         /\ \A w : Start(w)' = Start(w) /\ End(w)' = End(w) /\ Cut(w)' = Cut(w)
         /\ InlineOutcome' = InlineOutcome
BY DEF Workers, Size, Start, End, Cut, InlineOutcome
----------------------------------------------------------------------------
(* What joining adds.                                                      *)

\* A run of indices followed by the next run.
LEMMA Glue ==
  ASSUME NEW a \in Nat, NEW b \in Nat, a <= b
  PROVE  [k \in 1 .. a |-> k - 1] \o [k \in 1 .. b - a |-> a + k - 1] = [k \in 1 .. b |-> k - 1]
<1> DEFINE s == [k \in 1 .. a |-> k - 1]
           t == [k \in 1 .. b - a |-> a + k - 1]
           u == [k \in 1 .. b |-> k - 1]
<1>1. s \in Seq(Int) /\ Len(s) = a
  OBVIOUS
<1>2. t \in Seq(Int) /\ Len(t) = b - a
  <2>1. b - a \in Nat
    OBVIOUS
  <2> QED BY <2>1
<1>3. u \in Seq(Int) /\ Len(u) = b
  OBVIOUS
<1>4. s \o t \in Seq(Int) /\ Len(s \o t) = b
  BY <1>1, <1>2, ConcatProperties
<1>5. ASSUME NEW i \in 1 .. b PROVE (s \o t)[i] = u[i]
  <2>1. (s \o t)[i] = IF i <= Len(s) THEN s[i] ELSE t[i - Len(s)]
    BY <1>1, <1>2, ConcatProperties
  <2>2. CASE i <= a
    BY <1>1, <2>1, <2>2
  <2>3. CASE i > a
    <3>1. i - a \in 1 .. b - a
      BY <2>3
    <3> QED BY <1>1, <2>1, <2>3, <3>1
  <2> QED BY <2>2, <2>3
<1> HIDE DEF s, t, u
<1>6. s \o t = u
  BY <1>3, <1>4, <1>5, SeqEqual
<1> QED BY <1>6 DEF s, t, u

\* A worker that has finished without a panic brings the indices of its
\* chunk, in order; one that panicked did so at the first panic of its chunk.
LEMMA FinishedWorker ==
  ASSUME ShapeInv, WorkersInv, NEW w \in 0 .. Workers - 1, Finished(w)
  PROVE  /\ w \notin panicked =>
              /\ \A i \in Cut(w) .. Cut(w + 1) - 1 : i \notin input.panics
              /\ [k \in 1 .. Cut(w) |-> k - 1] \o ResultsOf(w) = [k \in 1 .. Cut(w + 1) |-> k - 1]
         /\ w \in panicked =>
              /\ next[w] \in input.panics
              /\ \A i \in Cut(w) .. next[w] - 1 : i \notin input.panics
<1> input \in Inputs /\ WorkerInv(w)
  BY DEF ShapeInv, WorkersInv
<1> w \in Nat /\ next[w] \in Nat
  BY Chunks DEF ShapeInv
<1> USE DEF WorkerInv
<1>1. /\ input.len \in Nat /\ Start(w) \in Nat /\ Cut(w) \in Nat /\ End(w) = Cut(w + 1)
      /\ Start(w) < input.len =>
           Start(w) = Cut(w) /\ Cut(w) < Cut(w + 1) /\ Cut(w + 1) <= input.len
      /\ Start(w) >= input.len => Cut(w) = input.len /\ Cut(w + 1) = input.len
      /\ input.panics \subseteq 0 .. input.len - 1
  BY Chunks
<1>2. Cut(w + 1) \in Nat
  BY Chunks, w + 1 \in Nat
<1> HIDE DEF Cut
<1>3. ASSUME w \notin panicked PROVE \A i \in Cut(w) .. Cut(w + 1) - 1 : i \notin input.panics
  BY <1>1, <1>2, <1>3 DEF Finished
<1>4. ASSUME w \notin panicked
      PROVE  [k \in 1 .. Cut(w) |-> k - 1] \o ResultsOf(w) = [k \in 1 .. Cut(w + 1) |-> k - 1]
  <2>1. CASE Start(w) < input.len
    <3>1. next[w] = Cut(w + 1) /\ Start(w) = Cut(w)
      BY <1>1, <1>2, <1>4, <2>1 DEF Finished
    <3>2. ResultsOf(w) = [k \in 1 .. Cut(w + 1) - Cut(w) |-> Cut(w) + k - 1]
      BY <3>1 DEF ResultsOf
    <3>3. Cut(w) <= Cut(w + 1)
      BY <1>1, <1>2, <2>1
    <3>4. [k \in 1 .. Cut(w) |-> k - 1] \o [k \in 1 .. Cut(w + 1) - Cut(w) |-> Cut(w) + k - 1]
            = [k \in 1 .. Cut(w + 1) |-> k - 1]
      BY <3>3, <1>1, <1>2, Glue
    <3> QED BY <3>2, <3>4
  <2>2. CASE Start(w) >= input.len
    <3>1. next[w] - Start(w) = 0
      BY <1>1, <2>2
    <3>2. ResultsOf(w) = <<>>
      BY <3>1 DEF ResultsOf
    <3>3. [k \in 1 .. Cut(w) |-> k - 1] \in Seq(Int)
      BY <1>1
    <3>4. [k \in 1 .. Cut(w) |-> k - 1] \o <<>> = [k \in 1 .. Cut(w) |-> k - 1]
      BY <3>3, ConcatEmptySeq
    <3> QED BY <3>2, <3>4, <1>1, <2>2
  <2>3. Start(w) < input.len \/ Start(w) >= input.len
    BY <1>1
  <2> QED BY <2>1, <2>2, <2>3
<1>5. ASSUME w \in panicked
      PROVE  /\ next[w] \in input.panics
             /\ \A i \in Cut(w) .. next[w] - 1 : i \notin input.panics
  BY <1>1, <1>5
<1> QED BY <1>3, <1>4, <1>5

\* The first panic found is the one that mapping inline meets.
LEMMA FirstPanic ==
  ASSUME input \in Inputs, NEW p \in input.panics, \A i \in input.panics : p <= i
  PROVE  InlineOutcome = [panic |-> p]
<1>1. input.panics \subseteq Int
  BY Chunks
<1>2. \A q \in input.panics : (\A i \in input.panics : q <= i) => q = p
  BY <1>1
<1>3. (CHOOSE i \in input.panics : \A j \in input.panics : i <= j) = p
  BY <1>2
<1> QED BY <1>3 DEF InlineOutcome

----------------------------------------------------------------------------
(* The invariant is inductive.                                             *)

\* The initial states satisfy the inductive invariant.
LEMMA InitIInv == Init => IInv
<1> SUFFICES ASSUME Init PROVE IInv
  OBVIOUS
<1>1. input \in Inputs
  BY DEF Init
<1>2. Cut(0) = 0 /\ Workers \in Nat \ {0} /\ \A w \in Nat : Start(w) \in Nat
  BY <1>1, Chunks
<1>3. ShapeInv
  BY <1>2 DEF Init, ShapeInv
<1>4. WorkersInv
  BY <1>2 DEF Init, WorkersInv, WorkerInv
<1>5. JoinInv
  <2>1. collected = [k \in 1 .. 0 |-> k - 1] /\ joined = 0
    BY DEF Init
  <2>2. /\ \A i \in 0 .. Cut(joined) - 1 : i \notin input.panics
        /\ \A w \in 0 .. joined - 1 : Finished(w)
    BY <1>2, <2>1
  <2>3. collected = [k \in 1 .. Cut(joined) |-> k - 1]
    BY <1>2, <2>1
  <2> QED BY <2>2, <2>3 DEF JoinInv
<1> QED BY <1>3, <1>4, <1>5 DEF Init, IInv, PayloadInv, EndInv

\* Every step keeps the inductive invariant, action by action.
LEMMA NextIInv == IInv /\ [Next]_vars => IInv'
<1> SUFFICES ASSUME IInv, [Next]_vars PROVE IInv'
  OBVIOUS
<1> USE DEF IInv
<1>1. input' = input
  BY DEF Next, Caller, Inline, Spawn, Join, Return, Unwind, UnwindAtOnce, RunTask, vars
<1>2. /\ Workers' = Workers /\ Size' = Size
      /\ \A w : Start(w)' = Start(w) /\ End(w)' = End(w) /\ Cut(w)' = Cut(w)
      /\ InlineOutcome' = InlineOutcome
  BY <1>1, Steady
<1>3. input \in Inputs /\ Workers \in Nat \ {0}
  BY Chunks DEF ShapeInv
<1>4. ASSUME Inline PROVE IInv'
  BY <1>2, <1>4 DEF Inline, ShapeInv, WorkersInv, WorkerInv, JoinInv, PayloadInv, EndInv
<1>5. ASSUME Spawn PROVE IInv'
  BY <1>2, <1>3, <1>5 DEF Spawn, ShapeInv, WorkersInv, WorkerInv, JoinInv, PayloadInv, EndInv
<1>6. ASSUME NEW w \in 0 .. Workers - 1, RunTask(w) PROVE IInv'
  <2>1. outcome = None
    BY <1>3, <1>6 DEF RunTask, EndInv, ShapeInv
  <2>2. ShapeInv'
    BY <1>2, <1>6 DEF RunTask, ShapeInv
  <2>3. WorkersInv'
    <3> SUFFICES ASSUME NEW u \in 0 .. Workers - 1 PROVE WorkerInv(u)'
      BY <1>2 DEF WorkersInv
    <3>1. CASE u # w
      <4>1. next'[u] = next[u] /\ (u \in panicked' <=> u \in panicked)
        BY <3>1, <1>6 DEF RunTask, ShapeInv
      <4> QED BY <4>1, <1>1, <1>2 DEF WorkersInv, WorkerInv
    <3>2. CASE u = w
      <4>1. w \in Nat /\ next[w] \in Nat /\ End(w) \in Nat /\ Start(w) \in Nat
        BY <1>3, Chunks, w \in Nat, w + 1 \in Nat DEF ShapeInv
      <4>2. next[w] < End(w) /\ w \notin panicked
        BY <1>6, <4>1 DEF RunTask, Finished
      <4>3. CASE next[w] \in input.panics
        BY <4>3, <3>2, <1>2, <1>6 DEF RunTask, WorkersInv, WorkerInv
      <4>4. CASE next[w] \notin input.panics
        <5>1. next'[w] = next[w] + 1 /\ panicked' = panicked
          BY <4>4, <1>6 DEF RunTask, ShapeInv
        <5>2. WorkerInv(w)
          BY DEF WorkersInv
        <5> HIDE DEF IInv
        <5> QED BY <4>1, <4>2, <4>4, <5>1, <5>2, <3>2, <1>1, <1>2 DEF WorkerInv
      <4> QED BY <4>3, <4>4
    <3> QED BY <3>1, <3>2
  <2>4. JoinInv' /\ PayloadInv'
    <3>1. UNCHANGED <<input, spawned, joined, collected, payload>>
      BY <1>6 DEF RunTask
    <3>2. ASSUME NEW v \in 0 .. joined - 1 PROVE Finished(v)'
      <4>1. Finished(v) /\ v # w /\ v \in 0 .. Workers - 1
        BY <1>3, <1>6 DEF JoinInv, RunTask, ShapeInv
      <4>2. next'[v] = next[v] /\ (v \in panicked => v \in panicked')
        BY <1>6, <4>1 DEF RunTask, ShapeInv
      <4> QED BY <1>2, <3>1, <4>1, <4>2 DEF Finished
    <3>3. \A v \in 0 .. joined' - 1 : Finished(v)'
      BY <3>1, <3>2
    <3>4. JoinInv'
      BY <1>2, <3>1, <3>3 DEF JoinInv
    <3> QED BY <1>2, <3>1, <3>4 DEF PayloadInv
  <2>5. EndInv' /\ outcome' = None
    BY <2>1, <1>6 DEF RunTask, EndInv
  <2> QED BY <2>2, <2>3, <2>4, <2>5
<1>7. ASSUME Join PROVE IInv'
  <2>1. joined \in 0 .. Workers - 1 /\ joined \in Nat /\ Finished(joined) /\ ShapeInv /\ WorkersInv
    BY <1>3, <1>7 DEF Join, ShapeInv
  <2>2. WorkersInv' /\ EndInv'
    BY <1>2, <1>7 DEF Join, WorkersInv, WorkerInv, EndInv, Finished
  <2>3. Cut(joined) \in Nat /\ Cut(joined + 1) \in Nat
    BY <1>3, <2>1, joined + 1 \in Nat, Chunks
  <2>4. CASE joined \in panicked
    <3>1. next[joined] \in input.panics /\ \A i \in Cut(joined) .. next[joined] - 1 : i \notin input.panics
      BY <2>1, <2>4, FinishedWorker
    <3>2. input.panics \subseteq Nat
      BY <1>3, Chunks
    <3>3. \A i \in input.panics : next[joined] <= i
      BY <2>3, <3>1, <3>2 DEF JoinInv
    <3>4. ShapeInv' /\ JoinInv' /\ PayloadInv'
      BY <1>2, <1>7, <2>4, <3>1, <3>3 DEF Join, ShapeInv, JoinInv, PayloadInv, Finished
    <3> QED BY <1>2, <1>7, <2>2, <3>4 DEF Join
  <2>5. CASE joined \notin panicked
    <3>1. /\ \A i \in Cut(joined) .. Cut(joined + 1) - 1 : i \notin input.panics
          /\ [k \in 1 .. Cut(joined) |-> k - 1] \o ResultsOf(joined)
               = [k \in 1 .. Cut(joined + 1) |-> k - 1]
      BY <2>1, <2>5, FinishedWorker
    <3>2. joined' = joined + 1 /\ collected' = collected \o ResultsOf(joined) /\ payload' = payload
      BY <1>7, <2>5 DEF Join
    <3>3. Cut(joined)' = Cut(joined + 1)
      BY <1>1, <3>2 DEF Cut, Size, Workers
    <3>4. JoinInv'
      <4>1. collected' = [k \in 1 .. Cut(joined + 1) |-> k - 1]
        BY <3>1, <3>2 DEF JoinInv
      <4>2. \A i \in 0 .. Cut(joined + 1) - 1 : i \notin input.panics
        BY <2>3, <3>1 DEF JoinInv
      <4>3. ASSUME NEW v \in 0 .. joined PROVE Finished(v)'
        <5>1. Finished(v)
          BY <2>1 DEF JoinInv
        <5> QED BY <1>2, <1>7, <5>1 DEF Join, Finished
      <4>4. \A v \in 0 .. joined' - 1 : Finished(v)'
        BY <2>1, <3>2, <4>3
      <4> QED BY <1>1, <3>3, <4>1, <4>2, <4>4 DEF JoinInv
    <3>5. ShapeInv' /\ PayloadInv'
      BY <1>2, <1>3, <1>7, <2>1, <3>2 DEF Join, ShapeInv, PayloadInv
    <3> QED BY <1>2, <1>7, <2>2, <3>4, <3>5 DEF Join
  <2> QED BY <2>4, <2>5
<1>8. ASSUME Return PROVE IInv'
  <2>1. Cut(Workers) = input.len /\ input.panics \subseteq 0 .. input.len - 1
    BY <1>3, Chunks
  <2>2. joined = Workers /\ spawned = Workers
    BY <1>3, <1>8 DEF Return, ShapeInv, JoinInv
  <2>3. InlineOutcome = [ok |-> collected]
    BY <2>1, <2>2 DEF InlineOutcome, JoinInv
  <2>4. outcome' = [ok |-> collected] /\ UNCHANGED <<input, spawned, next, panicked, joined, collected, payload>>
    BY <1>8 DEF Return
  <2>5. ShapeInv' /\ WorkersInv' /\ JoinInv' /\ PayloadInv'
    BY <1>2, <2>4 DEF ShapeInv, WorkersInv, WorkerInv, JoinInv, PayloadInv, Finished
  <2>6. \A w \in 0 .. Workers - 1 : Finished(w)
    BY <2>2 DEF JoinInv
  <2>7. EndInv'
    BY <1>2, <2>2, <2>3, <2>4, <2>6 DEF EndInv, Finished
  <2> QED BY <1>2, <2>2, <2>4, <2>5, <2>7
<1>9. ASSUME Unwind PROVE IInv'
  <2>1. InlineOutcome = [panic |-> payload]
    BY <1>3, <1>9, FirstPanic DEF Unwind, UnwindAtOnce, PayloadInv
  <2>2. \A w \in 0 .. Workers - 1 : Finished(w)
    BY <1>9 DEF Unwind
  <2>3. spawned = Workers
    BY <1>3, <2>2 DEF Finished, ShapeInv
  <2> QED BY <1>2, <1>9, <2>1, <2>2, <2>3
          DEF Unwind, UnwindAtOnce, ShapeInv, WorkersInv, WorkerInv, JoinInv, PayloadInv, EndInv, Finished
<1>10. CASE UNCHANGED vars
  BY <1>2, <1>10 DEF vars, ShapeInv, WorkersInv, WorkerInv, JoinInv, PayloadInv, EndInv, Finished
<1> QED BY <1>4, <1>5, <1>6, <1>7, <1>8, <1>9, <1>10 DEF Next, Caller

\* The inductive invariant holds in every reachable state.
THEOREM Invariance == Spec => []IInv
BY InitIInv, NextIInv, PTL DEF Spec

----------------------------------------------------------------------------
\* Every call that ends returns the results in index order, or panics with
\* the panic of the first panicking index (parallel_map_indexed).
THEOREM MapsLikeInline == Spec => []OutcomeIsInline
<1>1. IInv => OutcomeIsInline
  BY DEF IInv, EndInv, OutcomeIsInline
<1> QED BY <1>1, Invariance, PTL

\* No worker runs on after the call ended.
THEOREM ScopeHolds == Spec => []NoWorkerOutlives
<1>1. IInv => NoWorkerOutlives
  BY DEF IInv, EndInv, NoWorkerOutlives
<1> QED BY <1>1, Invariance, PTL

----------------------------------------------------------------------------
\* Only workers panic.
PanickedInv == IInv /\ panicked \subseteq 0 .. Workers - 1

\* The type invariant: workers stay in their chunks, and results are indices.
THEOREM TypeCorrect == Spec => []TypeOK
<1>1. Init => PanickedInv
  BY InitIInv DEF Init, PanickedInv
<1>2. PanickedInv /\ [Next]_vars => PanickedInv'
  <2> SUFFICES ASSUME PanickedInv, [Next]_vars PROVE panicked' \subseteq 0 .. Workers' - 1
    BY NextIInv DEF PanickedInv
  <2>1. input' = input /\ panicked \subseteq 0 .. Workers - 1
    BY DEF Next, Caller, Inline, Spawn, Join, Return, Unwind, UnwindAtOnce, RunTask, vars, PanickedInv
  <2>2. Workers' = Workers
    BY <2>1, Steady
  <2>3. panicked' = panicked \/ \E w \in 0 .. Workers - 1 : panicked' = panicked \cup {w}
    BY DEF Next, Caller, Inline, Spawn, Join, Return, Unwind, UnwindAtOnce, RunTask, vars
  <2> QED BY <2>1, <2>2, <2>3
<1>3. PanickedInv => TypeOK
  <2> SUFFICES ASSUME PanickedInv PROVE TypeOK
    OBVIOUS
  <2>1. ShapeInv /\ WorkersInv /\ JoinInv /\ input \in Inputs
    BY DEF PanickedInv, IInv, ShapeInv
  <2>2. /\ input.len \in Nat /\ Workers \in Nat \ {0} /\ Size \in Nat
        /\ \A w \in Nat : Start(w) \in Nat /\ Cut(w) \in Nat /\ Cut(w) <= input.len /\ End(w) <= input.len
    <3>1. input.len \in Nat /\ Workers \in Nat \ {0} /\ Size \in Nat
      BY <2>1, Chunks
    <3>2. ASSUME NEW w \in Nat PROVE Start(w) \in Nat /\ Cut(w) \in Nat /\ End(w) = Cut(w + 1)
      BY <2>1, Chunks
    <3>3. ASSUME NEW w \in Nat, Cut(w) \in Nat PROVE Cut(w) <= input.len
      <4>1. w * Size \in Nat
        BY <3>1
      <4> QED BY <3>1, <4>1 DEF Cut, MinOf
    <3>4. ASSUME NEW w \in Nat PROVE End(w) <= input.len
      BY <3>2, <3>3, w + 1 \in Nat
    <3> QED BY <3>1, <3>2, <3>3, <3>4
  <2>3. ASSUME NEW w \in 0 .. Workers - 1
        PROVE  next[w] = Start(w) \/ next[w] \in Start(w) .. input.len
    <3>1. WorkerInv(w)
      BY <2>1 DEF WorkersInv
    <3>2. next[w] \in Nat /\ w \in Nat
      <4>1. Workers \in Nat /\ next \in [0 .. Workers - 1 -> Nat]
        BY <2>1, <2>2 DEF ShapeInv
      <4> QED BY <4>1
    <3>3. Start(w) \in Nat /\ End(w) <= input.len /\ End(w) \in Int
      BY <2>2, <3>2, Chunks, <2>1, w + 1 \in Nat
    <3> QED BY <2>2, <3>1, <3>2, <3>3 DEF WorkerInv
  <2>4. \A k \in DOMAIN collected : collected[k] \in 0 .. input.len - 1
    <3>1. joined \in Nat /\ collected = [k \in 1 .. Cut(joined) |-> k - 1]
      BY <2>1, <2>2 DEF JoinInv, ShapeInv
    <3>2. Cut(joined) \in Nat /\ Cut(joined) <= input.len
      BY <2>2, <3>1
    <3>3. PICK n \in Nat : n = Cut(joined) /\ n <= input.len
      BY <3>2
    <3>4. collected = [k \in 1 .. n |-> k - 1]
      BY <3>1, <3>3
    <3>5. PICK m \in Nat : m = input.len
      BY <2>2
    <3>6. \A k \in 1 .. n : collected[k] = k - 1 /\ k - 1 \in 0 .. m - 1
      BY <3>3, <3>4, <3>5
    <3>7. DOMAIN collected = 1 .. n
      BY <3>4
    <3> QED BY <3>5, <3>6, <3>7
  <2> QED BY <2>1, <2>3, <2>4 DEF PanickedInv, ShapeInv, TypeOK
<1> QED BY <1>1, <1>2, <1>3, PTL DEF Spec
----------------------------------------------------------------------------
(* parallel_any: the flag is only ever set for a hit, so it is right when  *)
(* set.  When it is clear and all workers are done, none of them skipped,  *)
(* and each has looked through its chunk; together the chunks are all      *)
(* items.                                                                  *)

ScanShapeInv ==
  /\ scanned \in Scans
  /\ started \in 0 .. ChunkCount
  /\ ScanWorkers <= 1 => started = 0
  /\ DOMAIN state = 0 .. ChunkCount - 1

FlagInv ==
  /\ found \in BOOLEAN
  /\ found => scanned.hits # {}
  /\ ~found => \A c \in 0 .. ChunkCount - 1 : state[c] = "done" => ~HasHit(c)

AnswerInv ==
  answer # None =>
    /\ answer = (scanned.hits # {})
    /\ started = ChunkCount \/ ScanWorkers <= 1
    /\ \A c \in 0 .. started - 1 : state[c] = "done"

ScanIInv == ScanShapeInv /\ FlagInv /\ AnswerInv

----------------------------------------------------------------------------
\* Rounding up, a multiple below len is below the count of chunks.
LEMMA Rounding ==
  ASSUME NEW len \in Nat, NEW size \in Nat \ {0}, NEW i \in 0 .. len - 1
  PROVE  /\ i \div size \in 0 .. DivCeil(len, size) - 1
         /\ (i \div size) * size <= i /\ i < (i \div size) * size + size
<1> DEFINE c == i \div size
           n == (len + size - 1) \div size
<1>1. c \in Int /\ size * c <= i /\ i < size * c + size
  OBVIOUS
<1>2. n \in Int /\ size * n <= len + size - 1 /\ len + size - 1 < size * n + size
  OBVIOUS
<1>3. c >= 0
  OBVIOUS
<1> HIDE DEF c, n
<1>4. c < n
  <2> SUFFICES ASSUME n <= c PROVE FALSE
    BY <1>1, <1>2
  <2>1. size * n <= size * c
    BY <1>1, <1>2
  <2>2. PICK p \in Int : p = size * n
    BY <1>2
  <2>3. PICK r \in Int : r = size * c
    BY <1>1
  <2> QED BY <1>1, <1>2, <2>1, <2>2, <2>3
<1>5. c * size = size * c
  BY <1>1
<1>6. PICK r \in Int : r = size * c
  BY <1>1
<1> QED BY <1>1, <1>2, <1>3, <1>4, <1>5, <1>6 DEF c, n, DivCeil

\* A size rounded up is positive.
LEMMA SizePositive ==
  ASSUME NEW len \in Nat \ {0}, NEW w \in Nat \ {0}
  PROVE  DivCeil(len, w) \in Nat \ {0}
<1> DEFINE q == (len + w - 1) \div w
<1>1. q \in Int /\ w * q <= len + w - 1 /\ len + w - 1 < w * q + w
  OBVIOUS
<1>2. q >= 0
  OBVIOUS
<1>3. q # 0
  <2> SUFFICES ASSUME q = 0 PROVE FALSE
    OBVIOUS
  <2> w * q = 0
    OBVIOUS
  <2> QED BY <1>1
<1> QED BY <1>1, <1>2, <1>3 DEF DivCeil

\* The chunks are all items.
LEMMA ChunksCover ==
  ASSUME scanned \in Scans
  PROVE  /\ ChunkCount \in Nat /\ ScanWorkers \in Int
         /\ scanned.hits # {} => \E c \in 0 .. ChunkCount - 1 : HasHit(c)
         /\ \A c : HasHit(c) => scanned.hits # {}
<1>1. scanned.len \in Nat /\ scanned.requested \in Nat \ {0} /\ scanned.hits \subseteq 0 .. scanned.len - 1
  BY InputsAssumption
<1>2. ScanWorkers \in Nat \ {0}
  BY <1>1 DEF ScanWorkers, WorkerCount, MinOf
<1>3. CASE scanned.len = 0
  BY <1>1, <1>2, <1>3 DEF ChunkCount, HasHit
<1>4. CASE scanned.len # 0
  <2>1. ScanSize \in Nat \ {0}
    BY <1>1, <1>2, <1>4, SizePositive DEF ScanSize, ChunkSize
  <2>2. ChunkCount = DivCeil(scanned.len, ScanSize) /\ ChunkCount \in Nat
    BY <1>1, <1>4, <2>1, SizePositive DEF ChunkCount
  <2>3. ASSUME NEW i \in scanned.hits PROVE \E c \in 0 .. ChunkCount - 1 : HasHit(c)
    <3> DEFINE c == i \div ScanSize
    <3>1. i \in 0 .. scanned.len - 1
      BY <1>1
    <3>2. c \in 0 .. ChunkCount - 1 /\ c * ScanSize <= i /\ i < c * ScanSize + ScanSize
      BY <1>1, <2>1, <2>2, <3>1, Rounding
    <3> HIDE DEF c
    <3>3. PICK p \in Int : p = c * ScanSize
      BY <2>1, <2>2, <3>2
    <3>4. i \in Chunk(c)
      BY <1>1, <2>1, <3>1, <3>2, <3>3 DEF Chunk, ChunkStart, ChunkEnd, MinOf
    <3> QED BY <3>2, <3>4 DEF HasHit
  <2> QED BY <1>2, <2>2, <2>3 DEF HasHit
<1> QED BY <1>3, <1>4

\* The arguments of a call stay, and with them how it is cut.
LEMMA ScanSteady ==
  ASSUME scanned' = scanned
  PROVE  /\ ChunkCount' = ChunkCount /\ ScanWorkers' = ScanWorkers
         /\ \A c : HasHit(c)' = HasHit(c)
BY DEF ChunkCount, ScanWorkers, ScanSize, HasHit, Chunk

----------------------------------------------------------------------------
\* The initial states satisfy the inductive invariant.
LEMMA InitScanIInv == ScanInit => ScanIInv
<1> SUFFICES ASSUME ScanInit PROVE ScanIInv
  OBVIOUS
<1>1. ChunkCount \in Nat
  BY ChunksCover DEF ScanInit
<1>2. ScanShapeInv
  BY <1>1 DEF ScanInit, ScanShapeInv
<1>3. FlagInv
  BY <1>1 DEF ScanInit, FlagInv
<1> QED BY <1>2, <1>3 DEF ScanInit, ScanIInv, AnswerInv

\* Every step keeps the inductive invariant, action by action.
LEMMA NextScanIInv == ScanIInv /\ [ScanNext]_scanVars => ScanIInv'
<1> SUFFICES ASSUME ScanIInv, [ScanNext]_scanVars PROVE ScanIInv'
  OBVIOUS
<1> USE DEF ScanIInv, ScanShapeInv, FlagInv, AnswerInv
<1>1. scanned' = scanned
  BY DEF ScanNext, ScanCaller, ScanInline, StartScanner, Answer, Scanner, Skip, BeginTest, EndTest, Move, scanVars
<1>2. /\ ChunkCount' = ChunkCount /\ ScanWorkers' = ScanWorkers
      /\ \A c : HasHit(c)' = HasHit(c)
  BY <1>1, ScanSteady
<1>3. /\ ChunkCount \in Nat
      /\ scanned.hits # {} => \E c \in 0 .. ChunkCount - 1 : HasHit(c)
      /\ \A c : HasHit(c) => scanned.hits # {}
      /\ ScanWorkers \in Int
  BY ChunksCover
<1>4. CASE ScanInline
  <2>1. /\ ScanWorkers <= 1 /\ answer' = (scanned.hits # {})
        /\ UNCHANGED <<scanned, started, state, found>>
    BY <1>4 DEF ScanInline
  <2>2. ScanShapeInv' /\ FlagInv'
    BY <1>2, <2>1
  <2>3. \A c \in 0 .. started - 1 : state[c] = "done"
    BY <2>1
  <2> QED BY <1>2, <2>1, <2>2, <2>3
<1>5. CASE StartScanner
  <2>1. /\ ScanWorkers > 1 /\ started < ChunkCount /\ started' = started + 1
        /\ UNCHANGED <<scanned, state, found, answer>>
    BY <1>5 DEF StartScanner
  <2>2. ScanWorkers \in Int
    BY <1>3
  <2>3. answer = None
    BY <1>3, <2>1, <2>2
  <2>4. ScanShapeInv'
    BY <1>2, <1>3, <2>1, <2>2
  <2> QED BY <1>2, <2>1, <2>3, <2>4
<1>6. CASE Answer
  <2>1. AllDone /\ answer' = found /\ UNCHANGED <<scanned, started, state, found>>
    BY <1>6 DEF Answer
  <2>2. found = (scanned.hits # {})
    BY <1>3, <2>1 DEF AllDone
  <2>3. started = ChunkCount /\ \A c \in 0 .. started - 1 : state[c] = "done"
    BY <2>1 DEF AllDone
  <2>4. ScanShapeInv' /\ FlagInv'
    BY <1>2, <2>1
  <2> QED BY <1>2, <2>1, <2>2, <2>3, <2>4
<1>7. ASSUME NEW c \in 0 .. ChunkCount - 1, NEW from \in {"ready", "testing"}, NEW to,
             Move(c, from, to)
      PROVE  /\ answer = None /\ answer' = None /\ started' = started
             /\ state' = [state EXCEPT ![c] = to]
             /\ ScanShapeInv' /\ AnswerInv'
  <2>1. c \in 0 .. started - 1 /\ state[c] # "done"
    BY <1>3, <1>7 DEF Move
  <2> QED BY <1>1, <1>2, <1>7, <2>1 DEF Move
<1>8. ASSUME NEW c \in 0 .. MaxThreads - 1, Scanner(c) PROVE ScanIInv'
  <2>1. c \in 0 .. ChunkCount - 1
    BY <1>3, <1>8, InputsAssumption DEF Scanner
  <2>2. CASE Skip(c)
    <3>1. /\ found = TRUE /\ found' = found /\ state' = [state EXCEPT ![c] = "done"]
          /\ ScanShapeInv' /\ AnswerInv'
      BY <1>7, <2>1, <2>2 DEF Skip
    <3> QED BY <1>1, <3>1
  <2>3. CASE BeginTest(c)
    <3>1. /\ found' = found /\ state' = [state EXCEPT ![c] = "testing"]
          /\ ScanShapeInv' /\ AnswerInv'
      BY <1>7, <2>1, <2>3 DEF BeginTest
    <3>2. \A d \in 0 .. ChunkCount - 1 : state'[d] = "done" => state[d] = "done"
      BY <2>1, <3>1
    <3>3. FlagInv'
      BY <1>1, <1>2, <3>1, <3>2
    <3> QED BY <3>1, <3>3
  <2>4. CASE EndTest(c)
    <3>1. Move(c, "testing", "done") /\ found' = (found \/ HasHit(c))
      BY <2>4 DEF EndTest
    <3>2. /\ answer = None /\ answer' = None /\ state' = [state EXCEPT ![c] = "done"]
          /\ ScanShapeInv' /\ AnswerInv'
      BY <1>7, <2>1, <3>1
    <3>3. HasHit(c) => scanned.hits # {}
      BY <1>3
    <3>4. CASE HasHit(c)
      <4>1. found' = TRUE
        BY <3>1, <3>4
      <4> QED BY <1>1, <3>2, <3>3, <3>4, <4>1
    <3>5. CASE ~HasHit(c)
      <4>1. found' = found
        BY <3>1, <3>5
      <4> QED BY <1>1, <1>2, <3>2, <3>5, <4>1
    <3> QED BY <3>4, <3>5
  <2> QED BY <1>8, <2>2, <2>3, <2>4 DEF Scanner
<1>9. CASE UNCHANGED scanVars
  BY <1>1, <1>2, <1>9 DEF scanVars
<1> QED BY <1>4, <1>5, <1>6, <1>8, <1>9 DEF ScanNext, ScanCaller

----------------------------------------------------------------------------
\* The answer is the inline one, and no worker is testing items once it is
\* there (parallel_any).
THEOREM AnswersLikeInline == ScanSpec => []ScanIsInline
<1>1. ScanInit => ScanIInv
  BY InitScanIInv
<1>2. ScanIInv /\ [ScanNext]_scanVars => ScanIInv'
  BY NextScanIInv
<1>3. ScanIInv => ScanIsInline
  BY DEF ScanIInv, AnswerInv, ScanIsInline
<1> QED BY <1>1, <1>2, <1>3, PTL DEF ScanSpec

----------------------------------------------------------------------------
(* The group law.                                                          *)

LEMMA Elements ==
  /\ Field = Scalars /\ Field \subseteq Int /\ Order \in Nat /\ Order > 2
  /\ 0 \in Field /\ 1 \in Field /\ 2 \in Field
<1>1. Order \in Nat /\ Order > 2
  BY CurveAssumption
<1> QED BY <1>1 DEF Field, Scalars

LEMMA SameZero ==
  ASSUME NEW a \in Int, NEW b \in Int
  PROVE  Same(a, b) <=> Same(a - b, 0)
<1>1. Same(b, b)
  BY SameIsEquivalence
<1>2. ASSUME Same(a, b) PROVE Same(a - b, 0)
  <2>1. Same(a - b, b - b)
    BY <1>1, <1>2, SameArithmetic
  <2>2. b - b = 0
    OBVIOUS
  <2> QED BY <2>1, <2>2
<1>3. ASSUME Same(a - b, 0) PROVE Same(a, b)
  <2>1. a - b \in Int /\ 0 \in Int
    OBVIOUS
  <2>2. Same((a - b) + b, 0 + b)
    BY <1>1, <1>3, <2>1, SameArithmetic
  <2>3. (a - b) + b = a /\ 0 + b = b
    OBVIOUS
  <2> QED BY <2>2, <2>3
<1> QED BY <1>2, <1>3

\* What vanishes makes every combination vanish.
LEMMA Vanishes ==
  ASSUME NEW a \in Int, NEW b \in Int, NEW x \in Int, NEW y \in Int, Same(a, 0), Same(b, 0)
  PROVE  Same(x * a + y * b, 0)
<1>1. Same(x, x) /\ Same(y, y)
  BY SameIsEquivalence
<1>2. PICK p \in Int, q \in Int : p = x * a /\ q = y * b
  OBVIOUS
<1>3. x * 0 = 0 /\ y * 0 = 0 /\ 0 \in Int
  OBVIOUS
<1>4. Same(p, 0)
  BY <1>1, <1>2, <1>3, SameArithmetic
<1>5. Same(q, 0)
  BY <1>1, <1>2, <1>3, SameArithmetic
<1>6. Same(p + q, 0 + 0)
  BY <1>2, <1>3, <1>4, <1>5, SameArithmetic
<1>7. 0 + 0 = 0
  OBVIOUS
<1> QED BY <1>2, <1>6, <1>7

LEMMA VanishingSum ==
  ASSUME NEW a \in Int, NEW b \in Int, Same(a, 0), Same(b, 0)
  PROVE  Same(a + b, 0)
<1>1. 0 + 0 = 0 /\ 0 \in Int
  OBVIOUS
<1> QED BY <1>1, SameArithmetic

LEMMA VanishingFactor ==
  ASSUME NEW m \in Int, NEW x \in Int, Same(m * x, 0), ~Same(m, 0)
  PROVE  Same(x, 0)
<1>1. PICK n \in Scalars : Same(n, m)
  BY SameReduces
<1>2. n \in Int /\ 0 \in Scalars /\ 0 \in Int
  BY ScalarNumbers
<1>3. n # 0
  BY <1>1, <1>2, SameIsEquivalence
<1>4. PICK p \in Int, q \in Int : p = m * x /\ q = n * x
  BY <1>2
<1>5. Same(q, p)
  <2>1. Same(x, x)
    BY SameIsEquivalence
  <2> QED BY <1>1, <1>2, <1>4, <2>1, SameArithmetic
<1>6. Same(q, 0)
  BY <1>2, <1>4, <1>5, SameIsEquivalence
<1>7. 0 * x = 0
  OBVIOUS
<1>8. Same(n * x, 0 * x)
  BY <1>4, <1>6, <1>7
<1> QED BY <1>2, <1>3, <1>8, Cancel

\* Two is not zero.
LEMMA VanishingDouble ==
  ASSUME NEW x \in Int, Same(2 * x, 0)
  PROVE  Same(x, 0)
<1>1. 2 \in Scalars /\ 0 \in Scalars /\ 2 \in Int /\ 2 # 0
  BY Elements
<1>2. ~Same(2, 0)
  BY <1>1, SameScalars
<1> QED BY <1>1, <1>2, VanishingFactor

----------------------------------------------------------------------------
(* Chord and tangent, in integers.                                         *)

\* The line through <<a, b>> with slope s, and what it leaves of the curve.
Rest(a, b, s, x) == (x * x * x + 7) - (b + s * (x - a)) * (b + s * (x - a))
Cubic(a, c, e, x) == (x - a) * ((x - c) * (x - e))

LEMMA ChordMeets ==
  ASSUME NEW a \in Int, NEW b \in Int, NEW c \in Int, NEW d \in Int, NEW s \in Int, NEW e \in Int,
         Same(b * b, a * a * a + 7), Same(d * d, c * c * c + 7),
         Same(s * (c - a), d - b), ~Same(a, c), Same(e, (s * s - a) - c),
         NEW x \in Int
  PROVE  Same(Rest(a, b, s, x), Cubic(a, c, e, x))
<1> DEFINE h1 == b * b - (a * a * a + 7)
           h2 == d * d - (c * c * c + 7)
           h3 == s * (c - a) - (d - b)
           h4 == e - ((s * s - a) - c)
           f == Rest(a, b, s, x) - Cubic(a, c, e, x)
<1>1. h1 \in Int /\ h2 \in Int /\ h3 \in Int /\ h4 \in Int /\ f \in Int /\ a - c \in Int
  BY DEF Rest, Cubic
<1>2. Same(h1, 0) /\ Same(h2, 0) /\ Same(h3, 0) /\ Same(h4, 0) /\ ~Same(a - c, 0)
  BY SameZero
<1>3. (a - c) * f = (-(x - c)) * h1 + (-(a - x)) * h2
                    + ((a - x) * (-(2 * d + h3)) * h3 + (a - c) * ((x - a) * (x - c)) * h4)
  BY DEF Rest, Cubic
<1> HIDE DEF h1, h2, h3, h4, f
<1>4. PICK t1 \in Int, t2 \in Int, t3 \in Int, t4 \in Int :
        /\ t1 = -(x - c) /\ t2 = -(a - x) /\ t3 = (a - x) * (-(2 * d + h3))
        /\ t4 = (a - c) * ((x - a) * (x - c))
  BY <1>1
<1>5. PICK u \in Int, v \in Int : u = t1 * h1 + t2 * h2 /\ v = t3 * h3 + t4 * h4
  BY <1>1
<1>6. Same(u, 0) /\ Same(v, 0)
  BY <1>1, <1>2, <1>5, Vanishes
<1>7. (a - c) * f = u + v
  BY <1>1, <1>3, <1>4, <1>5
<1>8. Same((a - c) * f, 0)
  BY <1>6, <1>7, VanishingSum
<1>9. Same(f, 0)
  BY <1>1, <1>2, <1>8, VanishingFactor
<1>10. Rest(a, b, s, x) \in Int /\ Cubic(a, c, e, x) \in Int
  BY DEF Rest, Cubic
<1> QED BY <1>9, <1>10, SameZero DEF f

LEMMA TangentMeets ==
  ASSUME NEW a \in Int, NEW b \in Int, NEW s \in Int, NEW e \in Int,
         Same(b * b, a * a * a + 7), Same(s * (2 * b), 3 * (a * a)), Same(e, (s * s - a) - a),
         NEW x \in Int
  PROVE  Same(Rest(a, b, s, x), Cubic(a, a, e, x))
<1> DEFINE h1 == b * b - (a * a * a + 7)
           h2 == s * (2 * b) - 3 * (a * a)
           h3 == e - ((s * s - a) - a)
           f == Rest(a, b, s, x) - Cubic(a, a, e, x)
<1>1. h1 \in Int /\ h2 \in Int /\ h3 \in Int /\ f \in Int
  BY DEF Rest, Cubic
<1>2. Same(h1, 0) /\ Same(h2, 0) /\ Same(h3, 0)
  BY SameZero
<1>3. f = ((-1) * h1 + (a - x) * h2) + ((x - a) * (x - a)) * h3
  BY DEF Rest, Cubic
<1> HIDE DEF h1, h2, h3, f
<1>4. PICK t2 \in Int, t3 \in Int : t2 = a - x /\ t3 = (x - a) * (x - a)
  OBVIOUS
<1>5. PICK u \in Int : u = (-1) * h1 + t2 * h2
  BY <1>1
<1>6. Same(u, 0)
  BY <1>1, <1>2, <1>5, Vanishes
<1>7. PICK v \in Int : v = t3 * h3 + 0 * h3
  BY <1>1
<1>8. Same(f, 0)
  <2>1. Same(v, 0)
    BY <1>1, <1>2, <1>7, Vanishes
  <2>2. f = u + v
    BY <1>1, <1>3, <1>4, <1>5, <1>7
  <2> QED BY <1>6, <2>1, <2>2, VanishingSum
<1>9. Rest(a, b, s, x) \in Int /\ Cubic(a, a, e, x) \in Int
  BY DEF Rest, Cubic
<1> QED BY <1>8, <1>9, SameZero DEF f

\* Two such cubics have the same third root, and the slope of a tangent is
\* determined: two points of the line are enough to see it.
LEMMA SameThird ==
  ASSUME NEW a \in Int, NEW b \in Int, NEW c \in Int, NEW s \in Int, NEW e \in Int, NEW u \in Int,
         \A x \in Int : Same(Rest(a, b, s, x), Cubic(a, c, e, x)),
         \A x \in Int : Same(Rest(a, b, s, x), Cubic(a, c, u, x))
  PROVE  Same(u, e)
<1>1. ASSUME NEW x \in Int PROVE Same(Cubic(a, c, e, x) - Cubic(a, c, u, x), 0)
  <2>1. PICK p \in Int, q \in Int, r \in Int :
          p = Rest(a, b, s, x) /\ q = Cubic(a, c, e, x) /\ r = Cubic(a, c, u, x)
    BY DEF Rest, Cubic
  <2>2. Same(p, q) /\ Same(p, r)
    BY <2>1
  <2>3. Same(q, r)
    BY <2>2, SameIsEquivalence
  <2> QED BY <2>1, <2>3, SameZero
<1>2. PICK g \in Int, h \in Int :
        /\ g = Cubic(a, c, e, a + 1) - Cubic(a, c, u, a + 1)
        /\ h = Cubic(a, c, e, a - 1) - Cubic(a, c, u, a - 1)
  <2>1. Cubic(a, c, e, a + 1) - Cubic(a, c, u, a + 1) \in Int
    BY DEF Cubic
  <2>2. Cubic(a, c, e, a - 1) - Cubic(a, c, u, a - 1) \in Int
    BY DEF Cubic
  <2> QED BY ONLY <2>1, <2>2
<1>3. Same(g, 0) /\ Same(h, 0)
  BY <1>1, <1>2
<1>4. g + h = 2 * (u - e)
  BY <1>2 DEF Cubic
<1>5. Same(u - e, 0)
  <2>1. Same(g + h, 0)
    BY <1>3, VanishingSum
  <2> QED BY <1>4, <2>1, VanishingDouble
<1> QED BY <1>5, SameZero

LEMMA TangentSlope ==
  ASSUME NEW a \in Int, NEW b \in Int, NEW s \in Int, NEW e \in Int,
         \A x \in Int : Same(Rest(a, b, s, x), Cubic(a, a, e, x))
  PROVE  Same(s * (2 * b), 3 * (a * a))
<1>1. PICK g \in Int, h \in Int :
        /\ g = Rest(a, b, s, a + 1) - Cubic(a, a, e, a + 1)
        /\ h = Rest(a, b, s, a - 1) - Cubic(a, a, e, a - 1)
  BY DEF Rest, Cubic
<1>2. Same(g, 0) /\ Same(h, 0)
  <2>1. \A x \in Int : Rest(a, b, s, x) \in Int /\ Cubic(a, a, e, x) \in Int
    BY DEF Rest, Cubic
  <2>2. a + 1 \in Int /\ a - 1 \in Int
    OBVIOUS
  <2>3. Same(Rest(a, b, s, a + 1) - Cubic(a, a, e, a + 1), 0)
    BY <2>1, <2>2, SameZero
  <2>4. Same(Rest(a, b, s, a - 1) - Cubic(a, a, e, a - 1), 0)
    BY <2>1, <2>2, SameZero
  <2> QED BY <1>1, <2>3, <2>4
<1>3. PICK m \in Int : m = s * (2 * b) - 3 * (a * a)
  <2>1. s * (2 * b) - 3 * (a * a) \in Int
    OBVIOUS
  <2> QED BY ONLY <2>1
<1>4. h + (-1) * g = 2 * m
  BY <1>1, <1>3 DEF Rest, Cubic
<1>5. Same(2 * m, 0)
  <2>1. PICK k \in Int : k = (-1) * g + 0 * h
    OBVIOUS
  <2>2. Same(k, 0)
    BY <1>2, <2>1, Vanishes
  <2>3. Same(h + k, 0)
    BY <1>2, <2>2, VanishingSum
  <2>4. h + k = 2 * m
    BY <1>4, <2>1
  <2> QED BY <2>3, <2>4
<1>6. Same(m, 0)
  BY <1>5, VanishingDouble
<1> QED BY <1>3, <1>6, SameZero

----------------------------------------------------------------------------
(* The curve and its lines, in integers.                                   *)

CubeSteps(f, a) ==
  f = [i \in 0 .. 3 |->
        IF i = 0 THEN 1
        ELSE IF i % 2 = 1 THEN Times(f[i - 1], a)
        ELSE LET half == f[i \div 2] IN Times(half, half)]

LEMMA Cube ==
  ASSUME NEW a \in Int
  PROVE  Power(a, 3) \in Int /\ Same(Power(a, 3), a * a * a)
<1> DEFINE p1 == Times(1, a)
           p2 == Times(p1, p1)
           p3 == Times(p2, a)
           g == [i \in 0 .. 3 |-> IF i = 0 THEN 1 ELSE IF i = 1 THEN p1 ELSE IF i = 2 THEN p2 ELSE p3]
           f == CHOOSE h : CubeSteps(h, a)
<1>1. /\ g[0] = 1 /\ g[1] = p1 /\ g[2] = p2 /\ g[3] = p3
      /\ 0 .. 3 = {0, 1, 2, 3} /\ g = [i \in 0 .. 3 |-> g[i]]
  OBVIOUS
<1>2. 1 % 2 = 1 /\ 3 % 2 = 1 /\ 2 % 2 = 0 /\ 2 \div 2 = 1
  OBVIOUS
<1>3. CubeSteps(g, a)
  <2> DEFINE G(i) == IF i = 0 THEN 1
                     ELSE IF i % 2 = 1 THEN Times(g[i - 1], a)
                     ELSE LET half == g[i \div 2] IN Times(half, half)
  <2>1. G(0) = g[0]
    BY <1>1
  <2>2. G(1) = g[1]
    <3>1. 1 - 1 = 0 /\ 1 # 0
      OBVIOUS
    <3> HIDE DEF g
    <3> QED BY <1>1, <1>2, <3>1
  <2>3. G(2) = g[2]
    <3>1. 2 # 0 /\ 2 % 2 # 1
      BY <1>2
    <3> HIDE DEF g
    <3> QED BY <1>1, <1>2, <3>1
  <2>4. G(3) = g[3]
    <3>1. 3 - 1 = 2 /\ 3 # 0
      OBVIOUS
    <3> HIDE DEF g
    <3> QED BY <1>1, <1>2, <3>1
  <2>5. \A i \in 0 .. 3 : G(i) = g[i]
    <3> HIDE DEF G, g
    <3> QED BY <1>1, <2>1, <2>2, <2>3, <2>4
  <2>6. g = [i \in 0 .. 3 |-> G(i)]
    <3> HIDE DEF G, g
    <3> QED BY <1>1, <2>5
  <2> HIDE DEF g
  <2> QED BY <2>6 DEF CubeSteps
<1>4. CubeSteps(f, a)
  <2> HIDE DEF g
  <2> QED BY <1>3
<1>5. Power(a, 3) = f[3]
  BY DEF Power, CubeSteps
<1> HIDE DEF f
<1>6. f[3] = p3
  <2>1. \A i \in 0 .. 3 : f[i] = IF i = 0 THEN 1
                                 ELSE IF i % 2 = 1 THEN Times(f[i - 1], a)
                                 ELSE LET half == f[i \div 2] IN Times(half, half)
    BY <1>4 DEF CubeSteps
  <2>2. f[0] = 1
    BY <2>1
  <2>3. f[1] = Times(f[0], a)
    <3>1. 1 \in 0 .. 3 /\ 1 - 1 = 0 /\ 1 # 0
      OBVIOUS
    <3> QED BY <1>2, <2>1, <3>1
  <2>4. f[2] = Times(f[1], f[1])
    <3>1. 2 \in 0 .. 3 /\ 2 # 0 /\ 2 % 2 # 1
      BY <1>2
    <3> QED BY <1>2, <2>1, <3>1
  <2>5. f[3] = Times(f[2], a)
    <3>1. 3 \in 0 .. 3 /\ 3 - 1 = 2 /\ 3 # 0
      OBVIOUS
    <3> QED BY <1>2, <2>1, <3>1
  <2> QED BY <2>2, <2>3, <2>4, <2>5
<1> HIDE DEF p1, p2, p3, g
<1>7. Same(a, a) /\ Same(1, 1) /\ 1 \in Int
  BY SameIsEquivalence
<1>8. p1 \in Int /\ Same(p1, a)
  <2>1. Times(1, a) \in Int /\ Same(Times(1, a), 1 * a) /\ 1 * a = a
    BY <1>7, SameThrough
  <2> QED BY <2>1 DEF p1
<1>9. p2 \in Int /\ Same(p2, a * a)
  BY <1>8, SameThrough DEF p2
<1>10. p3 \in Int /\ Same(p3, a * a * a)
  <2>1. a * a \in Int /\ (a * a) * a = a * a * a
    OBVIOUS
  <2> QED BY <1>7, <1>9, <2>1, SameThrough DEF p3
<1> QED BY <1>5, <1>6, <1>10

\* The equation of a line's three points holds as it does in integers.
LEMMA CubicIs ==
  ASSUME NEW a \in Int, NEW b \in Int, NEW c \in Int, NEW e \in Int, NEW s \in Int,
         NEW x \in Int, NEW X \in Int, Same(x, X), NEW at, at = Plus(b, Times(s, Minus(x, a)))
  PROVE  /\ at \in Int /\ Same(at, b + s * (X - a))
         /\ Minus(Plus(Power(x, 3), 7), Times(at, at)) = Times(Minus(x, a), Times(Minus(x, c), Minus(x, e)))
              <=> Same(Rest(a, b, s, X), Cubic(a, c, e, X))
<1>1. Same(a, a) /\ Same(b, b) /\ Same(c, c) /\ Same(e, e) /\ Same(s, s) /\ Same(7, 7) /\ 7 \in Int
  BY SameIsEquivalence
<1>2. PICK u \in Int, v \in Int, w \in Int : u = X - a /\ v = X - c /\ w = X - e
  OBVIOUS
<1>3. PICK ma \in Int, mc \in Int, me \in Int :
        /\ ma = Minus(x, a) /\ Same(ma, u) /\ mc = Minus(x, c) /\ Same(mc, v)
        /\ me = Minus(x, e) /\ Same(me, w)
  BY <1>1, <1>2, SameThrough
<1>4. PICK sm \in Int : sm = Times(s, ma) /\ Same(sm, s * u)
  BY <1>1, <1>2, <1>3, SameThrough
<1>5. PICK l \in Int : l = b + s * u
  BY <1>2
<1>6. at \in Int /\ Same(at, l)
  <2>1. s * u \in Int
    BY <1>2
  <2> QED BY <1>1, <1>3, <1>4, <1>5, <2>1, SameThrough
<1>7. PICK sq \in Int : sq = Times(at, at) /\ Same(sq, l * l)
  BY <1>6, SameThrough
<1>8. PICK cu \in Int : cu = Power(x, 3) /\ Same(cu, X * X * X)
  <2>1. PICK y \in Int : y = x * x /\ Same(y, X * X)
    BY SameArithmetic
  <2>2. Same(y * x, (X * X) * X)
    <3>1. X * X \in Int
      OBVIOUS
    <3> QED BY <2>1, <3>1, SameArithmetic
  <2>3. y * x = x * x * x /\ (X * X) * X = X * X * X
    BY <2>1
  <2>4. Same(x * x * x, X * X * X)
    BY <2>2, <2>3
  <2>5. x * x * x \in Int /\ X * X * X \in Int
    OBVIOUS
  <2> QED BY <2>4, <2>5, Cube, SameIsEquivalence
<1>9. PICK cs \in Int : cs = Plus(cu, 7) /\ Same(cs, X * X * X + 7)
  <2>1. X * X * X \in Int
    OBVIOUS
  <2> QED BY <1>1, <1>8, <2>1, SameThrough
<1>10. PICK lhs \in Scalars : lhs = Minus(cs, sq) /\ Same(lhs, (X * X * X + 7) - l * l)
  <2>1. X * X * X + 7 \in Int /\ l * l \in Int
    OBVIOUS
  <2>2. Same(Minus(cs, sq), (X * X * X + 7) - l * l)
    BY <1>7, <1>9, <2>1, SameThrough
  <2>3. Minus(cs, sq) \in Scalars
    BY SameOperations
  <2> QED BY <2>2, <2>3
<1>11. PICK pr \in Int : pr = Times(mc, me) /\ Same(pr, v * w)
  BY <1>3, SameThrough
<1>12. PICK rhs \in Scalars : rhs = Times(ma, pr) /\ Same(rhs, u * (v * w))
  <2>1. v * w \in Int
    OBVIOUS
  <2>2. Same(Times(ma, pr), u * (v * w))
    BY <1>3, <1>11, <2>1, SameThrough
  <2>3. Times(ma, pr) \in Scalars
    BY SameOperations
  <2> QED BY <2>2, <2>3
<1>13. PICK p \in Int, q \in Int :
         p = Rest(a, b, s, X) /\ q = Cubic(a, c, e, X) /\ Same(lhs, p) /\ Same(rhs, q)
  <2>1. Rest(a, b, s, X) = (X * X * X + 7) - l * l /\ Cubic(a, c, e, X) = u * (v * w)
    BY <1>2, <1>5 DEF Rest, Cubic
  <2>2. (X * X * X + 7) - l * l \in Int /\ u * (v * w) \in Int
    OBVIOUS
  <2> QED BY <1>10, <1>12, <2>1, <2>2
<1>14. lhs = rhs <=> Same(p, q)
  <2>1. lhs \in Int /\ rhs \in Int
    BY ScalarNumbers
  <2>2. ASSUME lhs = rhs PROVE Same(p, q)
    BY <1>13, <2>1, <2>2, SameIsEquivalence
  <2>3. ASSUME Same(p, q) PROVE lhs = rhs
    <3>1. Same(lhs, q) /\ Same(q, rhs)
      BY <1>13, <2>1, <2>3, SameIsEquivalence
    <3>2. Same(lhs, rhs)
      BY <2>1, <3>1, SameIsEquivalence
    <3> QED BY <3>2, SameScalars
  <2> QED BY <2>2, <2>3
<1>15. Minus(Plus(Power(x, 3), 7), Times(at, at)) = lhs
       /\ Times(Minus(x, a), Times(Minus(x, c), Minus(x, e))) = rhs
  BY <1>3, <1>7, <1>8, <1>9, <1>10, <1>11, <1>12
<1>16. Same(at, b + s * (X - a))
  BY <1>2, <1>5, <1>6
<1> QED BY <1>6, <1>13, <1>14, <1>15, <1>16

LEMMA OnCurveIs ==
  ASSUME NEW a \in Int, NEW b \in Int
  PROVE  OnCurve(<<a, b>>) <=> Same(b * b, a * a * a + 7)
<1>1. Same(7, 7) /\ 7 \in Int /\ a * a * a \in Int /\ b * b \in Int /\ a * a * a + 7 \in Int
  BY SameIsEquivalence
<1>2. PICK lhs \in Scalars : lhs = Times(b, b) /\ Same(lhs, b * b)
  BY SameOperations
<1>3. PICK c \in Int : c = Power(a, 3) /\ Same(c, a * a * a)
  BY Cube
<1>4. PICK rhs \in Scalars : rhs = Plus(c, 7) /\ Same(rhs, a * a * a + 7)
  <2>1. Plus(c, 7) \in Scalars
    BY <1>1, SameOperations
  <2> QED BY <1>1, <1>3, <2>1, SameThrough
<1>5. lhs \in Int /\ rhs \in Int
  BY ScalarNumbers
<1>6. OnCurve(<<a, b>>) <=> lhs = rhs
  BY <1>2, <1>3, <1>4 DEF OnCurve
<1>7. ASSUME lhs = rhs PROVE Same(b * b, a * a * a + 7)
  <2>1. Same(b * b, lhs)
    BY <1>1, <1>2, <1>5, SameIsEquivalence
  <2>2. Same(lhs, a * a * a + 7)
    BY <1>4, <1>7
  <2> QED BY <1>1, <1>5, <2>1, <2>2, SameIsEquivalence
<1>8. ASSUME Same(b * b, a * a * a + 7) PROVE lhs = rhs
  <2>1. Same(lhs, a * a * a + 7)
    BY <1>1, <1>2, <1>5, <1>8, SameIsEquivalence
  <2>2. Same(a * a * a + 7, rhs)
    BY <1>1, <1>4, <1>5, SameIsEquivalence
  <2>3. Same(lhs, rhs)
    BY <1>1, <1>5, <2>1, <2>2, SameIsEquivalence
  <2> QED BY <2>3, SameScalars
<1> QED BY <1>6, <1>7, <1>8

\* A line through three points, in integers.
Line(s, a, b, c, d, e, z) ==
  /\ Same(b + s * (c - a), d) /\ Same(b + s * (e - a), z)
  /\ \A x \in Int : Same(Rest(a, b, s, x), Cubic(a, c, e, x))

LEMMA LineIs ==
  ASSUME NEW a \in Field, NEW b \in Field, NEW c \in Field, NEW d \in Field,
         NEW e \in Field, NEW z \in Field
  PROVE  OnOneLine(<<a, b>>, <<c, d>>, <<e, z>>) <=> \E s \in Field : Line(s, a, b, c, d, e, z)
<1>1. Field \subseteq Int /\ Field = Scalars
  BY Elements
<1> DEFINE At(s, x) == Plus(b, Times(s, Minus(x, a)))
           Meets(s, x) == Minus(Plus(Power(x, 3), 7), Times(At(s, x), At(s, x)))
                            = Times(Minus(x, a), Times(Minus(x, c), Minus(x, e)))
           Through(s) == /\ At(s, c) = d /\ At(s, e) = z
                         /\ \A x \in Field : Meets(s, x)
<1>2. OnOneLine(<<a, b>>, <<c, d>>, <<e, z>>) <=> \E s \in Field : Through(s)
  BY DEF OnOneLine
<1>3. ASSUME NEW s \in Field, NEW x \in Int, NEW X \in Int, Same(x, X)
      PROVE  /\ At(s, x) \in Int /\ Same(At(s, x), b + s * (X - a))
             /\ Meets(s, x) <=> Same(Rest(a, b, s, X), Cubic(a, c, e, X))
  <2>1. s \in Int /\ a \in Int /\ b \in Int /\ c \in Int /\ e \in Int
    BY <1>1
  <2> DEFINE at == At(s, x)
  <2>2. at = Plus(b, Times(s, Minus(x, a)))
    OBVIOUS
  <2>3. Meets(s, x) <=> Minus(Plus(Power(x, 3), 7), Times(at, at))
                          = Times(Minus(x, a), Times(Minus(x, c), Minus(x, e)))
    OBVIOUS
  <2> HIDE DEF at
  <2>4. /\ at \in Int /\ Same(at, b + s * (X - a))
        /\ Minus(Plus(Power(x, 3), 7), Times(at, at)) = Times(Minus(x, a), Times(Minus(x, c), Minus(x, e)))
             <=> Same(Rest(a, b, s, X), Cubic(a, c, e, X))
    BY <1>3, <2>1, <2>2, CubicIs
  <2> HIDE DEF Meets
  <2> QED BY <2>3, <2>4 DEF at
<1>4. ASSUME NEW s \in Field, NEW x \in Field, NEW y \in Field
      PROVE  At(s, x) = y <=> Same(b + s * (x - a), y)
  <2>1. s \in Int /\ x \in Int /\ y \in Int /\ a \in Int /\ b \in Int /\ Same(x, x)
    BY <1>1, SameIsEquivalence
  <2>2. PICK l \in Int : l = b + s * (x - a)
    BY <2>1
  <2>3. PICK t \in Scalars : t = At(s, x)
    <3>1. Minus(x, a) \in Int
      BY <2>1, SameOperations, ScalarNumbers
    <3>2. Times(s, Minus(x, a)) \in Int
      BY <2>1, <3>1, SameOperations, ScalarNumbers
    <3>3. Plus(b, Times(s, Minus(x, a))) \in Scalars
      BY <2>1, <3>2, SameOperations
    <3> QED BY <3>3
  <2>4. Same(t, l)
    <3> HIDE DEF At
    <3> QED BY <1>3, <2>1, <2>2, <2>3
  <2>5. t \in Int /\ y \in Scalars
    BY <1>1, ScalarNumbers
  <2>6. t = y => Same(l, y)
    BY <2>2, <2>4, <2>5, SameIsEquivalence
  <2>7. Same(l, y) => t = y
    <3> HAVE Same(l, y)
    <3>1. Same(t, y)
      BY <2>1, <2>2, <2>4, <2>5, SameIsEquivalence
    <3> QED BY <2>5, <3>1, SameScalars
  <2> HIDE DEF At
  <2> QED BY <2>2, <2>3, <2>6, <2>7
<1>5. ASSUME NEW s \in Field PROVE Through(s) <=> Line(s, a, b, c, d, e, z)
  <2>1. At(s, c) = d <=> Same(b + s * (c - a), d)
    BY <1>4
  <2>2. At(s, e) = z <=> Same(b + s * (e - a), z)
    BY <1>4
  <2>3. ASSUME \A x \in Field : Meets(s, x), NEW X \in Int
        PROVE  Same(Rest(a, b, s, X), Cubic(a, c, e, X))
    <3>1. PICK x \in Field : Same(x, X)
      BY <1>1, SameReduces
    <3>2. x \in Int
      BY <1>1
    <3> HIDE DEF Meets
    <3> QED BY <1>3, <2>3, <3>1, <3>2
  <2>4. ASSUME \A X \in Int : Same(Rest(a, b, s, X), Cubic(a, c, e, X)), NEW x \in Field
        PROVE  Meets(s, x)
    <3>1. x \in Int /\ Same(x, x)
      BY <1>1, SameIsEquivalence
    <3> HIDE DEF Meets
    <3> QED BY <1>3, <2>4, <3>1
  <2> HIDE DEF At, Meets
  <2> QED BY <2>1, <2>2, <2>3, <2>4 DEF Line
<1> HIDE DEF Through
<1> QED BY <1>2, <1>5

LEMMA PointIs ==
  ASSUME NEW p \in CurvePoints
  PROVE  /\ p[1] \in Field /\ p[2] \in Field /\ p = <<p[1], p[2]>> /\ p # AtInfinity
         /\ p[1] \in Int /\ p[2] \in Int /\ OnCurve(p)
         /\ Same(p[2] * p[2], p[1] * p[1] * p[1] + 7)
<1>1. p \in Field \X Field /\ OnCurve(p)
  BY DEF CurvePoints
<1>2. p[1] \in Field /\ p[2] \in Field /\ p = <<p[1], p[2]>> /\ p # AtInfinity
  BY <1>1 DEF AtInfinity
<1>3. p[1] \in Int /\ p[2] \in Int
  BY <1>2, Elements
<1> QED BY <1>1, <1>2, <1>3, OnCurveIs

\* The y coordinate of a negated point.
LEMMA NegatedIs ==
  ASSUME NEW y \in Field
  PROVE  Minus(0, y) \in Field /\ Minus(0, y) \in Int /\ Same(Minus(0, y), -y)
<1>1. y \in Int /\ 0 \in Int /\ Field = Scalars
  BY Elements
<1>2. 0 - y = -y
  BY <1>1
<1> QED BY <1>1, <1>2, SameOperations, ScalarNumbers

\* If a line meets the curve, and is the only one that does, the formulas
\* yield the point that the group law chooses.
LEMMA ThirdPoint ==
  ASSUME NEW p \in CurvePoints, NEW q \in CurvePoints, NEW s \in Field, q # NegatedPoint(p),
         Same(p[2] + s * (q[1] - p[1]), q[2]),
         \A e \in Int : Same(e, (s * s - p[1]) - q[1])
           => \A x \in Int : Same(Rest(p[1], p[2], s, x), Cubic(p[1], q[1], e, x)),
         \A t, u, z \in Field : Line(t, p[1], p[2], q[1], q[2], u, z) => t = s
  PROVE  /\ Sum(p, q) = <<XSum(s, p, q), YSum(s, p, XSum(s, p, q))>>
         /\ Sum(p, q) \in CurvePoints
<1>1. PICK a \in Field, b \in Field, c \in Field, d \in Field :
        a = p[1] /\ b = p[2] /\ c = q[1] /\ d = q[2] /\ p = <<a, b>> /\ q = <<c, d>>
  BY PointIs
<1>2. /\ a \in Int /\ b \in Int /\ c \in Int /\ d \in Int /\ s \in Int /\ Field = Scalars
      /\ p # AtInfinity /\ q # AtInfinity /\ Scalars \subseteq Int
  BY PointIs, Elements
<1>3. Same(a, a) /\ Same(b, b) /\ Same(c, c) /\ Same(s, s)
  BY <1>2, SameIsEquivalence
<1>4. PICK e \in Field : e = XSum(s, p, q) /\ Same(e, (s * s - a) - c) /\ e \in Int
  <2>1. PICK ss \in Int : ss = Times(s, s) /\ Same(ss, s * s)
    BY <1>2, <1>3, SameThrough
  <2>2. PICK m \in Int : m = Minus(ss, a) /\ Same(m, s * s - a)
    <3>1. s * s \in Int
      BY <1>2
    <3> QED BY <1>2, <1>3, <2>1, <3>1, SameThrough
  <2>3. PICK e \in Scalars : e = Minus(m, c) /\ Same(e, (s * s - a) - c)
    <3>1. s * s - a \in Int
      BY <1>2
    <3>2. Minus(m, c) \in Scalars
      BY <1>2, SameOperations
    <3> QED BY <1>2, <1>3, <2>2, <3>1, <3>2, SameThrough
  <2> QED BY <1>1, <1>2, <2>1, <2>2, <2>3 DEF XSum
<1>5. PICK l \in Int : l = b + s * (e - a)
  BY <1>2, <1>4
<1>6. PICK z \in Field : z = YSum(s, p, e) /\ Same(z, -l) /\ z \in Int
  <2>1. PICK m \in Int : m = Minus(a, e) /\ Same(m, a - e)
    BY <1>2, <1>4, SameOperations
  <2>2. PICK k \in Int : k = Times(s, m) /\ Same(k, s * (a - e))
    <3>1. a - e \in Int
      BY <1>2, <1>4
    <3> QED BY <1>2, <1>3, <2>1, <3>1, SameThrough
  <2>3. PICK z \in Scalars : z = Minus(k, b) /\ Same(z, s * (a - e) - b)
    <3>1. s * (a - e) \in Int
      BY <1>2, <1>4
    <3>2. Minus(k, b) \in Scalars
      BY <1>2, SameOperations
    <3> QED BY <1>2, <1>3, <2>2, <3>1, <3>2, SameThrough
  <2>4. s * (a - e) - b = -l
    BY <1>2, <1>4, <1>5
  <2> QED BY <1>1, <1>2, <2>1, <2>2, <2>3, <2>4 DEF YSum
<1>7. \A x \in Int : Same(Rest(a, b, s, x), Cubic(a, c, e, x))
  BY <1>1, <1>4
<1>8. Same(z * z, e * e * e + 7)
  <2>1. PICK g \in Int : g = (e * e * e + 7) - l * l
    BY <1>4, <1>5
  <2>2. Rest(a, b, s, e) = g /\ Cubic(a, c, e, e) = 0
    BY <1>2, <1>4, <1>5, <2>1 DEF Rest, Cubic
  <2>3. Same(g, 0)
    BY <1>4, <1>7, <2>2
  <2>4. e * e * e + 7 \in Int /\ l * l \in Int /\ z * z \in Int
    BY <1>4, <1>5, <1>6
  <2>5. Same(e * e * e + 7, l * l)
    BY <2>1, <2>3, <2>4, SameZero
  <2>6. Same(z * z, (-l) * (-l)) /\ (-l) * (-l) = l * l
    BY <1>5, <1>6, SameArithmetic
  <2>7. Same(l * l, e * e * e + 7)
    BY <2>4, <2>5, SameIsEquivalence
  <2> QED BY <2>4, <2>6, <2>7, SameIsEquivalence
<1> DEFINE R == <<e, z>>
<1>9. R \in CurvePoints
  BY <1>4, <1>6, <1>8, OnCurveIs DEF CurvePoints
<1>10. ASSUME NEW y \in Field PROVE NegatedPoint(<<e, y>>) = <<e, Minus(0, y)>>
  BY DEF NegatedPoint, AtInfinity
<1>11. OnOneLine(p, q, NegatedPoint(R))
  <2>1. PICK n \in Field : n = Minus(0, z) /\ Same(n, -z) /\ n \in Int
    BY NegatedIs
  <2>2. Same(l, n)
    <3>1. Same(0 - z, 0 - (-l))
      <4>1. Same(0, 0) /\ -l \in Int
        BY SameIsEquivalence
      <4> QED BY <1>6, <4>1, SameArithmetic
    <3>2. 0 - z = -z /\ 0 - (-l) = l /\ -z \in Int
      BY <1>6
    <3>3. Same(-z, l)
      BY <3>1, <3>2
    <3>4. Same(n, l)
      BY <2>1, <3>2, <3>3, SameIsEquivalence
    <3> QED BY <2>1, <3>4, SameIsEquivalence
  <2>3. Line(s, a, b, c, d, e, n)
    BY <1>1, <1>5, <1>7, <2>2 DEF Line
  <2>4. OnOneLine(<<a, b>>, <<c, d>>, <<e, n>>)
    BY <2>3, LineIs
  <2> QED BY <1>1, <1>10, <2>1, <2>4
<1>12. ASSUME NEW S \in CurvePoints, OnOneLine(p, q, NegatedPoint(S)) PROVE S = R
  <2>1. PICK u \in Field, y \in Field : S = <<u, y>> /\ u \in Int /\ y \in Int
    BY PointIs
  <2>2. PICK n \in Field : n = Minus(0, y) /\ Same(n, -y) /\ n \in Int
    BY NegatedIs
  <2>3. NegatedPoint(S) = <<u, n>>
    BY <2>1, <2>2 DEF NegatedPoint, AtInfinity
  <2>4. OnOneLine(<<a, b>>, <<c, d>>, <<u, n>>)
    BY <1>1, <1>12, <2>3
  <2>5. PICK t \in Field : Line(t, a, b, c, d, u, n)
    BY <2>4, LineIs
  <2>6. t = s
    BY <1>1, <2>5
  <2>7. Same(b + s * (u - a), n) /\ \A x \in Int : Same(Rest(a, b, s, x), Cubic(a, c, u, x))
    BY <2>5, <2>6 DEF Line
  <2>8. Same(u, e)
    BY <1>2, <1>4, <1>7, <2>1, <2>7, SameThird
  <2>9. u = e
    BY <1>2, <2>8, SameScalars
  <2>10. Same(l, n)
    BY <1>5, <2>7, <2>9
  <2>11. Same(l, -y)
    <3>1. -y \in Int
      BY <2>1
    <3> QED BY <2>2, <2>10, <3>1, SameIsEquivalence
  <2>12. Same(y, -l)
    <3>1. Same(0, 0) /\ -y \in Int
      BY <2>1, SameIsEquivalence
    <3>2. Same(0 - l, 0 - (-y))
      BY <2>11, <3>1, SameArithmetic
    <3>3. 0 - l = -l /\ 0 - (-y) = y /\ -l \in Int
      BY <2>1
    <3>4. Same(-l, y)
      BY <3>2, <3>3
    <3> QED BY <2>1, <3>3, <3>4, SameIsEquivalence
  <2>13. Same(y, z)
    <3>1. -l \in Int
      OBVIOUS
    <3>2. Same(-l, z)
      BY <1>6, <3>1, SameIsEquivalence
    <3> QED BY <1>6, <2>1, <2>12, <3>1, <3>2, SameIsEquivalence
  <2>14. y = z
    BY <1>2, <2>13, SameScalars
  <2> QED BY <2>1, <2>9, <2>14
<1> HIDE DEF R
<1>13. Sum(p, q) = CHOOSE S \in CurvePoints : OnOneLine(p, q, NegatedPoint(S))
  BY <1>2 DEF Sum
<1>14. Sum(p, q) = R
  BY <1>9, <1>11, <1>12, <1>13
<1> QED BY <1>4, <1>6, <1>9, <1>14 DEF R

LEMMA ChordSum ==
  ASSUME NEW p \in CurvePoints, NEW q \in CurvePoints, p[1] # q[1],
         NEW i \in Field, Times(Minus(q[1], p[1]), i) = 1
  PROVE  Sum(p, q) \in CurvePoints /\ Sum(p, q) = SumPoint("chord", p, q, i)
<1>1. PICK a \in Field, b \in Field, c \in Field, d \in Field :
        a = p[1] /\ b = p[2] /\ c = q[1] /\ d = q[2] /\ p = <<a, b>> /\ q = <<c, d>>
  BY PointIs
<1>2. /\ a \in Int /\ b \in Int /\ c \in Int /\ d \in Int /\ i \in Int /\ Field = Scalars
      /\ Scalars \subseteq Int /\ 0 \in Int /\ 1 \in Int
  BY <1>1, PointIs, Elements
<1>3. Same(i, i) /\ Same(a, a) /\ Same(c, c)
  BY <1>2, SameIsEquivalence
<1>4. PICK x \in Int, y \in Int : x = c - a /\ y = d - b
  BY <1>2
<1>5. Same(x * i, 1)
  <2>1. PICK m \in Int : m = Minus(c, a) /\ Same(m, x)
    BY <1>2, <1>3, <1>4, SameThrough
  <2>2. Same(Times(m, i), x * i)
    BY <1>2, <1>3, <1>4, <2>1, SameThrough
  <2>3. x * i \in Int
    BY <1>2
  <2> QED BY <1>1, <1>2, <2>1, <2>2, <2>3, SameIsEquivalence
<1>6. PICK s \in Field : s = Slope("chord", p, q, i) /\ s \in Int /\ Same(s, y * i)
  <2>1. PICK m \in Int : m = Minus(d, b) /\ Same(m, y)
    BY <1>2, <1>4, SameOperations
  <2>2. Times(m, i) \in Scalars /\ Same(Times(m, i), y * i)
    BY <1>2, <1>3, <1>4, <2>1, SameOperations, SameThrough
  <2> QED BY <1>1, <1>2, <2>1, <2>2 DEF Slope
<1>7. Same(s * x, y)
  <2>1. PICK g \in Int, h \in Int : g = s - y * i /\ h = x * i - 1
    BY <1>2
  <2>2. Same(g, 0) /\ Same(h, 0)
    <3>1. y * i \in Int /\ x * i \in Int
      BY <1>2
    <3> QED BY <1>2, <1>5, <1>6, <2>1, <3>1, SameZero
  <2>3. s * x - y = x * g + y * h
    BY <1>2, <2>1
  <2>4. Same(x * g + y * h, 0)
    BY <2>2, Vanishes
  <2>5. s * x \in Int
    BY <1>6
  <2> QED BY <2>3, <2>4, <2>5, SameZero
<1>8. ~Same(a, c) /\ ~Same(x, 0)
  <2>1. ~Same(a, c)
    BY <1>1, <1>2, SameScalars
  <2>2. ~Same(c, a)
    BY <1>2, <2>1, SameIsEquivalence
  <2> QED BY <1>2, <1>4, <2>1, <2>2, SameZero
<1>9. Same(b + s * (c - a), d)
  <2>1. Same(b, b)
    BY <1>2, SameIsEquivalence
  <2>2. s * x \in Int
    BY <1>6
  <2>3. Same(b + s * x, b + y)
    BY <1>2, <1>7, <2>1, <2>2, SameArithmetic
  <2>4. b + y = d
    BY <1>2, <1>4
  <2> QED BY <1>4, <2>3, <2>4
<1>10. ASSUME NEW e \in Int, Same(e, (s * s - a) - c), NEW z \in Int
       PROVE  Same(Rest(a, b, s, z), Cubic(a, c, e, z))
  <2>1. Same(b * b, a * a * a + 7) /\ Same(d * d, c * c * c + 7)
    BY <1>1, PointIs
  <2>2. Same(s * (c - a), d - b)
    BY <1>4, <1>7
  <2> QED BY <1>2, <1>6, <1>8, <1>10, <2>1, <2>2, ChordMeets
<1>11. ASSUME NEW t \in Field, NEW u \in Field, NEW z \in Field, Line(t, a, b, c, d, u, z)
       PROVE  t = s
  <2>1. t \in Int /\ t \in Scalars /\ s \in Scalars
    BY <1>2
  <2>2. Same(b + t * x, d)
    BY <1>4, <1>11 DEF Line
  <2>3. Same(t * x, y)
    <3>1. PICK k \in Int : k = t * x
      BY <2>1
    <3>2. Same(b, b)
      BY <1>2, SameIsEquivalence
    <3>3. Same((b + k) - b, d - b)
      <4>1. b + k \in Int
        BY <1>2
      <4> QED BY <1>2, <2>2, <3>1, <3>2, <4>1, SameArithmetic
    <3>4. (b + k) - b = k
      BY <1>2
    <3> QED BY <1>4, <3>1, <3>3, <3>4
  <2>4. Same(t * x, s * x)
    <3>1. PICK k \in Int, l \in Int : k = t * x /\ l = s * x
      BY <2>1, <1>6
    <3> QED BY <1>7, <2>3, <3>1, SameIsEquivalence
  <2> QED BY <1>8, <2>1, <2>4, Cancel
<1>12. q # NegatedPoint(p)
  BY <1>1 DEF NegatedPoint, AtInfinity
<1>13. Sum(p, q) = <<XSum(s, p, q), YSum(s, p, XSum(s, p, q))>> /\ Sum(p, q) \in CurvePoints
  BY <1>1, <1>9, <1>10, <1>11, <1>12, ThirdPoint
<1> QED BY <1>6, <1>13 DEF SumPoint

LEMMA TangentSum ==
  ASSUME NEW p \in CurvePoints, NEW i \in Field, Times(Times(2, p[2]), i) = 1
  PROVE  Sum(p, p) \in CurvePoints /\ Sum(p, p) = SumPoint("tangent", p, p, i)
<1>1. PICK a \in Field, b \in Field : a = p[1] /\ b = p[2] /\ p = <<a, b>>
  BY PointIs
<1>2. /\ a \in Int /\ b \in Int /\ i \in Int /\ Field = Scalars /\ Scalars \subseteq Int
      /\ 0 \in Int /\ 1 \in Int /\ 2 \in Int /\ 3 \in Int /\ 0 \in Scalars /\ 1 \in Scalars
  BY <1>1, PointIs, Elements
<1>3. Same(i, i) /\ Same(2, 2) /\ Same(b, b) /\ Same(3, 3)
  BY <1>2, SameIsEquivalence
<1>4. PICK x \in Int, y \in Int : x = 2 * b /\ y = 3 * (a * a)
  BY <1>2
<1>5. Same(x * i, 1)
  <2>1. PICK m \in Int : m = Times(2, b) /\ Same(m, x)
    BY <1>2, <1>3, <1>4, SameThrough
  <2>2. Same(Times(m, i), x * i)
    BY <1>2, <1>3, <1>4, <2>1, SameThrough
  <2>3. x * i \in Int
    BY <1>2
  <2> QED BY <1>1, <1>2, <2>1, <2>2, <2>3, SameIsEquivalence
<1>6. PICK s \in Field : s = Slope("tangent", p, p, i) /\ s \in Int /\ Same(s, y * i)
  <2>1. PICK k \in Int : k = Times(a, a) /\ Same(k, a * a)
    BY <1>2, SameOperations
  <2>2. PICK m \in Int : m = Times(3, k) /\ Same(m, y)
    <3>1. a * a \in Int
      BY <1>2
    <3> QED BY <1>2, <1>3, <1>4, <2>1, <3>1, SameThrough
  <2>3. Times(m, i) \in Scalars /\ Same(Times(m, i), y * i)
    BY <1>2, <1>3, <1>4, <2>2, SameOperations, SameThrough
  <2> QED BY <1>1, <1>2, <2>1, <2>2, <2>3 DEF Slope
<1>7. Same(s * x, y)
  <2>1. PICK g \in Int, h \in Int : g = s - y * i /\ h = x * i - 1
    BY <1>2
  <2>2. Same(g, 0) /\ Same(h, 0)
    <3>1. y * i \in Int /\ x * i \in Int
      BY <1>2
    <3> QED BY <1>2, <1>5, <1>6, <2>1, <3>1, SameZero
  <2>3. s * x - y = x * g + y * h
    BY <1>2, <2>1
  <2>4. Same(x * g + y * h, 0)
    BY <2>2, Vanishes
  <2>5. s * x \in Int
    BY <1>6
  <2> QED BY <2>3, <2>4, <2>5, SameZero
<1>8. ~Same(x, 0)
  <2> SUFFICES ASSUME Same(x, 0) PROVE FALSE
    OBVIOUS
  <2>1. Same(x * i, 0 * i) /\ 0 * i = 0 /\ x * i \in Int
    BY <1>2, <1>3, SameArithmetic
  <2>2. Same(1, 0)
    BY <1>2, <1>5, <2>1, SameIsEquivalence
  <2> QED BY <1>2, <2>2, SameScalars
<1>9. Same(b + s * (a - a), b)
  <2>1. b + s * (a - a) = b
    BY <1>2, <1>6
  <2> QED BY <1>3, <2>1
<1>10. ASSUME NEW e \in Int, Same(e, (s * s - a) - a), NEW z \in Int
       PROVE  Same(Rest(a, b, s, z), Cubic(a, a, e, z))
  <2>1. Same(b * b, a * a * a + 7)
    BY <1>1, PointIs
  <2>2. Same(s * (2 * b), 3 * (a * a))
    BY <1>4, <1>7
  <2> QED BY <1>2, <1>6, <1>10, <2>1, <2>2, TangentMeets
<1>11. ASSUME NEW t \in Field, NEW u \in Field, NEW z \in Field, Line(t, a, b, a, b, u, z)
       PROVE  t = s
  <2>1. t \in Int /\ t \in Scalars /\ s \in Scalars /\ u \in Int
    BY <1>2
  <2>2. \A k \in Int : Same(Rest(a, b, t, k), Cubic(a, a, u, k))
    BY <1>11 DEF Line
  <2>3. Same(t * (2 * b), 3 * (a * a))
    BY <1>2, <2>1, <2>2, TangentSlope
  <2>4. Same(t * x, s * x)
    <3>1. PICK k \in Int, l \in Int : k = t * x /\ l = s * x
      BY <2>1, <1>6
    <3> QED BY <1>4, <1>7, <2>3, <3>1, SameIsEquivalence
  <2> QED BY <1>8, <2>1, <2>4, Cancel
<1>12. p # NegatedPoint(p)
  <2> SUFFICES ASSUME p = NegatedPoint(p) PROVE FALSE
    OBVIOUS
  <2>1. b = Minus(0, b)
    BY <1>1 DEF NegatedPoint, AtInfinity
  <2>2. Same(b, -b)
    BY <2>1, NegatedIs
  <2>3. -b \in Int /\ b - (-b) = x
    BY <1>2, <1>4
  <2> QED BY <1>2, <1>8, <2>2, <2>3, SameZero
<1>13. Sum(p, p) = <<XSum(s, p, p), YSum(s, p, XSum(s, p, p))>> /\ Sum(p, p) \in CurvePoints
  BY <1>1, <1>9, <1>10, <1>11, <1>12, ThirdPoint
<1> QED BY <1>6, <1>13 DEF SumPoint

LEMMA InverseOf ==
  ASSUME NEW x \in Int, ~Same(x, 0), NEW m \in Field, Same(m, x)
  PROVE  m # 0 /\ Inverted(m) \in Field /\ Times(m, Inverted(m)) = 1
<1>1. m \in Scalars /\ m \in Int /\ Field = Scalars /\ 0 \in Int
  BY Elements
<1>2. m # 0
  BY <1>1, SameIsEquivalence
<1> QED BY <1>1, <1>2, InverseIs

\* Two points with one abscissa are equal or opposite.
LEMMA OneAbscissa ==
  ASSUME NEW p \in CurvePoints, NEW q \in CurvePoints, p[1] = q[1]
  PROVE  /\ Plus(p[2], q[2]) = 0 <=> q = NegatedPoint(p)
         /\ Plus(p[2], q[2]) # 0 => p = q /\ ~Same(2 * p[2], 0)
<1>1. PICK a \in Field, b \in Field, d \in Field :
        a = p[1] /\ b = p[2] /\ a = q[1] /\ d = q[2] /\ p = <<a, b>> /\ q = <<a, d>>
  BY PointIs
<1>2. a \in Int /\ b \in Int /\ d \in Int /\ Field = Scalars /\ 0 \in Scalars /\ 0 \in Int /\ Scalars \subseteq Int
  BY <1>1, Elements
<1>3. Plus(b, d) \in Scalars /\ Same(Plus(b, d), b + d)
  BY <1>2, SameOperations
<1>4. Plus(b, d) = 0 <=> Same(b + d, 0)
  <2>1. Plus(b, d) \in Int /\ b + d \in Int
    <3>1. Plus(b, d) \in Int
      BY <1>2, <1>3
    <3>2. b + d \in Int
      BY <1>2
    <3> QED BY <3>1, <3>2
  <2>2. ASSUME Plus(b, d) = 0 PROVE Same(b + d, 0)
    BY <1>2, <1>3, <2>1, <2>2, SameIsEquivalence
  <2>3. ASSUME Same(b + d, 0) PROVE Plus(b, d) = 0
    <3>1. Same(Plus(b, d), 0)
      BY <1>2, <1>3, <2>1, <2>3, SameIsEquivalence
    <3> QED BY <1>2, <1>3, <3>1, SameScalars
  <2> QED BY <2>2, <2>3
<1>5. NegatedPoint(p) = <<a, Minus(0, b)>>
  BY <1>1 DEF NegatedPoint, AtInfinity
<1>6. q = NegatedPoint(p) <=> d = Minus(0, b)
  BY <1>1, <1>5
<1>7. PICK n \in Scalars : n = Minus(0, b) /\ Same(n, -b) /\ n \in Int
  BY <1>2, NegatedIs
<1>8. d = n <=> Same(b + d, 0)
  <2>1. b + d = d - (-b) /\ -b \in Int
    BY <1>2
  <2>2. Same(b + d, 0) <=> Same(d, -b)
    BY <1>2, <2>1, SameZero
  <2>3. ASSUME Same(d, -b) PROVE d = n
    <3>1. Same(-b, n)
      BY <1>7, <2>1, SameIsEquivalence
    <3>2. Same(d, n)
      BY <1>2, <1>7, <2>1, <2>3, <3>1, SameIsEquivalence
    <3> QED BY <1>2, <3>2, SameScalars
  <2> QED BY <1>7, <2>2, <2>3
<1>9. ASSUME ~Same(b + d, 0) PROVE b = d /\ ~Same(2 * b, 0)
  <2>1. PICK k \in Int, l \in Int, c \in Int : k = b * b /\ l = d * d /\ c = a * a * a + 7
    BY <1>2
  <2>2. Same(k, c) /\ Same(l, c)
    BY <1>1, <2>1, PointIs
  <2>3. Same(k, l)
    BY <2>2, SameIsEquivalence
  <2>4. Same(k - l, 0)
    BY <2>3, SameZero
  <2>5. k - l = (b + d) * (b - d) /\ b + d \in Int /\ b - d \in Int
    BY <1>2, <2>1
  <2>6. Same(b - d, 0)
    BY <1>9, <2>4, <2>5, VanishingFactor
  <2>7. Same(b, d)
    BY <1>2, <2>6, SameZero
  <2>8. b = d
    BY <1>2, <2>7, SameScalars
  <2>9. b + d = 2 * b
    BY <1>2, <2>8
  <2> QED BY <1>9, <2>8, <2>9
<1> QED BY <1>1, <1>4, <1>6, <1>7, <1>8, <1>9

\* What one addition divides by, and that its result is that of the group law.
LEMMA OneSum ==
  ASSUME NEW p \in CurvePoints, NEW q \in CurvePoints, NEW kind, kind = Kind(p, q)
  PROVE  /\ Denominator(kind, p, q) \in Field \ {0}
         /\ \A i \in Field : Times(Denominator(kind, p, q), i) = 1 => SumPoint(kind, p, q, i) = Sum(p, q)
         /\ kind = "identity" <=> q = NegatedPoint(p)
         /\ kind # "identity" => Sum(p, q) \in CurvePoints
<1>1. /\ p[1] \in Field /\ q[1] \in Field /\ p[1] \in Int /\ q[1] \in Int /\ p[2] \in Int /\ 0 \in Int
      /\ Field = Scalars /\ 2 \in Int /\ 1 \in Field /\ p # AtInfinity /\ q # AtInfinity
      /\ p = <<p[1], p[2]>>
  BY PointIs, Elements
<1>2. CASE q[1] # p[1]
  <2>1. kind = "chord"
    BY <1>2 DEF Kind
  <2>2. PICK m \in Field : m = Minus(q[1], p[1]) /\ Same(m, q[1] - p[1])
    BY <1>1, SameOperations
  <2>3. ~Same(q[1] - p[1], 0)
    BY <1>1, <1>2, SameScalars, SameZero
  <2>4. q[1] - p[1] \in Int
    BY <1>1
  <2>5. m # 0 /\ Inverted(m) \in Field /\ Times(m, Inverted(m)) = 1
    BY <2>2, <2>3, <2>4, InverseOf
  <2>6. Denominator(kind, p, q) = m
    BY <2>1, <2>2 DEF Denominator
  <2>7. \A i \in Field : Times(m, i) = 1 => Sum(p, q) \in CurvePoints /\ Sum(p, q) = SumPoint("chord", p, q, i)
    BY <1>2, <2>2, ChordSum
  <2>8. q # NegatedPoint(p)
    <3>1. NegatedPoint(p)[1] = p[1]
      BY <1>1 DEF NegatedPoint
    <3> QED BY <1>2, <3>1
  <2> QED BY <2>1, <2>5, <2>6, <2>7, <2>8
<1>3. CASE q[1] = p[1] /\ Plus(p[2], q[2]) = 0
  <2>1. kind = "identity" /\ q = NegatedPoint(p)
    BY <1>3, OneAbscissa DEF Kind
  <2>2. Denominator(kind, p, q) = 1 /\ 1 # 0
    BY <2>1 DEF Denominator
  <2>3. Sum(p, q) = AtInfinity
    BY <1>1, <2>1 DEF Sum
  <2>4. \A i : SumPoint(kind, p, q, i) = AtInfinity
    BY <2>1 DEF SumPoint
  <2> QED BY <1>1, <2>1, <2>2, <2>3, <2>4
<1>4. CASE q[1] = p[1] /\ Plus(p[2], q[2]) # 0
  <2>1. kind = "tangent" /\ q = p /\ q # NegatedPoint(p) /\ ~Same(2 * p[2], 0)
    BY <1>4, OneAbscissa DEF Kind
  <2>2. PICK m \in Field : m = Times(2, p[2]) /\ Same(m, 2 * p[2])
    BY <1>1, SameOperations
  <2>3. 2 * p[2] \in Int
    BY <1>1
  <2>4. m # 0 /\ Inverted(m) \in Field /\ Times(m, Inverted(m)) = 1
    BY <2>1, <2>2, <2>3, InverseOf
  <2>5. Denominator(kind, p, q) = m
    BY <2>1, <2>2 DEF Denominator
  <2>6. \A i \in Field : Times(m, i) = 1 => Sum(p, p) \in CurvePoints /\ Sum(p, p) = SumPoint("tangent", p, p, i)
    BY <2>2, TangentSum
  <2> QED BY <2>1, <2>4, <2>5, <2>6
<1> QED BY <1>2, <1>3, <1>4

----------------------------------------------------------------------------
(* Multiples of G.                                                         *)

LEMMA Orders ==
  /\ GroupOrder \in Nat \ {0} /\ GroupOrder % 2 = 1
  /\ \A k \in Int : k % GroupOrder \in 0 .. GroupOrder - 1
  /\ \A k \in Int : PointAt(k % GroupOrder) = PointAt(k)
  /\ \A k \in Int : IF k % GroupOrder = 0 THEN PointAt(k) = AtInfinity ELSE PointAt(k) \in CurvePoints
<1>1. GroupOrder \in Nat /\ GroupOrder % 2 = 1
  BY CurveAssumption DEF GroupOrder
<1>2. GroupOrder # 0
  <2>1. 0 % 2 = 0
    OBVIOUS
  <2> QED BY <1>1, <2>1
<1>3. PICK n \in Nat \ {0} : n = GroupOrder
  BY <1>1, <1>2
<1>4. \A k \in Int : k % n \in 0 .. n - 1
  OBVIOUS
<1>5. ASSUME NEW r \in 0 .. n - 1 PROVE r % n = r
  <2>1. (n * 0 + r) % n = r /\ n * 0 + r = r
    BY DivisionUnique
  <2> QED BY <2>1
<1>6. \A k \in Int : PointAt(k % n) = PointAt(k)
  <2>1. \A k \in Int : (k % n) % n = k % n
    BY <1>4, <1>5
  <2> QED BY <1>3, <2>1 DEF PointAt
<1>7. ASSUME NEW k \in Int
      PROVE  IF k % n = 0 THEN PointAt(k) = AtInfinity ELSE PointAt(k) \in CurvePoints
  <2>1. PICK r \in 0 .. n - 1 : r = k % n
    BY <1>4
  <2>2. PointAt(k) = Multiples[r + 1]
    BY <1>3, <2>1 DEF PointAt
  <2>3. r # 0 => r + 1 \in 2 .. n
    BY <2>1
  <2>4. \A i \in 2 .. n : Multiples[i] \in CurvePoints
    BY <1>3, CurveAssumption
  <2>5. Multiples[0 + 1] = AtInfinity
    <3>1. 0 + 1 = 1
      OBVIOUS
    <3> QED BY <3>1, CurveAssumption
  <2>6. CASE r = 0
    BY <2>1, <2>2, <2>5, <2>6
  <2>7. CASE r # 0
    BY <2>1, <2>2, <2>3, <2>4, <2>7
  <2> QED BY <2>6, <2>7
<1> QED BY <1>1, <1>2, <1>3, <1>4, <1>6, <1>7

\* Equal remainders.
LEMMA Remainders ==
  ASSUME NEW n \in Nat \ {0}, NEW j \in Int, NEW k \in Int
  PROVE  ((j % n) + (k % n)) % n = (j + k) % n
<1>1. PICK q \in Int, r \in 0 .. n - 1 : r = j % n /\ j = n * q + r
  <2>1. j % n \in 0 .. n - 1 /\ j \div n \in Int /\ j = n * (j \div n) + (j % n)
    OBVIOUS
  <2> QED BY <2>1
<1>2. PICK p \in Int, s \in 0 .. n - 1 : s = k % n /\ k = n * p + s
  <2>1. k % n \in 0 .. n - 1 /\ k \div n \in Int /\ k = n * (k \div n) + (k % n)
    OBVIOUS
  <2> QED BY <2>1
<1>3. PICK o \in Int, t \in 0 .. n - 1 : t = (r + s) % n /\ r + s = n * o + t
  <2>1. \A m \in Int : m % n \in 0 .. n - 1 /\ m \div n \in Int /\ m = n * (m \div n) + (m % n)
    OBVIOUS
  <2>2. r + s \in Int
    OBVIOUS
  <2> QED BY <2>1, <2>2
<1>4. j + k = n * (q + p + o) + t
  <2>1. n * (q + p + o) = n * q + n * p + n * o
    OBVIOUS
  <2>2. PICK x \in Int, y \in Int, z \in Int : x = n * q /\ y = n * p /\ z = n * o
    OBVIOUS
  <2>3. j = x + r /\ k = y + s /\ r + s = z + t
    BY <1>1, <1>2, <1>3, <2>2
  <2>4. j + k = (x + y + z) + t
    BY ONLY <2>3, j \in Int, k \in Int, x \in Int, y \in Int, z \in Int, r \in Int, s \in Int, t \in Int
  <2> QED BY <2>1, <2>2, <2>4
<1>5. q + p + o \in Int
  OBVIOUS
<1>6. (n * (q + p + o) + t) % n = t
  BY <1>5, DivisionUnique
<1> QED BY <1>1, <1>2, <1>3, <1>4, <1>6

LEMMA PointsAdd ==
  ASSUME NEW j \in Int, NEW k \in Int
  PROVE  PointAt(j + k) = Sum(PointAt(j), PointAt(k))
<1>1. PICK a \in 0 .. GroupOrder - 1, b \in 0 .. GroupOrder - 1 : a = j % GroupOrder /\ b = k % GroupOrder
  BY Orders
<1>2. PointAt(a + b) = Sum(PointAt(a), PointAt(b))
  BY CurveAssumption
<1>3. PointAt(a) = PointAt(j) /\ PointAt(b) = PointAt(k)
  BY <1>1, Orders
<1>4. (a + b) % GroupOrder = (j + k) % GroupOrder
  BY <1>1, Orders, Remainders
<1>5. PointAt(a + b) = PointAt(j + k)
  BY <1>4 DEF PointAt
<1> QED BY <1>2, <1>3, <1>5

LEMMA PointsNegate ==
  ASSUME NEW k \in Int, PointAt(k) \in CurvePoints
  PROVE  PointAt(-k) = NegatedPoint(PointAt(k)) /\ PointAt(-k) \in CurvePoints
<1>1. k + (-k) = 0 /\ -k \in Int /\ 0 \in Int
  OBVIOUS
<1>2. 0 % GroupOrder = 0
  <2>1. GroupOrder \in Nat \ {0} /\ 0 \in 0 .. GroupOrder - 1
    BY Orders
  <2>2. (GroupOrder * 0 + 0) % GroupOrder = 0 /\ GroupOrder * 0 + 0 = 0
    BY <2>1, DivisionUnique
  <2> QED BY <2>2
<1>3. PointAt(0) = AtInfinity
  BY <1>1, <1>2, Orders
<1>4. Sum(PointAt(k), PointAt(-k)) = AtInfinity
  <2>1. PointAt(k + (-k)) = Sum(PointAt(k), PointAt(-k))
    BY <1>1, PointsAdd
  <2> QED BY <1>1, <1>3, <2>1
<1>5. PointAt(k) # AtInfinity
  BY PointIs
<1>6. PointAt(-k) # AtInfinity
  BY <1>4, <1>5 DEF Sum
<1>7. PointAt(-k) \in CurvePoints
  BY <1>1, <1>6, Orders
<1>8. PointAt(-k) = NegatedPoint(PointAt(k))
  <2>1. Kind(PointAt(k), PointAt(-k)) # "identity" => Sum(PointAt(k), PointAt(-k)) \in CurvePoints
    BY <1>7, OneSum
  <2>2. Kind(PointAt(k), PointAt(-k)) = "identity"
    BY <1>4, <2>1, PointIs
  <2> QED BY <1>7, <2>2, OneSum
<1> QED BY <1>7, <1>8

\* No point of an odd group is its own negation.
LEMMA NoHalf ==
  ASSUME NEW k \in Int, PointAt(k) \in CurvePoints
  PROVE  PointAt(k) # NegatedPoint(PointAt(k))
<1> SUFFICES ASSUME PointAt(k) = NegatedPoint(PointAt(k)) PROVE FALSE
  OBVIOUS
<1>1. PointAt(k) # AtInfinity
  BY PointIs
<1>2. Sum(PointAt(k), PointAt(k)) = AtInfinity
  BY <1>1 DEF Sum
<1>3. PointAt(k + k) = AtInfinity
  BY <1>2, PointsAdd
<1>4. (k + k) % GroupOrder = 0
  <2>1. k + k \in Int
    OBVIOUS
  <2> QED BY <1>3, <2>1, Orders, PointIs
<1>5. PICK n \in Nat \ {0} : n = GroupOrder /\ n % 2 = 1
  BY Orders
<1>6. PICK r \in 0 .. n - 1 : r = k % n /\ r # 0
  BY <1>1, <1>5, Orders
<1>7. (r + r) % n = 0
  BY <1>4, <1>5, <1>6, Remainders
<1>8. CASE r + r < n
  <2>1. (n * 0 + (r + r)) % n = r + r /\ n * 0 + (r + r) = r + r
    <3>1. r + r \in 0 .. n - 1
      BY <1>8
    <3> QED BY <3>1, DivisionUnique
  <2> QED BY <1>6, <1>7, <2>1
<1>9. CASE r + r >= n
  <2>1. (n * 1 + (r + r - n)) % n = r + r - n /\ n * 1 + (r + r - n) = r + r
    <3>1. r + r - n \in 0 .. n - 1
      BY <1>9
    <3> QED BY <3>1, DivisionUnique
  <2>2. r + r = n
    BY <1>7, <2>1
  <2>3. n % 2 = 0
    <3>1. (2 * r + 0) % 2 = 0 /\ 2 * r + 0 = r + r
      BY DivisionUnique
    <3> QED BY <2>2, <3>1
  <2> QED BY <1>5, <2>3
<1> QED BY <1>8, <1>9

----------------------------------------------------------------------------
(* One addition and one stride.                                            *)

LEMMA KindIs ==
  ASSUME NEW p, NEW q
  PROVE  /\ Kind(p, q) = "chord" <=> q[1] # p[1]
         /\ Kind(p, q) \in {"chord", "identity", "tangent"}
BY DEF Kind

LEMMA XOfSum ==
  ASSUME NEW kind, NEW p, NEW q, NEW i
  PROVE  SumX(kind, p, q, i) = XOf(SumPoint(kind, p, q, i))
<1>1. CASE kind = "identity"
  BY <1>1 DEF SumX, SumPoint, XOf
<1>2. CASE kind # "identity"
  <2> DEFINE x == XSum(Slope(kind, p, q, i), p, q)
             y == YSum(Slope(kind, p, q, i), p, x)
  <2>1. SumX(kind, p, q, i) = <<x>> /\ SumPoint(kind, p, q, i) = <<x, y>>
    BY <1>2 DEF SumX, SumPoint
  <2> HIDE DEF x, y
  <2>2. XOf(<<x, y>>) = <<x>>
    BY DEF XOf, AtInfinity
  <2> QED BY <2>1, <2>2
<1> QED BY <1>1, <1>2

LEMMA PairSum ==
  ASSUME NEW j \in Int, NEW k \in Int, NEW p \in CurvePoints, NEW q \in CurvePoints,
         p = PointAt(j), q = PointAt(k), NEW kind, kind = Kind(p, q),
         NEW i \in Field, Times(Denominator(kind, p, q), i) = 1
  PROVE  /\ SumPoint(kind, p, q, i) = PointAt(j + k)
         /\ SumX(kind, p, q, i) = XOf(PointAt(j + k))
<1>1. SumPoint(kind, p, q, i) = Sum(p, q)
  BY OneSum
<1>2. Sum(p, q) = PointAt(j + k)
  BY PointsAdd
<1> QED BY <1>1, <1>2, XOfSum

LEMMA StrideSum ==
  ASSUME NEW j \in Int, NEW k \in Int, NEW p \in CurvePoints, NEW s \in CurvePoints,
         p = PointAt(j), s = PointAt(k), NEW q, q = NegatedPoint(s),
         NEW kind, kind = StrideKind(p, q),
         NEW m, m = Denominator(IF kind = "chord" THEN "chord" ELSE "tangent", p, q)
  PROVE  /\ m \in Field \ {0}
         /\ \A i \in Field : Times(m, i) = 1
              => StrideXs(kind, p, q, i) = <<XOf(PointAt(j - k)), XOf(PointAt(j + k))>>
<1>1. -k \in Int /\ -(-k) = k /\ j + (-k) = j - k /\ j - k \in Int
  OBVIOUS
<1>2. q \in CurvePoints /\ q = PointAt(-k) /\ s = NegatedPoint(q)
  <2>1. q \in CurvePoints /\ q = PointAt(-k)
    BY PointsNegate
  <2>2. PointAt(-(-k)) = NegatedPoint(PointAt(-k))
    BY <1>1, <2>1, PointsNegate
  <2> QED BY <1>1, <2>1, <2>2
<1>3. Sum(p, q) = PointAt(j - k) /\ Sum(p, s) = PointAt(j + k)
  <2>1. PointAt(j + (-k)) = Sum(p, q)
    BY <1>1, <1>2, PointsAdd
  <2> QED BY <1>1, <2>1, PointsAdd
<1>4. s[1] = q[1] /\ p # AtInfinity
  BY <1>2, PointIs DEF NegatedPoint
<1>5. /\ Kind(p, p) = "tangent" /\ p = NegatedPoint(NegatedPoint(p))
      /\ Denominator("tangent", p, q) = Denominator("tangent", p, p)
  <2>1. Kind(p, p) # "identity"
    BY NoHalf, OneSum
  <2>2. -j \in Int /\ -(-j) = j
    OBVIOUS
  <2>3. PointAt(-j) = NegatedPoint(p) /\ PointAt(-j) \in CurvePoints
    BY PointsNegate
  <2>4. PointAt(-(-j)) = NegatedPoint(PointAt(-j))
    BY <2>2, <2>3, PointsNegate
  <2> QED BY <2>1, <2>2, <2>3, <2>4, KindIs DEF Denominator
<1>6. CASE Kind(p, q) = "chord"
  <2>1. kind = "chord" /\ m = Denominator("chord", p, q)
    BY <1>6 DEF StrideKind
  <2>2. Kind(p, s) = "chord" /\ Denominator("chord", p, s) = m
    BY <1>4, <1>6, <2>1, KindIs DEF Denominator
  <2>3. m \in Field \ {0}
    BY <1>2, <1>6, <2>1, OneSum
  <2>4. ASSUME NEW i \in Field, Times(m, i) = 1
        PROVE  StrideXs(kind, p, q, i) = <<XOf(PointAt(j - k)), XOf(PointAt(j + k))>>
    <3>1. SumPoint("chord", p, q, i) = Sum(p, q)
      BY <1>2, <1>6, <2>1, <2>4, OneSum
    <3>2. SumPoint("chord", p, s, i) = Sum(p, s)
      BY <2>2, <2>4, OneSum
    <3>3. StrideXs(kind, p, q, i) = <<SumX("chord", p, q, i), SumX("chord", p, s, i)>>
      BY <1>2, <2>1 DEF StrideXs
    <3> QED BY <1>3, <3>1, <3>2, <3>3, XOfSum
  <2> QED BY <2>3, <2>4
<1>7. CASE Kind(p, q) # "chord"
  <2>1. m = Denominator("tangent", p, p) /\ m \in Field \ {0}
    <3>1. kind # "chord"
      BY <1>7 DEF StrideKind
    <3>2. m = Denominator("tangent", p, p)
      BY <1>5, <3>1
    <3> QED BY <1>5, <3>2, OneSum
  <2>2. ASSUME NEW i \in Field, Times(m, i) = 1
        PROVE  SumX("tangent", p, p, i) = XOf(Sum(p, p))
    BY <1>5, <2>1, <2>2, OneSum, XOfSum
  <2>3. XOf(AtInfinity) = AtInfinity
    BY DEF XOf
  <2>4. CASE Kind(p, q) = "identity"
    <3>1. kind = "first identity" /\ q = NegatedPoint(p)
      BY <1>2, <2>4, OneSum DEF StrideKind
    <3>2. s = p /\ Sum(p, q) = AtInfinity
      BY <1>2, <1>4, <1>5, <3>1, PointIs DEF Sum
    <3>3. \A i : StrideXs(kind, p, q, i) = <<AtInfinity, SumX("tangent", p, p, i)>>
      BY <3>1 DEF StrideXs
    <3> QED BY <1>3, <2>1, <2>2, <2>3, <3>2, <3>3
  <2>5. CASE Kind(p, q) # "identity"
    <3>1. kind = "second identity" /\ q = p
      <4>1. Plus(p[2], q[2]) # 0 /\ p[1] = q[1]
        BY <1>7, <2>5 DEF Kind
      <4> QED BY <1>2, <1>7, <2>5, <4>1, OneAbscissa DEF StrideKind
    <3>2. Sum(p, s) = AtInfinity
      BY <1>2, <1>4, <3>1, PointIs DEF Sum
    <3>3. \A i : StrideXs(kind, p, q, i) = <<SumX("tangent", p, p, i), AtInfinity>>
      BY <3>1 DEF StrideXs
    <3> QED BY <1>3, <2>1, <2>2, <2>3, <3>1, <3>2, <3>3
  <2> QED BY <2>4, <2>5
<1> QED BY <1>6, <1>7

----------------------------------------------------------------------------
(* The batch inversion.                                                    *)

\* The product of start with b, one factor after another up to the n-th.
Multiplies(h, n, start, b) ==
  /\ h \in [0 .. n -> Field] /\ h[0] = start
  /\ \A k \in 1 .. n : h[k] = Times(h[k - 1], b[k])

LEMMA Multiplication ==
  ASSUME NEW n \in Nat, NEW start \in Field, NEW b \in [1 .. n -> Field]
  PROVE  \E h : Multiplies(h, n, start, b)
<1> DEFINE step == [k \in 1 .. n |-> [x \in Int |-> Times(x, b[k])]]
<1>0. Field \subseteq Int /\ Field = Scalars
  BY Elements
<1>1. Steps(n, step)
  <2>1. \A k \in 1 .. n, x \in Int : Times(x, b[k]) \in Int
    BY <1>0, SameOperations
  <2> QED BY <2>1 DEF Steps
<1>2. start \in Int
  BY <1>0
<1> HIDE DEF step
<1>3. PICK h : Solves(h, n, start, step)
  BY <1>1, <1>2, Recursion
<1>4. h \in [0 .. n -> Int] /\ h[0] = start /\ \A k \in 1 .. n : h[k] = step[k][h[k - 1]]
  BY <1>3 DEF Solves
<1>5. \A k \in 1 .. n : h[k] = Times(h[k - 1], b[k])
  <2>1. \A k \in 1 .. n : h[k - 1] \in Int
    BY <1>4
  <2>2. \A k \in 1 .. n : step[k][h[k - 1]] = Times(h[k - 1], b[k])
    BY <2>1 DEF step
  <2> QED BY <1>4, <2>2
<1>6. \A k \in 0 .. n : h[k] \in Field
  <2>1. ASSUME NEW k \in 1 .. n PROVE h[k] \in Field
    <3>1. h[k - 1] \in Int
      BY <1>4
    <3>2. b[k] \in Int
      BY <1>0
    <3>3. h[k] = Times(h[k - 1], b[k])
      BY <1>5
    <3>4. Times(h[k - 1], b[k]) \in Scalars
      BY <3>1, <3>2, SameOperations
    <3> QED BY <1>0, <3>3, <3>4
  <2>2. \A k \in 0 .. n : k = 0 \/ k \in 1 .. n
    OBVIOUS
  <2> QED BY <1>4, <2>1, <2>2
<1>7. h \in [0 .. n -> Field]
  BY <1>4, <1>6
<1> QED BY <1>4, <1>5, <1>7 DEF Multiplies

\* A function with these steps is that product, whatever it was chosen among.
LEMMA MultipliesIs ==
  ASSUME NEW n \in Nat, NEW start \in Field, NEW b \in [1 .. n -> Field],
         NEW h, h[0] = start, \A k \in 1 .. n : h[k] = Times(h[k - 1], b[k])
  PROVE  \A k \in 0 .. n : h[k] \in Field
<1>0. Field \subseteq Int /\ Field = Scalars
  BY Elements
<1> DEFINE T == {k \in Nat : h[k] \in Field}
<1>1. 0 \in T
  OBVIOUS
<1>2. ASSUME NEW k \in 0 .. n - 1, k \in T PROVE k + 1 \in T
  <2>1. k + 1 \in 1 .. n /\ (k + 1) - 1 = k /\ k + 1 \in Nat /\ h[k] \in Field
    BY <1>2
  <2>2. h[k + 1] = Times(h[k], b[k + 1])
    BY <2>1
  <2>3. h[k + 1] \in Field
    BY <1>0, <2>1, <2>2, SameOperations
  <2> QED BY <2>1, <2>3
<1>3. \A k \in 0 .. n : k \in T
  <2> HIDE DEF T
  <2> QED BY <1>1, <1>2, AllUpTo
<1> QED BY <1>3

Products(h, e) ==
  h = [i \in 0 .. Len(e) |-> IF i = 0 THEN 1 ELSE Times(h[i - 1], e[i])]

LEMMA PrefixIs ==
  ASSUME NEW n \in Nat, NEW e \in [1 .. n -> Field], Len(e) = n
  PROVE  \E h : /\ Multiplies(h, n, 1, e)
                /\ PrefixProducts(e) = [i \in 1 .. n |-> h[i]]
<1> DEFINE f == CHOOSE h : Products(h, e)
<1>0. 1 \in Field
  BY Elements
<1>1. Products(f, e)
  <2>1. PICK h : Multiplies(h, n, 1, e)
    BY <1>0, Multiplication
  <2>2. \A k \in 0 .. n : h[k] = IF k = 0 THEN 1 ELSE Times(h[k - 1], e[k])
    BY <2>1 DEF Multiplies
  <2>3. h = [k \in 0 .. n |-> h[k]]
    BY <2>1 DEF Multiplies
  <2>4. h = [k \in 0 .. n |-> IF k = 0 THEN 1 ELSE Times(h[k - 1], e[k])]
    BY <2>2, <2>3
  <2>5. Products(h, e)
    BY <2>4 DEF Products
  <2> QED BY <2>5
<1>2. PrefixProducts(e) = [i \in 1 .. n |-> f[i]]
  BY DEF PrefixProducts, Products
<1> HIDE DEF f
<1>3. f = [i \in 0 .. n |-> IF i = 0 THEN 1 ELSE Times(f[i - 1], e[i])]
  BY <1>1 DEF Products
<1>4. f[0] = 1 /\ \A k \in 1 .. n : f[k] = Times(f[k - 1], e[k])
  BY <1>3
<1>5. \A k \in 0 .. n : f[k] \in Field
  BY <1>0, <1>4, MultipliesIs
<1>6. f \in [0 .. n -> Field]
  BY <1>3, <1>5
<1>7. Multiplies(f, n, 1, e)
  BY <1>4, <1>6 DEF Multiplies
<1> QED BY <1>2, <1>7

Backwards(r, e, total) ==
  r = [i \in 1 .. Len(e) + 1 |-> IF i = Len(e) + 1 THEN total ELSE Times(r[i + 1], e[i])]

LEMMA RunningIs ==
  ASSUME NEW n \in Nat, NEW e \in [1 .. n -> Field], Len(e) = n, NEW total \in Field,
         NEW r, r = CHOOSE f : Backwards(f, e, total)
  PROVE  /\ r[n + 1] = total /\ \A i \in 1 .. n : r[i] = Times(r[i + 1], e[i])
         /\ \A i \in 1 .. n + 1 : r[i] \in Field
<1> DEFINE b == [k \in 1 .. n |-> e[n + 1 - k]]
<1>1. b \in [1 .. n -> Field]
  OBVIOUS
<1>2. PICK h : Multiplies(h, n, total, b)
  <2> HIDE DEF b
  <2> QED BY <1>1, Multiplication
<1> DEFINE g == [i \in 1 .. n + 1 |-> h[n + 1 - i]]
<1>3. \A i \in 1 .. n + 1 : g[i] = IF i = n + 1 THEN total ELSE Times(g[i + 1], e[i])
  <2> SUFFICES ASSUME NEW i \in 1 .. n + 1
               PROVE  g[i] = IF i = n + 1 THEN total ELSE Times(g[i + 1], e[i])
    OBVIOUS
  <2>1. CASE i = n + 1
    <3>1. (n + 1) - i = 0
      BY <2>1
    <3> QED BY <1>2, <2>1, <3>1 DEF Multiplies
  <2>2. CASE i # n + 1
    <3>1. PICK k \in 1 .. n : k = n + 1 - i /\ k - 1 = n + 1 - (i + 1) /\ n + 1 - k = i
      BY <2>2
    <3>2. i + 1 \in 1 .. n + 1 /\ g[i + 1] = h[k - 1] /\ g[i] = h[k]
      BY <2>2, <3>1
    <3>3. b[k] = e[i]
      BY <3>1
    <3>4. h[k] = Times(h[k - 1], b[k])
      <4> HIDE DEF b
      <4> QED BY <1>2 DEF Multiplies
    <3> HIDE DEF b, g
    <3> QED BY <2>2, <3>2, <3>3, <3>4
  <2> QED BY <2>1, <2>2
<1>4. Backwards(g, e, total)
  <2>1. g = [i \in 1 .. n + 1 |-> g[i]]
    OBVIOUS
  <2> HIDE DEF g
  <2> QED BY <1>3, <2>1 DEF Backwards
<1>5. Backwards(r, e, total)
  <2> HIDE DEF g
  <2> QED BY <1>4
<1>6. \A i \in 1 .. n + 1 : r[i] = IF i = n + 1 THEN total ELSE Times(r[i + 1], e[i])
  BY <1>5 DEF Backwards
<1>7. r[n + 1] = total /\ \A i \in 1 .. n : r[i] = Times(r[i + 1], e[i])
  BY <1>6
<1> DEFINE d == [k \in 0 .. n |-> r[n + 1 - k]]
<1>8. \A k \in 0 .. n : d[k] \in Field
  <2>1. d[0] = total
    BY <1>7
  <2>2. ASSUME NEW k \in 1 .. n PROVE d[k] = Times(d[k - 1], b[k])
    <3>1. PICK i \in 1 .. n : i = n + 1 - k /\ i + 1 = n + 1 - (k - 1)
      OBVIOUS
    <3>2. r[i] = Times(r[i + 1], e[i])
      BY <1>7
    <3>3. k - 1 \in 0 .. n /\ d[k] = r[i] /\ d[k - 1] = r[i + 1] /\ b[k] = e[i]
      BY <3>1
    <3> QED BY <3>2, <3>3
  <2> HIDE DEF b, d
  <2> QED BY <1>1, <2>1, <2>2, MultipliesIs
<1>9. ASSUME NEW i \in 1 .. n + 1 PROVE r[i] \in Field
  <2>1. n + 1 - i \in 0 .. n /\ n + 1 - (n + 1 - i) = i
    OBVIOUS
  <2>2. d[n + 1 - i] = r[i]
    BY <2>1
  <2> HIDE DEF d
  <2> QED BY <1>8, <2>1, <2>2
<1> QED BY <1>7, <1>9

\* A product of elements other than zero.
LEMMA ProductNotZero ==
  ASSUME NEW x \in Field \ {0}, NEW y \in Field \ {0}
  PROVE  Times(x, y) \in Field \ {0}
<1>1. x \in Scalars /\ y \in Scalars /\ x \in Int /\ y \in Int /\ Field = Scalars
  BY Elements
<1> QED BY <1>1, NoZeroDivisors, SameOperations

LEMMA BatchInverts ==
  ASSUME NEW n \in Nat, NEW e \in [1 .. n -> Field \ {0}], Len(e) = n,
         NEW inverses, inverses = BatchInverted(e, PrefixProducts(e))
  PROVE  /\ inverses = [i \in 1 .. n |-> inverses[i]]
         /\ \A i \in 1 .. n : inverses[i] \in Field /\ Times(e[i], inverses[i]) = 1
<1>0. /\ Field \subseteq Int /\ Field = Scalars /\ e \in [1 .. n -> Field] /\ 1 \in Field /\ 0 \in Field
      /\ \A i \in 1 .. n : e[i] \in Field \ {0}
  BY Elements
<1> DEFINE prefix == PrefixProducts(e)
<1>1. PICK h : Multiplies(h, n, 1, e) /\ prefix = [i \in 1 .. n |-> h[i]]
  BY <1>0, PrefixIs
<1>2. h \in [0 .. n -> Field] /\ h[0] = 1 /\ \A k \in 1 .. n : h[k] = Times(h[k - 1], e[k])
  BY <1>1 DEF Multiplies
<1> DEFINE total == Inverted(IF n = 0 THEN 1 ELSE prefix[n])
           r == CHOOSE f : Backwards(f, e, total)
<1>3. inverses = [i \in 1 .. n |-> IF i = 1 THEN r[2] ELSE Times(r[i + 1], prefix[i - 1])]
  BY DEF BatchInverted, Backwards
<1> HIDE DEF prefix
<1>4. \A k \in 0 .. n : h[k] \in Field \ {0}
  <2> DEFINE T == {k \in Nat : h[k] \in Field \ {0}}
  <2>1. 0 \in T
    BY <1>0, <1>2
  <2>2. ASSUME NEW k \in 0 .. n - 1, k \in T PROVE k + 1 \in T
    <3>1. k + 1 \in 1 .. n /\ (k + 1) - 1 = k /\ k + 1 \in Nat /\ h[k] \in Field \ {0}
      BY <2>2
    <3>2. h[k + 1] = Times(h[k], e[k + 1])
      BY <1>2, <3>1
    <3>3. h[k + 1] \in Field \ {0}
      BY <1>0, <3>1, <3>2, ProductNotZero
    <3> QED BY <3>1, <3>3
  <2>3. \A k \in 0 .. n : k \in T
    <3> HIDE DEF T
    <3> QED BY <2>1, <2>2, AllUpTo
  <2> QED BY <2>3
<1>5. total = Inverted(h[n])
  <2>1. n # 0 => prefix[n] = h[n]
    BY <1>1
  <2> QED BY <1>2, <2>1
<1>6. total \in Field /\ Times(h[n], total) = 1
  <2>1. h[n] \in Scalars /\ h[n] # 0
    BY <1>0, <1>4
  <2> QED BY <1>0, <1>5, <2>1, InverseIs
<1> HIDE DEF total
<1>7. /\ r[n + 1] = total /\ \A i \in 1 .. n : r[i] = Times(r[i + 1], e[i])
      /\ \A i \in 1 .. n + 1 : r[i] \in Field
  <2>1. r = CHOOSE f : Backwards(f, e, total)
    OBVIOUS
  <2> HIDE DEF r
  <2> QED BY <1>0, <1>6, <2>1, RunningIs
<1> HIDE DEF r
<1>8. \A k \in 0 .. n : h[k] \in Int
  BY <1>0, <1>2
<1>9. \A i \in 1 .. n + 1 : r[i] \in Int
  BY <1>0, <1>7
<1>10. ASSUME NEW x \in Int, NEW y \in Int, NEW z \in Int
       PROVE  Same(Times(Times(x, y), z), x * y * z) /\ Same(Times(x, Times(y, z)), x * y * z)
  <2>1. Same(x, x) /\ Same(z, z) /\ x * y \in Int /\ y * z \in Int
    BY SameIsEquivalence
  <2>2. PICK p \in Int, q \in Int : p = Times(x, y) /\ Same(p, x * y) /\ q = Times(y, z) /\ Same(q, y * z)
    BY <1>0, SameOperations
  <2>3. Same(Times(p, z), (x * y) * z) /\ Same(Times(x, q), x * (y * z))
    BY <2>1, <2>2, SameThrough
  <2>4. (x * y) * z = x * y * z /\ x * (y * z) = x * y * z
    OBVIOUS
  <2> QED BY <2>2, <2>3, <2>4
<1>11. ASSUME NEW x \in Field, NEW y \in Field, NEW z \in Field
       PROVE  Times(x, Times(y, z)) = Times(Times(x, z), y)
  <2>1. x \in Int /\ y \in Int /\ z \in Int
    BY <1>0
  <2>2. PICK u \in Scalars, v \in Scalars : u = Times(x, Times(y, z)) /\ v = Times(Times(x, z), y)
    <3>1. Times(y, z) \in Int /\ Times(x, z) \in Int
      BY <1>0, <2>1, SameOperations
    <3> QED BY <2>1, <3>1, SameOperations
  <2>3. PICK p \in Int : p = x * y * z /\ p = x * z * y
    BY <2>1
  <2>4. Same(u, p) /\ Same(v, p)
    BY <1>10, <2>1, <2>2, <2>3
  <2>5. u \in Int /\ v \in Int
    BY <1>0, <2>2
  <2>6. Same(u, v)
    BY <2>4, <2>5, SameIsEquivalence
  <2> QED BY <2>2, <2>6, SameScalars
<1>12. \A i \in 1 .. n + 1 : Times(h[i - 1], r[i]) = 1
  <2> DEFINE T == {k \in Nat : Times(h[n - k], r[n + 1 - k]) = 1}
  <2>1. 0 \in T
    <3>1. n - 0 = n /\ n + 1 - 0 = n + 1
      OBVIOUS
    <3> QED BY <1>6, <1>7, <3>1
  <2>2. ASSUME NEW k \in 0 .. n - 1, k \in T PROVE k + 1 \in T
    <3>1. PICK i \in 1 .. n : i = n - k /\ i + 1 = n + 1 - k /\ i - 1 = n - (k + 1) /\ i = n + 1 - (k + 1)
      OBVIOUS
    <3>2. Times(h[i], r[i + 1]) = 1
      BY <2>2, <3>1
    <3>3. r[i] = Times(r[i + 1], e[i]) /\ h[i] = Times(h[i - 1], e[i])
      BY <1>2, <1>7
    <3>4. h[i - 1] \in Field /\ e[i] \in Field /\ r[i + 1] \in Field
      <4>1. i - 1 \in 0 .. n /\ i + 1 \in 1 .. n + 1
        OBVIOUS
      <4> QED BY <1>0, <1>2, <1>7, <4>1
    <3>5. Times(h[i - 1], Times(r[i + 1], e[i])) = Times(Times(h[i - 1], e[i]), r[i + 1])
      BY <1>11, <3>4
    <3>6. Times(h[i - 1], r[i]) = 1
      BY <3>2, <3>3, <3>5
    <3> QED BY <3>1, <3>6
  <2>3. \A k \in 0 .. n : k \in T
    <3> HIDE DEF T
    <3> QED BY <2>1, <2>2, AllUpTo
  <2>4. ASSUME NEW i \in 1 .. n + 1 PROVE Times(h[i - 1], r[i]) = 1
    <3>1. PICK k \in 0 .. n : n - k = i - 1 /\ n + 1 - k = i
      <4>1. n + 1 - i \in 0 .. n /\ n - (n + 1 - i) = i - 1 /\ n + 1 - (n + 1 - i) = i
        OBVIOUS
      <4> QED BY <4>1
    <3> QED BY <2>3, <3>1
  <2> QED BY <2>4
<1>13. ASSUME NEW i \in 1 .. n
       PROVE  inverses[i] \in Field /\ Times(e[i], inverses[i]) = 1
  <2>1. i - 1 \in 0 .. n /\ i \in 0 .. n /\ i + 1 \in 1 .. n + 1 /\ (i + 1) - 1 = i
    OBVIOUS
  <2>2. h[i - 1] \in Field /\ e[i] \in Field /\ r[i + 1] \in Field /\ h[i] = Times(h[i - 1], e[i])
    BY <1>0, <1>2, <1>7, <2>1
  <2>3. Times(h[i], r[i + 1]) = 1
    BY <1>12, <2>1
  <2>4. inverses[i] = IF i = 1 THEN r[i + 1] ELSE Times(r[i + 1], h[i - 1])
    <3>1. inverses[i] = IF i = 1 THEN r[2] ELSE Times(r[i + 1], prefix[i - 1])
      BY <1>3
    <3>2. i = 1 => i + 1 = 2
      OBVIOUS
    <3>3. i # 1 => prefix[i - 1] = h[i - 1]
      <4>1. i # 1 => i - 1 \in 1 .. n
        OBVIOUS
      <4> QED BY <1>1, <4>1
    <3> QED BY <3>1, <3>2, <3>3
  <2>5. inverses[i] = Times(r[i + 1], h[i - 1])
    <3>1. CASE i = 1
      <4>1. h[i - 1] = 1
        BY <1>2, <3>1
      <4>2. Times(r[i + 1], 1) = r[i + 1]
        <5>1. r[i + 1] \in Int /\ 1 \in Int /\ r[i + 1] * 1 = r[i + 1]
          <6>1. r[i + 1] \in Int
            BY <1>0, <2>2
          <6>2. \A x \in Int : x * 1 = x
            OBVIOUS
          <6> QED BY <6>1, <6>2
        <5>2. Times(r[i + 1], 1) \in Scalars /\ Same(Times(r[i + 1], 1), r[i + 1] * 1)
          BY <5>1, SameOperations
        <5>3. Same(Times(r[i + 1], 1), r[i + 1])
          BY <5>1, <5>2
        <5> QED BY <1>0, <2>2, <5>2, <5>3, SameScalars
      <4> QED BY <2>4, <3>1, <4>1, <4>2
    <3>2. CASE i # 1
      BY <2>4, <3>2
    <3> QED BY <3>1, <3>2
  <2>6. inverses[i] \in Field
    <3>1. r[i + 1] \in Int /\ h[i - 1] \in Int
      BY <1>0, <2>2
    <3> QED BY <1>0, <2>5, <3>1, SameOperations
  <2>7. Times(e[i], Times(r[i + 1], h[i - 1])) = Times(Times(e[i], h[i - 1]), r[i + 1])
    BY <1>11, <2>2
  <2>8. Times(e[i], h[i - 1]) = Times(h[i - 1], e[i])
    <3>1. e[i] \in Int /\ h[i - 1] \in Int
      BY <1>0, <2>2
    <3>2. e[i] * h[i - 1] = h[i - 1] * e[i]
      BY <3>1
    <3> QED BY <3>2 DEF Times
  <2> QED BY <2>2, <2>3, <2>5, <2>6, <2>7, <2>8
<1>14. inverses = [i \in 1 .. n |-> inverses[i]]
  BY <1>3
<1> QED BY <1>13, <1>14

----------------------------------------------------------------------------
(* The kernels.                                                            *)

LEMMA LengthIs ==
  ASSUME NEW n \in Nat, NEW S, NEW f \in [1 .. n -> S]
  PROVE  f \in Seq(S) /\ Len(f) = n
<1>1. f \in Seq(S)
  BY DEF Seq
<1> QED BY <1>1, LenProperties

\* A visitor sees results as they are.
LEMMA ShownAre ==
  ASSUME NEW n \in Nat, NEW f, f = [i \in 1 .. n |-> f[i]], NEW stop \in Nat,
         NEW shown, shown = Shown(f, stop)
  PROVE  \A i \in DOMAIN shown : i \in 1 .. n /\ shown[i] = f[i]
<1> DEFINE S == {f[i] : i \in 1 .. n}
<1>1. f \in Seq(S) /\ Len(f) = n
  <2>1. f \in [1 .. n -> S]
    OBVIOUS
  <2> QED BY <2>1, LengthIs
<1> DEFINE m == Min({stop, Len(f)})
<1>2. m \in Nat /\ m <= n
  <2>1. \E x \in {stop, n} : \A y \in {stop, n} : x <= y
    OBVIOUS
  <2> QED BY <1>1, <2>1 DEF Min
<1>3. Shown(f, stop) = SubSeq(f, 1, m)
  BY DEF Shown
<1> HIDE DEF m
<1>4. SubSeq(f, 1, m) = [i \in 1 .. m |-> f[i]]
  <2>1. SubSeq(f, 1, m) = [i \in 1 .. (1 + m - 1) |-> f[i + 1 - 1]]
    BY <1>1, <1>2 DEF SubSeq
  <2>2. 1 + m - 1 = m /\ \A i \in 1 .. m : i + 1 - 1 = i
    BY <1>2
  <2> QED BY <2>1, <2>2
<1> QED BY <1>2, <1>3, <1>4

\* What the buffers hold after a call.
LEMMA Filled ==
  ASSUME NEW n \in Nat, NEW e \in [1 .. n -> Field \ {0}], NEW kinds, NEW strideKinds,
         NEW filled, filled = Inverting(kinds, strideKinds, e)
  PROVE  /\ filled.denominators = e
         /\ \A i \in 1 .. n : filled.inverses[i] \in Field /\ Times(e[i], filled.inverses[i]) = 1
<1>1. Len(e) = n
  BY LengthIs
<1>2. filled.denominators = e /\ filled.inverses = BatchInverted(e, PrefixProducts(e))
  BY DEF Inverting
<1> QED BY <1>1, <1>2, BatchInverts

LEMMA BatchIs ==
  ASSUME NEW batch \in Batches
  PROVE  /\ Len(batch) \in Nat /\ DOMAIN batch = 1 .. Len(batch)
         /\ \A i \in 1 .. Len(batch) : /\ batch[i][1] \in Int /\ batch[i][2] \in Int
                                       /\ PointAt(batch[i][1]) \in CurvePoints
                                       /\ PointAt(batch[i][2]) \in CurvePoints
<1>1. batch \in Seq((1 .. GroupOrder - 1) \X (1 .. GroupOrder - 1))
  BY CurveAssumption
<1>2. Len(batch) \in Nat /\ DOMAIN batch = 1 .. Len(batch)
  BY <1>1, LenProperties
<1>3. ASSUME NEW i \in 1 .. Len(batch)
      PROVE  batch[i][1] \in 1 .. GroupOrder - 1 /\ batch[i][2] \in 1 .. GroupOrder - 1
  BY <1>1, <1>2, ElementOfSeq
<1>4. ASSUME NEW k \in 1 .. GroupOrder - 1 PROVE k \in Int /\ PointAt(k) \in CurvePoints
  <2>1. PICK n \in Nat \ {0} : n = GroupOrder
    BY Orders
  <2>2. k \in 0 .. n - 1 /\ k # 0 /\ k \in Int
    BY <2>1
  <2>3. (n * 0 + k) % n = k /\ n * 0 + k = k
    BY <2>2, DivisionUnique
  <2> QED BY <2>1, <2>2, <2>3, Orders
<1> QED BY <1>2, <1>3, <1>4

\* Either of the two kernels that add pairs.
LEMMA AddedPairs ==
  ASSUME NEW batch \in Batches, NEW stop \in Nat, NEW kernel, kernel \in {"x keys", "points"},
         AddPairs(kernel, batch, stop)
  PROVE  SumsAreTheGroupLaw'
<1> DEFINE n == Len(batch)
           pairs == PairsOf(batch)
           kinds == [i \in DOMAIN pairs |-> Kind(pairs[i][1], pairs[i][2])]
           e == [i \in DOMAIN pairs |-> Denominator(kinds[i], pairs[i][1], pairs[i][2])]
           filled == Inverting(kinds, scratch.strideKinds, e)
           result(i) == IF kernel = "x keys" THEN SumX(kinds[i], pairs[i][1], pairs[i][2], filled.inverses[i])
                        ELSE SumPoint(kinds[i], pairs[i][1], pairs[i][2], filled.inverses[i])
           results == [i \in DOMAIN pairs |-> result(i)]
<1>1. /\ scratch' = filled
      /\ visited' = Shown(results, stop)
      /\ call' = [kernel |-> kernel, batch |-> batch, stop |-> stop]
  BY DEF AddPairs
<1>2. n \in Nat /\ DOMAIN batch = 1 .. n
  BY BatchIs
<1>3. /\ DOMAIN pairs = 1 .. n
      /\ \A i \in 1 .. n : pairs[i][1] = PointAt(batch[i][1]) /\ pairs[i][2] = PointAt(batch[i][2])
  BY <1>2 DEF PairsOf
<1>4. \A i \in 1 .. n : pairs[i][1] \in CurvePoints /\ pairs[i][2] \in CurvePoints
  <2> HIDE DEF pairs
  <2> QED BY <1>3, BatchIs
<1>5. \A i \in 1 .. n : kinds[i] = Kind(pairs[i][1], pairs[i][2])
  <2> HIDE DEF pairs
  <2> QED BY <1>3
<1>6. \A i \in 1 .. n : e[i] = Denominator(kinds[i], pairs[i][1], pairs[i][2])
  <2> HIDE DEF pairs, kinds
  <2> QED BY <1>3
<1>7. e \in [1 .. n -> Field \ {0}]
  <2>1. DOMAIN e = 1 .. n /\ e = [i \in 1 .. n |-> e[i]]
    <3> HIDE DEF pairs, kinds
    <3> QED BY <1>3
  <2> HIDE DEF pairs, kinds, e
  <2>2. ASSUME NEW i \in 1 .. n PROVE e[i] \in Field \ {0}
    <3>1. PICK p, q, kind : p = pairs[i][1] /\ q = pairs[i][2] /\ kind = kinds[i]
      OBVIOUS
    <3>2. p \in CurvePoints /\ q \in CurvePoints /\ kind = Kind(p, q) /\ e[i] = Denominator(kind, p, q)
      BY <1>4, <1>5, <1>6, <3>1
    <3> QED BY ONLY <3>2, OneSum
  <2> QED BY <2>1, <2>2
<1>8. results = [i \in 1 .. n |-> result(i)]
  <2> HIDE DEF pairs, kinds, e, filled, result
  <2> QED BY <1>3
<1> HIDE DEF pairs, kinds, e
<1>9. /\ scratch'.denominators = e /\ scratch'.inverses = filled.inverses
      /\ \A i \in 1 .. n : filled.inverses[i] \in Field /\ Times(e[i], filled.inverses[i]) = 1
  <2>1. PICK strideKinds, first : filled = Inverting(first, strideKinds, e)
    OBVIOUS
  <2> HIDE DEF filled, result, results
  <2>2. filled.denominators = e /\ \A i \in 1 .. n : filled.inverses[i] \in Field /\ Times(e[i], filled.inverses[i]) = 1
    BY ONLY <1>2, <1>7, <2>1, Filled
  <2> QED BY <1>1, <2>2
<1> HIDE DEF filled
<1>10. ASSUME NEW i \in 1 .. n
       PROVE  result(i) = IF kernel = "x keys" THEN XOf(PointAt(batch[i][1] + batch[i][2]))
                          ELSE PointAt(batch[i][1] + batch[i][2])
  <2>1. batch[i][1] \in Int /\ batch[i][2] \in Int
    BY BatchIs
  <2>2. PICK p, q, kind, inverse : /\ p = pairs[i][1] /\ q = pairs[i][2] /\ kind = kinds[i]
                                   /\ inverse = filled.inverses[i]
    OBVIOUS
  <2>3. PICK j \in Int, k \in Int : j = batch[i][1] /\ k = batch[i][2]
    BY <2>1
  <2>4. /\ p \in CurvePoints /\ q \in CurvePoints /\ p = PointAt(j) /\ q = PointAt(k)
        /\ kind = Kind(p, q) /\ inverse \in Field /\ Times(Denominator(kind, p, q), inverse) = 1
    BY <1>3, <1>4, <1>5, <1>6, <1>9, <2>2, <2>3
  <2>5. SumPoint(kind, p, q, inverse) = PointAt(j + k) /\ SumX(kind, p, q, inverse) = XOf(PointAt(j + k))
    BY ONLY <2>4, PairSum, j \in Int, k \in Int
  <2>6. /\ SumPoint(kinds[i], pairs[i][1], pairs[i][2], filled.inverses[i]) = PointAt(batch[i][1] + batch[i][2])
        /\ SumX(kinds[i], pairs[i][1], pairs[i][2], filled.inverses[i]) = XOf(PointAt(batch[i][1] + batch[i][2]))
    BY <2>2, <2>3, <2>5
  <2> QED BY <2>6
<1>11. \A i \in DOMAIN visited' : i \in 1 .. n /\ visited'[i] = result(i)
  <2> HIDE DEF result, results
  <2>1. results = [i \in 1 .. n |-> results[i]]
    BY <1>8
  <2>2. \A i \in 1 .. n : results[i] = result(i)
    BY <1>8
  <2>3. PICK shown, f, m, last : f = results /\ m = n /\ last = stop /\ shown = visited' /\ shown = Shown(f, last)
    <3>1. visited' = Shown(results, stop)
      BY <1>1
    <3> QED BY ONLY <3>1
  <2>4. f = [i \in 1 .. m |-> f[i]]
    BY <2>1, <2>3
  <2>5. \A i \in DOMAIN shown : i \in 1 .. m /\ shown[i] = f[i]
    <3>1. m \in Nat /\ last \in Nat
      BY <1>2, <2>3
    <3> QED BY ONLY <2>3, <2>4, <3>1, ShownAre
  <2> QED BY <2>2, <2>3, <2>5
<1> HIDE DEF result, results
<1>12. ASSUME NEW i \in DOMAIN visited' PROVE visited'[i] = Expected(i)'
  <2>1. call'.kernel = kernel /\ call'.batch = batch
    BY <1>1
  <2>2. Expected(i)' = IF kernel = "x keys" THEN XOf(PointAt(batch[i][1] + batch[i][2]))
                       ELSE PointAt(batch[i][1] + batch[i][2])
    BY <2>1 DEF Expected
  <2> QED BY <1>10, <1>11, <2>2
<1>13. InversesInvert'
  BY <1>7, <1>9 DEF InversesInvert
<1> QED BY <1>12, <1>13 DEF SumsAreTheGroupLaw, SumsAre

LEMMA AddedStrides ==
  ASSUME NEW batch \in Batches, NEW stop \in Nat, AddSignedStride(batch, stop)
  PROVE  SumsAreTheGroupLaw'
<1> DEFINE n == Len(batch)
           lhs == [i \in DOMAIN batch |-> PointAt(batch[i][1])]
           stride == NegatedPoint(PointAt(batch[1][2]))
           kinds == [i \in DOMAIN batch |-> StrideKind(lhs[i], stride)]
           e == [i \in DOMAIN batch |->
                  Denominator(IF kinds[i] = "chord" THEN "chord" ELSE "tangent", lhs[i], stride)]
           filled == Inverting(scratch.kinds, kinds, e)
           result(i) == StrideXs(kinds[i], lhs[i], stride, filled.inverses[i])
           results == [i \in DOMAIN batch |-> result(i)]
<1>1. /\ scratch' = filled
      /\ visited' = Shown(results, stop)
      /\ call' = [kernel |-> "signed stride", batch |-> batch, stop |-> stop]
      /\ batch # <<>>
  BY DEF AddSignedStride
<1>2. n \in Nat /\ DOMAIN batch = 1 .. n
  BY BatchIs
<1>3. 1 \in 1 .. n
  <2>1. batch \in Seq((1 .. GroupOrder - 1) \X (1 .. GroupOrder - 1))
    BY CurveAssumption
  <2>2. n # 0
    BY <1>1, <2>1, EmptySeq
  <2> QED BY <1>2, <2>2
<1> HIDE DEF n
<1>4. \A i \in 1 .. n : /\ batch[i][1] \in Int /\ batch[i][2] \in Int
                        /\ PointAt(batch[i][1]) \in CurvePoints /\ PointAt(batch[i][2]) \in CurvePoints
  BY BatchIs DEF n
<1>5. \A i \in 1 .. n : lhs[i] = PointAt(batch[i][1])
  BY <1>2
<1>6. \A i \in 1 .. n : kinds[i] = StrideKind(lhs[i], stride)
  <2> HIDE DEF lhs, stride
  <2> QED BY <1>2
<1>7. \A i \in 1 .. n : e[i] = Denominator(IF kinds[i] = "chord" THEN "chord" ELSE "tangent", lhs[i], stride)
  <2> HIDE DEF lhs, stride, kinds
  <2> QED BY <1>2
<1>8. e = [i \in 1 .. n |-> e[i]]
  <2> HIDE DEF lhs, stride, kinds
  <2> QED BY <1>2
<1>9. results = [i \in 1 .. n |-> result(i)]
  <2> HIDE DEF lhs, stride, kinds, e, filled, result
  <2> QED BY <1>2
<1> DEFINE k == batch[1][2]
<1>10. k \in Int /\ PointAt(k) \in CurvePoints /\ stride = NegatedPoint(PointAt(k))
  BY <1>3, <1>4
<1> HIDE DEF lhs, stride, kinds, e, k
<1>11. ASSUME NEW i \in 1 .. n
       PROVE  /\ e[i] \in Field \ {0}
              /\ \A b \in Field : Times(e[i], b) = 1
                   => StrideXs(kinds[i], lhs[i], stride, b)
                        = <<XOf(PointAt(batch[i][1] - k)), XOf(PointAt(batch[i][1] + k))>>
  <2>1. PICK j \in Int : j = batch[i][1] /\ lhs[i] = PointAt(j) /\ lhs[i] \in CurvePoints
    BY <1>4, <1>5
  <2> QED BY <1>6, <1>7, <1>10, <2>1, StrideSum
<1>12. e \in [1 .. n -> Field \ {0}]
  BY <1>8, <1>11
<1>13. /\ scratch'.denominators = e /\ scratch'.inverses = filled.inverses
       /\ \A i \in 1 .. n : filled.inverses[i] \in Field /\ Times(e[i], filled.inverses[i]) = 1
  <2>1. PICK strideKinds, first : filled = Inverting(first, strideKinds, e)
    OBVIOUS
  <2> HIDE DEF filled, result, results
  <2>2. filled.denominators = e /\ \A i \in 1 .. n : filled.inverses[i] \in Field /\ Times(e[i], filled.inverses[i]) = 1
    BY ONLY <1>2, <1>12, <2>1, Filled
  <2> QED BY <1>1, <2>2
<1> HIDE DEF filled
<1>14. ASSUME NEW i \in 1 .. n
       PROVE  result(i) = <<XOf(PointAt(batch[i][1] - k)), XOf(PointAt(batch[i][1] + k))>>
  BY <1>11, <1>13
<1>15. \A i \in DOMAIN visited' : i \in 1 .. n /\ visited'[i] = result(i)
  <2> HIDE DEF result, results
  <2>1. results = [i \in 1 .. n |-> results[i]]
    BY <1>9
  <2>2. \A i \in 1 .. n : results[i] = result(i)
    BY <1>9
  <2>3. PICK shown, f, m, last : f = results /\ m = n /\ last = stop /\ shown = visited' /\ shown = Shown(f, last)
    <3>1. visited' = Shown(results, stop)
      BY <1>1
    <3> QED BY ONLY <3>1
  <2>4. f = [i \in 1 .. m |-> f[i]]
    BY <2>1, <2>3
  <2>5. \A i \in DOMAIN shown : i \in 1 .. m /\ shown[i] = f[i]
    <3>1. m \in Nat /\ last \in Nat
      BY <1>2, <2>3
    <3> QED BY ONLY <2>3, <2>4, <3>1, ShownAre
  <2> QED BY <2>2, <2>3, <2>5
<1> HIDE DEF result, results
<1>16. ASSUME NEW i \in DOMAIN visited' PROVE visited'[i] = Expected(i)'
  <2>1. call'.kernel = "signed stride" /\ call'.batch = batch
    BY <1>1
  <2>2. Expected(i)' = <<XOf(PointAt(batch[i][1] - k)), XOf(PointAt(batch[i][1] + k))>>
    BY <2>1 DEF Expected, k
  <2> QED BY <1>14, <1>15, <2>2
<1>17. InversesInvert'
  BY <1>12, <1>13 DEF InversesInvert
<1> QED BY <1>16, <1>17 DEF SumsAreTheGroupLaw, SumsAre

\* Batched sums are those of the group law, for every curve, generator and
\* batch, whatever an earlier call left in the buffers (batch_affine.rs).
THEOREM BatchesSum == BatchSpec => []SumsAreTheGroupLaw
<1>1. BatchInit => SumsAreTheGroupLaw
  <2>1. ASSUME BatchInit PROVE SumsAre /\ InversesInvert
    <3>1. visited = <<>> /\ scratch.denominators = <<>>
      BY <2>1 DEF BatchInit, EmptyScratch
    <3> QED BY <3>1 DEF SumsAre, InversesInvert
  <2> QED BY <2>1 DEF SumsAreTheGroupLaw
<1>2. SumsAreTheGroupLaw /\ [BatchNext]_batchVars => SumsAreTheGroupLaw'
  <2> SUFFICES ASSUME SumsAreTheGroupLaw, [BatchNext]_batchVars PROVE SumsAreTheGroupLaw'
    OBVIOUS
  <2>1. CASE BatchNext
    <3>1. PICK batch \in Batches : \E stop \in 1 .. Len(batch) + 1 :
            AddXKeys(batch, stop) \/ AddPoints(batch, stop) \/ AddSignedStride(batch, stop)
      BY <2>1 DEF BatchNext
    <3>2. PICK stop \in 1 .. Len(batch) + 1 :
            AddXKeys(batch, stop) \/ AddPoints(batch, stop) \/ AddSignedStride(batch, stop)
      BY <3>1
    <3>3. stop \in Nat
      BY BatchIs
    <3>4. CASE AddXKeys(batch, stop)
      BY <3>3, <3>4, AddedPairs DEF AddXKeys
    <3>5. CASE AddPoints(batch, stop)
      BY <3>3, <3>5, AddedPairs DEF AddPoints
    <3>6. CASE AddSignedStride(batch, stop)
      BY <3>3, <3>6, AddedStrides
    <3> QED BY <3>2, <3>4, <3>5, <3>6
  <2>2. CASE UNCHANGED batchVars
    <3>1. scratch' = scratch /\ call' = call /\ visited' = visited
      BY <2>2 DEF batchVars
    <3> QED BY <3>1 DEF SumsAreTheGroupLaw, SumsAre, InversesInvert, Expected
  <2> QED BY <2>1, <2>2
<1> QED BY <1>1, <1>2, PTL DEF BatchSpec
=============================================================================
