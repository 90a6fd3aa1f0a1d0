------------------------------ MODULE Parallel ------------------------------
(***************************************************************************)
(* The two scans of parallel.rs: scoped worker threads, each over one      *)
(* chunk of the indices 0 .. len - 1.                                      *)
(*                                                                         *)
(* parallel_map_indexed runs a task for every index; the caller joins the  *)
(* workers in order and concatenates their results.  A task may panic: its *)
(* worker stops, the join hands the panic to the caller, and the scope     *)
(* waits for the other workers before the panic leaves it.  The result of  *)
(* a task, and the payload of its panic, is its index.                     *)
(*                                                                         *)
(* parallel_any tests every item for a hit.  Its workers share a flag,     *)
(* stored on a hit and loaded once by each worker before it starts; both   *)
(* accesses are relaxed, so a load may miss a store that already happened. *)
(* The scope joins all workers before the flag is read for the answer.     *)
(***************************************************************************)
EXTENDS Integers, Sequences

CONSTANTS
  Inputs,       \* the calls of the map: [len, requested, panics], panics a set of indices
  Scans,        \* the calls of the scan for a hit: [len, requested, hits], hits likewise
  MaxThreads,   \* bound on the threads asked for
  None          \* no panic, no outcome, no answer yet

ASSUME InputsAssumption ==
  /\ \A q \in Inputs : q.len \in Nat /\ q.requested \in 1 .. MaxThreads
                         /\ q.panics \subseteq 0 .. q.len - 1
  /\ \A q \in Scans : q.len \in Nat /\ q.requested \in 1 .. MaxThreads
                        /\ q.hits \subseteq 0 .. q.len - 1
  /\ MaxThreads \in Nat
  /\ None \notin Nat /\ None \notin BOOLEAN

----------------------------------------------------------------------------
(* How the indices are cut.                                                *)

MinOf(a, b) == IF a < b THEN a ELSE b

DivFloor(a, b) == a \div b                \* slip: the remainder is dropped
DivCeil(a, b) == (a + b - 1) \div b

\* The number of threads asked for, by the environment or the machine, but
\* no more than there are items.
WorkerCount(requested, len) == MinOf(requested, IF len = 0 THEN 1 ELSE len)

ChunkSize(workers, len) == DivCeil(len, workers)

\* A chunk's first index and the one after its last.  The last workers may
\* start beyond the end; their chunks are empty.
ChunkStart(worker, size) == worker * size

ChunkEnd(worker, size, len) == MinOf(worker * size + size, len)

----------------------------------------------------------------------------
(* parallel_map_indexed.                                                   *)

VARIABLES
  input,        \* the arguments of the call
  spawned,      \* how many workers have been spawned
  next,         \* the index each worker runs next
  panicked,     \* the workers that stopped on a panic
  joined,       \* how many workers have been joined
  collected,    \* the results taken from them
  payload,      \* the panic that is unwinding the scope
  outcome       \* what the call returned or panicked with

vars == <<input, spawned, next, panicked, joined, collected, payload, outcome>>

Workers == WorkerCount(input.requested, input.len)
Size == ChunkSize(Workers, input.len)
Start(w) == ChunkStart(w, Size)
End(w) == ChunkEnd(w, Size, input.len)

FinishedNormally(w) == w < spawned /\ next[w] >= End(w)   \* slip: a panic is not an end
Finished(w) == w < spawned /\ (next[w] >= End(w) \/ w \in panicked)

\* The results of worker w so far.
ResultsOf(w) == [k \in 1 .. next[w] - Start(w) |-> Start(w) + k - 1]

\* What mapping the tasks over the indices on one thread does.
InlineOutcome ==
  IF input.panics = {} THEN [ok |-> [k \in 1 .. input.len |-> k - 1]]
  ELSE [panic |-> CHOOSE i \in input.panics : \A j \in input.panics : i <= j]

----------------------------------------------------------------------------
Init ==
  /\ input \in Inputs
  /\ spawned = 0 /\ joined = 0
  /\ next = [w \in 0 .. Workers - 1 |-> Start(w)]
  /\ panicked = {}
  /\ collected = <<>>
  /\ payload = None /\ outcome = None

\* One worker or none is not worth a thread.
Inline ==
  /\ outcome = None
  /\ Workers <= 1
  /\ outcome' = InlineOutcome
  /\ UNCHANGED <<input, spawned, next, panicked, joined, collected, payload>>

Spawn ==
  /\ Workers > 1
  /\ spawned < Workers
  /\ spawned' = spawned + 1
  /\ UNCHANGED <<input, next, panicked, joined, collected, payload, outcome>>

\* A worker runs the task of its next index.
RunTask(w) ==
  /\ w < spawned /\ ~Finished(w)
  /\ IF next[w] \in input.panics
       THEN panicked' = panicked \cup {w} /\ UNCHANGED next
       ELSE next' = [next EXCEPT ![w] = @ + 1] /\ UNCHANGED panicked
  /\ UNCHANGED <<input, spawned, joined, collected, payload, outcome>>

\* All are spawned before the first is joined.
Join ==
  /\ Workers > 1
  /\ spawned = Workers /\ joined < Workers /\ payload = None
  /\ Finished(joined)
  /\ IF joined \in panicked
       THEN payload' = next[joined] /\ UNCHANGED <<joined, collected>>
       ELSE /\ collected' = collected \o ResultsOf(joined)
            /\ joined' = joined + 1
            /\ UNCHANGED payload
  /\ UNCHANGED <<input, spawned, next, panicked, outcome>>

Return ==
  /\ outcome = None
  /\ joined = Workers
  /\ outcome' = [ok |-> collected]
  /\ UNCHANGED <<input, spawned, next, panicked, joined, collected, payload>>

\* Slip: the panic leaves the scope while workers run.
UnwindAtOnce ==
  /\ outcome = None
  /\ payload # None
  /\ outcome' = [panic |-> payload]
  /\ UNCHANGED <<input, spawned, next, panicked, joined, collected, payload>>

\* thread::scope waits for every worker before it unwinds.
Unwind == UnwindAtOnce /\ \A w \in 0 .. Workers - 1 : Finished(w)

Caller == Inline \/ Spawn \/ Join \/ Return \/ Unwind

Next == Caller \/ \E w \in 0 .. Workers - 1 : RunTask(w)

\* The threads are scheduled: no task waits for another.
Spec ==
  /\ Init /\ [][Next]_vars
  /\ WF_vars(Caller)
  /\ \A w \in 0 .. MaxThreads - 1 : WF_vars(w < Workers /\ RunTask(w))

----------------------------------------------------------------------------
TypeOK ==
  /\ input \in Inputs
  /\ spawned \in 0 .. Workers /\ joined \in 0 .. Workers
  /\ DOMAIN next = 0 .. Workers - 1
  /\ \A w \in DOMAIN next : next[w] = Start(w) \/ next[w] \in Start(w) .. input.len
  /\ panicked \subseteq DOMAIN next
  /\ \A k \in DOMAIN collected : collected[k] \in 0 .. input.len - 1

\* "Threading changes throughput only - never results or their order", and a
\* panic propagates "exactly as it would inline": the call returns the results
\* in index order, or panics with the panic of the first panicking index,
\* however the workers interleave (parallel.rs 1-3, 22-23).
OutcomeIsInline == outcome # None => outcome = InlineOutcome

\* No task runs once the call has returned or panicked, so a task never
\* outlives what it borrows (thread::scope).
NoWorkerOutlives == outcome # None => \A w \in 0 .. spawned - 1 : Finished(w)

\* Every map ends.
Terminates == <>(outcome # None)

----------------------------------------------------------------------------
(* parallel_any.                                                           *)

VARIABLES
  scanned,       \* the arguments of the call
  started,     \* how many workers have been started
  state,       \* what each worker does: "ready", "testing" or "done"
  found,       \* the shared flag
  answer       \* what the call returned

scanVars == <<scanned, started, state, found, answer>>

ScanWorkers == WorkerCount(scanned.requested, scanned.len)
ScanSize == ChunkSize(ScanWorkers, scanned.len)

\* items.chunks(chunk_size): there may be fewer chunks than workers.
ChunkCount == IF scanned.len = 0 THEN 0 ELSE DivCeil(scanned.len, ScanSize)
Chunk(c) == ChunkStart(c, ScanSize) .. ChunkEnd(c, ScanSize, scanned.len) - 1
HasHit(c) == Chunk(c) \cap scanned.hits # {}

----------------------------------------------------------------------------
ScanInit ==
  /\ scanned \in Scans
  /\ started = 0
  /\ state = [c \in 0 .. ChunkCount - 1 |-> "ready"]
  /\ found = FALSE
  /\ answer = None

\* Nothing to test, or no second worker to test it.
ScanInline ==
  /\ answer = None
  /\ ScanWorkers <= 1
  /\ answer' = (scanned.hits # {})
  /\ UNCHANGED <<scanned, started, state, found>>

StartScanner ==
  /\ ScanWorkers > 1
  /\ started < ChunkCount
  /\ started' = started + 1
  /\ UNCHANGED <<scanned, state, found, answer>>

Move(c, from, to) ==
  /\ c < started
  /\ state[c] = from
  /\ state' = [state EXCEPT ![c] = to]
  /\ UNCHANGED <<scanned, started, answer>>

\* The load sees the flag set: the chunk is skipped.
Skip(c) == found /\ Move(c, "ready", "done") /\ UNCHANGED found

\* It does not, whether or not the flag is set.
BeginTest(c) == Move(c, "ready", "testing") /\ UNCHANGED found

\* Slip: the worker stores its own verdict, hit or not.
EndTestStoring(c) == Move(c, "testing", "done") /\ found' = HasHit(c)

EndTest(c) == Move(c, "testing", "done") /\ found' = (found \/ HasHit(c))

AllDone == started = ChunkCount /\ \A c \in 0 .. ChunkCount - 1 : state[c] = "done"

\* Slip: the answer is read as soon as the flag is set.
AnswerEarly ==
  /\ answer = None
  /\ ScanWorkers > 1
  /\ found \/ AllDone
  /\ answer' = found
  /\ UNCHANGED <<scanned, started, state, found>>

Answer ==
  /\ answer = None
  /\ ScanWorkers > 1
  /\ AllDone
  /\ answer' = found
  /\ UNCHANGED <<scanned, started, state, found>>

ScanCaller == ScanInline \/ StartScanner \/ Answer
Scanner(c) == c < ChunkCount /\ (Skip(c) \/ BeginTest(c) \/ EndTest(c))

ScanNext == ScanCaller \/ \E c \in 0 .. MaxThreads - 1 : Scanner(c)

\* The threads are scheduled: no chunk waits for another.
ScanSpec ==
  /\ ScanInit /\ [][ScanNext]_scanVars
  /\ WF_scanVars(ScanCaller)
  /\ \A c \in 0 .. MaxThreads - 1 : WF_scanVars(Scanner(c))

----------------------------------------------------------------------------
\* The answer is whether any item is a hit, whatever chunks were skipped and
\* whatever loads of the flag were stale, and no worker is testing items once
\* it is there (parallel_any).
ScanIsInline ==
  answer # None =>
    /\ answer = (scanned.hits # {})
    /\ \A c \in 0 .. started - 1 : state[c] = "done"

\* Every scan for a hit ends.
ScanEnds == <>(answer # None)
=============================================================================
