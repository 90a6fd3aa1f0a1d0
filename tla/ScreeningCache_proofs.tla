------------------------ MODULE ScreeningCache_proofs ------------------------
(***************************************************************************)
(* The screening caches never change an answer: proofs for any keys, any   *)
(* calls, any number of threads and any capacities.                        *)
(***************************************************************************)
EXTENDS ScreeningCache, FiniteSetTheorems, SequenceTheorems, TLAPS

----------------------------------------------------------------------------
(* The inductive invariant.                                                *)

Canonical(q) == q.kind = "opening_binding" => IsOk(CanonicalGates(q.keys))

BindingsInv ==
  /\ openingBindings \in Seq({Entry(q) : q \in Calls})
  /\ \A i \in DOMAIN openingBindings :
       RosterVerdict(openingBindings[i][1][1], openingBindings[i][1][2]) = Ok(openingBindings[i][2])
  /\ \A i, j \in DOMAIN openingBindings : openingBindings[i][1] = openingBindings[j][1] => i = j
  /\ Len(openingBindings) <= OpeningBindingCacheCap

KeysInv ==
  /\ screenedKeys \subseteq Scalars /\ IsFiniteSet(screenedKeys)
  /\ \A key \in screenedKeys : Screen(key) = "ok"
  /\ Cardinality(screenedKeys) <= PublicKeyCacheCap

\* A task holds its cold verdict as soon as it holds one.
TasksInv(t) ==
  /\ DOMAIN task[t] = TasksOf(call[t])
  /\ \A c \in DOMAIN task[t] : task[t][c] \in {"start", "miss", ComponentVerdict(c)}
  /\ \A c \in DOMAIN task[t] : task[t][c] = "miss" => c[2] # Identity
  /\ task[t] = [c \in DOMAIN task[t] |-> task[t][c]]

ThreadInv(t) ==
  /\ pc[t] \in {"idle", "lookup", "screen", "store"}
  /\ pc[t] # "idle" => call[t] \in Calls /\ answer[t] = Nothing
  /\ pc[t] \in {"screen", "store"} => Canonical(call[t]) /\ call[t].recipient # Identity
  /\ pc[t] = "screen" => TasksInv(t)
  /\ pc[t] = "store" => /\ call[t].kind = "opening_binding"
                        /\ RosterVerdict(call[t].recipient, Gates(call[t])) = Ok(Entry(call[t])[2])
  /\ call[t] = Nothing => answer[t] = Nothing
  /\ pc[t] = "idle" /\ call[t] # Nothing => answer[t] = ColdVerdict(call[t])

ShapeInv ==
  /\ pc \in [Threads -> {"idle", "lookup", "screen", "store"}]
  /\ call \in [Threads -> Calls \cup {Nothing}]
  /\ DOMAIN task = Threads /\ task = [t \in Threads |-> task[t]]
  /\ DOMAIN answer = Threads /\ answer = [t \in Threads |-> answer[t]]

IInv == BindingsInv /\ KeysInv /\ ShapeInv /\ \A t \in Threads : ThreadInv(t)

----------------------------------------------------------------------------
(* What results look like.                                                 *)

\* An error is not a value (Result).
LEMMA OkOrErr == \A x : IsOk(Ok(x)) /\ ~IsOk(Err(x))
  BY DEF IsOk, Ok, Err

\* composite_key returns an error or the roster's binding.
LEMMA CompositeKeyOk ==
  ASSUME NEW recipient, NEW gates, NEW verdict, IsOk(CompositeKey(recipient, gates, verdict))
  PROVE  CompositeKey(recipient, gates, verdict) = Ok(OpeningBinding(recipient, gates))
  BY OkOrErr DEF CompositeKey, FirstError

\* A screening never yields the marks of an unfinished task.
LEMMA ScreenIsVerdict ==
  \A c : Screen(c[2]) \notin {"start", "miss"} /\ ComponentVerdict(c) \notin {"start", "miss"}
  BY DEF Screen, ComponentVerdict


\* Once all tasks are finished, what the caller joins is the cold verdict.
LEMMA JoinedIsCold ==
  ASSUME NEW t \in Threads, call[t] \in Calls, Canonical(call[t]), call[t].recipient # Identity,
         TasksInv(t), \A c \in DOMAIN task[t] : task[t][c] \notin {"start", "miss"}
  PROVE  /\ Joined(call[t], task[t]) = ColdVerdict(call[t])
         /\ call[t].kind = "opening_binding" =>
              Joined(call[t], task[t]) = RosterVerdict(call[t].recipient, Gates(call[t]))
<1> DEFINE q == call[t]
<1>1. q.kind \in {"opening_binding", "recovery_key"}
  BY CacheAssumption
<1>2. task[t] = [c \in TasksOf(q) |-> ComponentVerdict(c)]
  BY DEF TasksInv
<1>3. CASE q.kind = "opening_binding"
  <2>1. TasksOf(q) = Components(q.recipient, Gates(q)) /\ q.kind # "recovery_key"
    BY <1>3 DEF TasksOf
  <2>2. Joined(q, task[t]) = RosterVerdict(q.recipient, Gates(q))
    BY <1>2, <1>3, <2>1 DEF Joined, RosterVerdict
  <2>3. IsOk(CanonicalGates(q.keys)) /\ CanonicalGates(q.keys) = Ok(Gates(q))
    BY <1>3, OkOrErr DEF Canonical, CanonicalGates, Gates
  <2>4. CanonicalGates(q.keys).value = Gates(q)
    BY <2>3 DEF Ok
  <2>5. ColdVerdict(q) = RosterVerdict(q.recipient, Gates(q))
    BY <2>1, <2>3, <2>4 DEF ColdVerdict
  <2> QED BY <2>2, <2>5
<1>4. CASE q.kind = "recovery_key"
  <2> DEFINE c == <<"recovery", q.recipient>>  v == ComponentVerdict(c)
  <2>1. q.kind # "opening_binding" /\ TasksOf(q) = {c}
    BY <1>4 DEF TasksOf
  <2>2. DOMAIN task[t] = {c} /\ task[t][c] = v
    BY <1>2, <2>1
  <2>3. CASE v = "ok"
    <3>1. Failing(task[t]) = {}
      BY <2>2, <2>3 DEF Failing
    <3> QED BY <1>4, <2>1, <2>3, <3>1 DEF Joined, ColdVerdict, RecoveryKeyVerdict
  <2>4. CASE v # "ok"
    <3>1. Failing(task[t]) = {c}
      BY <2>2, <2>4 DEF Failing
    <3>2. Precedes(c, c)
      BY DEF Precedes
    <3>3. (CHOOSE x \in {c} : \A d \in {c} : Precedes(x, d)) = c
      BY <3>2
    <3>4. FirstError(task[t]) = Err(<<c[1], task[t][c]>>)
      BY <3>1, <3>3 DEF FirstError
    <3>5. FirstError(task[t]) = Err(<<"recovery", v>>)
      BY <3>4, <2>2
    <3> QED BY <1>4, <2>1, <2>4, <3>1, <3>5 DEF Joined, ColdVerdict, RecoveryKeyVerdict
  <2> QED BY <2>1, <2>3, <2>4
<1> QED BY <1>1, <1>3, <1>4

----------------------------------------------------------------------------
(* The invariant is inductive.                                             *)

\* The initial states satisfy the inductive invariant.
LEMMA InitIInv == Init => IInv
<1> SUFFICES ASSUME Init PROVE IInv
  OBVIOUS
<1>1. BindingsInv
  BY CacheAssumption DEF Init, BindingsInv
<1>2. KeysInv
  BY CacheAssumption, FS_EmptySet DEF Init, KeysInv
<1>3. ShapeInv /\ \A t \in Threads : ThreadInv(t)
  BY DEF Init, ShapeInv, ThreadInv
<1> QED BY <1>1, <1>2, <1>3 DEF IInv

\* A step of one thread leaves what is known of the others alone.
LEMMA OthersUnchanged ==
  ASSUME NEW t \in Threads, NEW u \in Threads, ThreadInv(u),
         pc'[u] = pc[u], call'[u] = call[u], task'[u] = task[u], answer'[u] = answer[u]
  PROVE  ThreadInv(u)'
BY DEF ThreadInv, TasksInv

\* A returning thread keeps its invariant if its answer is the cold one.
LEMMA ReturnKeeps ==
  ASSUME NEW t \in Threads, NEW result, ShapeInv, \A u \in Threads : ThreadInv(u),
         Return(t, result), UNCHANGED call, call[t] \in Calls, result = ColdVerdict(call[t])
  PROVE  ShapeInv' /\ \A u \in Threads : ThreadInv(u)'
<1>1. ShapeInv'
  BY DEF ShapeInv, Return
<1>2. ThreadInv(t)'
  <2>1. call[t] # Nothing
    BY CacheAssumption
  <2>2. pc'[t] = "idle" /\ call'[t] = call[t] /\ answer'[t] = ColdVerdict(call[t])
    BY DEF ShapeInv, Return
  <2> QED BY <2>1, <2>2 DEF ThreadInv
<1>3. ASSUME NEW u \in Threads, u # t PROVE ThreadInv(u)'
  BY <1>3, OthersUnchanged DEF ShapeInv, Return
<1> QED BY <1>1, <1>2, <1>3

\* Storing a screened binding keeps the cache sound, free of duplicates and
\* within its capacity.
LEMMA StoreKeeps ==
  ASSUME NEW q \in Calls, BindingsInv,
         RosterVerdict(q.recipient, Gates(q)) = Ok(Entry(q)[2]),
         Cached(CacheKey(q)) = {}, Len(openingBindings) < OpeningBindingCacheCap,
         openingBindings' = Append(openingBindings, Entry(q))
  PROVE  BindingsInv'
<1> DEFINE n == Len(openingBindings)
<1>1. /\ openingBindings \in Seq({Entry(r) : r \in Calls})
      /\ n \in Nat /\ DOMAIN openingBindings = 1 .. n
  BY DEF BindingsInv
<1>2. /\ openingBindings' \in Seq({Entry(r) : r \in Calls})
      /\ Len(openingBindings') = n + 1 /\ DOMAIN openingBindings' = 1 .. n + 1
      /\ openingBindings'[n + 1] = Entry(q)
      /\ \A i \in 1 .. n : openingBindings'[i] = openingBindings[i]
  BY <1>1
<1>3. Entry(q)[1] = CacheKey(q) /\ CacheKey(q)[1] = q.recipient /\ CacheKey(q)[2] = Gates(q)
  BY DEF Entry, CacheKey
<1>4. \A i \in 1 .. n : openingBindings[i][1] # CacheKey(q)
  BY <1>1 DEF Cached
<1>5. \A i \in 1 .. n + 1 : i = n + 1 \/ i \in 1 .. n
  BY <1>1
<1>6. \A i \in DOMAIN openingBindings' :
        RosterVerdict(openingBindings'[i][1][1], openingBindings'[i][1][2]) = Ok(openingBindings'[i][2])
  <2> SUFFICES ASSUME NEW i \in 1 .. n + 1
               PROVE  RosterVerdict(openingBindings'[i][1][1], openingBindings'[i][1][2])
                        = Ok(openingBindings'[i][2])
    BY <1>2
  <2>1. CASE i = n + 1
    BY <2>1, <1>2, <1>3
  <2>2. CASE i \in 1 .. n
    BY <2>2, <1>1, <1>2 DEF BindingsInv
  <2> QED BY <2>1, <2>2, <1>5
<1>7. \A i, j \in DOMAIN openingBindings' :
        openingBindings'[i][1] = openingBindings'[j][1] => i = j
  BY <1>1, <1>2, <1>3, <1>4, <1>5 DEF BindingsInv
<1>8. n + 1 <= OpeningBindingCacheCap
  BY <1>1, CacheAssumption
<1> QED BY <1>2, <1>6, <1>7, <1>8 DEF BindingsInv

\* Caching a key that passed the screen keeps the key cache sound and within
\* its capacity.
LEMMA CacheKeyKeeps ==
  ASSUME NEW key \in Scalars, KeysInv, Screen(key) = "ok", Cardinality(screenedKeys) < PublicKeyCacheCap,
         screenedKeys' = screenedKeys \cup {key}
  PROVE  KeysInv'
<1>1. IsFiniteSet(screenedKeys) /\ Cardinality(screenedKeys) \in Nat
  BY FS_CardinalityType DEF KeysInv
<1>2. IsFiniteSet(screenedKeys') /\ Cardinality(screenedKeys') \in {Cardinality(screenedKeys), Cardinality(screenedKeys) + 1}
  BY <1>1, FS_AddElement
<1>3. Cardinality(screenedKeys') <= PublicKeyCacheCap
  BY <1>1, <1>2, CacheAssumption
<1> QED BY <1>2, <1>3 DEF KeysInv

\* Every step keeps the inductive invariant, action by action.
LEMMA NextIInv == IInv /\ [Next]_vars => IInv'
<1> SUFFICES ASSUME IInv, [Next]_vars PROVE IInv'
  OBVIOUS
<1> USE DEF IInv
<1>1. ASSUME NEW t \in Threads, NEW q \in Calls, Call(t, q) PROVE IInv'
  <2>1. BindingsInv' /\ KeysInv' /\ ShapeInv'
    BY <1>1 DEF Call, BindingsInv, KeysInv, ShapeInv, Cached
  <2>2. ThreadInv(t)'
    BY <1>1 DEF Call, ThreadInv, ShapeInv
  <2>3. ASSUME NEW u \in Threads, u # t PROVE ThreadInv(u)'
    BY <1>1, <2>3, OthersUnchanged DEF Call, ShapeInv
  <2> QED BY <2>1, <2>2, <2>3
<1>2. ASSUME NEW t \in Threads, RejectGates(t) PROVE IInv'
  <2>1. BindingsInv' /\ KeysInv'
    BY <1>2 DEF RejectGates, BindingsInv, KeysInv
  <2>2. call[t] \in Calls /\ call[t].kind # "recovery_key"
    BY <1>2 DEF RejectGates, ThreadInv
  <2>3. CanonicalGates(call[t].keys) = ColdVerdict(call[t])
    BY <1>2, <2>2 DEF RejectGates, ColdVerdict
  <2> QED BY <1>2, <2>1, <2>2, <2>3, ReturnKeeps DEF RejectGates
<1>3. ASSUME NEW t \in Threads, HitBinding(t) PROVE IInv'
  <2> DEFINE q == call[t]  key == CacheKey(q)  i == Min(Cached(key))
  <2>1. BindingsInv' /\ KeysInv'
    BY <1>3 DEF HitBinding, BindingsInv, KeysInv
  <2>2. q \in Calls /\ q.kind # "recovery_key" /\ IsOk(CanonicalGates(q.keys))
    BY <1>3 DEF HitBinding, ThreadInv
  <2>3. i \in Cached(key)
    <3>1. Cached(key) \subseteq Nat /\ Cached(key) # {}
      BY <1>3 DEF HitBinding, Cached, BindingsInv
    <3>2. \E x \in Cached(key) : \A y \in Cached(key) : x <= y
      <4>1. PICK x \in Cached(key) : TRUE
        BY <3>1
      <4>2. \A y \in Cached(key) : y = x
        BY DEF Cached, BindingsInv
      <4> QED BY <3>1, <4>1, <4>2
    <3> QED BY <3>2 DEF Min
  <2>4. openingBindings[i][1] = key /\ i \in DOMAIN openingBindings
    BY <2>3 DEF Cached
  <2>5. key[1] = q.recipient /\ key[2] = Gates(q)
    BY DEF CacheKey
  <2>6. RosterVerdict(q.recipient, Gates(q)) = Ok(openingBindings[i][2])
    BY <2>4, <2>5 DEF BindingsInv
  <2>7. CanonicalGates(q.keys).value = Gates(q)
    BY <2>2, OkOrErr DEF CanonicalGates, Gates, Ok
  <2>8. Ok(openingBindings[i][2]) = ColdVerdict(q)
    BY <2>2, <2>6, <2>7 DEF ColdVerdict
  <2> QED BY <1>3, <2>1, <2>2, <2>8, ReturnKeeps DEF HitBinding
<1>4. ASSUME NEW t \in Threads, Miss(t) PROVE IInv'
  <2> DEFINE q == call[t]
  <2>1. BindingsInv' /\ KeysInv'
    BY <1>4 DEF Miss, BindingsInv, KeysInv
  <2>2. q \in Calls /\ q.kind \in {"opening_binding", "recovery_key"} /\ Canonical(q)
    BY <1>4, CacheAssumption DEF Miss, ThreadInv, Canonical
  <2>3. CASE q.recipient = Identity
    <3> DEFINE result == Err(<<IF q.kind = "recovery_key" THEN "recovery" ELSE "recipient", "identity">>)
    <3>1. Return(t, result) /\ UNCHANGED call
      BY <1>4, <2>3 DEF Miss
    <3>2. result = ColdVerdict(q)
      <4>1. CASE q.kind = "recovery_key"
        BY <4>1, <2>3 DEF ColdVerdict, RecoveryKeyVerdict, ComponentVerdict
      <4>2. CASE q.kind = "opening_binding"
        BY <4>2, <2>2, <2>3 DEF ColdVerdict, RosterVerdict, Canonical
      <4> QED BY <4>1, <4>2, <2>2
    <3> QED BY <2>1, <2>2, <3>1, <3>2, ReturnKeeps
  <2>4. CASE q.recipient # Identity
    <3>1. /\ pc' = [pc EXCEPT ![t] = "screen"]
          /\ task' = [task EXCEPT ![t] = [c \in TasksOf(q) |-> "start"]]
          /\ UNCHANGED <<call, answer>> /\ pc[t] = "lookup"
      BY <1>4, <2>4 DEF Miss
    <3>2. ShapeInv'
      BY <3>1 DEF ShapeInv
    <3>3. ThreadInv(t)'
      <4>1. call'[t] = q /\ pc'[t] = "screen" /\ answer'[t] = Nothing
        BY <3>1 DEF ShapeInv, ThreadInv
      <4>2. task'[t] = [c \in TasksOf(q) |-> "start"]
        BY <3>1 DEF ShapeInv
      <4>3. TasksInv(t)'
        BY <4>1, <4>2 DEF TasksInv
      <4> QED BY <2>2, <2>4, <4>1, <4>3 DEF ThreadInv
    <3>4. ASSUME NEW u \in Threads, u # t PROVE ThreadInv(u)'
      BY <3>1, <3>4, OthersUnchanged DEF ShapeInv
    <3> QED BY <2>1, <3>2, <3>3, <3>4
  <2> QED BY <2>3, <2>4
<1>5. ASSUME NEW t \in Threads, NEW c \in DOMAIN task[t], NEW verdict, pc[t] = "screen",
             Finish(t, c, verdict), KeysInv',
             verdict \in {"miss", ComponentVerdict(c)}, verdict = "miss" => c[2] # Identity
      PROVE  IInv'
  <2>1. BindingsInv' /\ ShapeInv'
    BY <1>5 DEF Finish, BindingsInv, ShapeInv
  <2>2. /\ pc' = pc /\ call' = call /\ answer' = answer
        /\ task'[t] = [task[t] EXCEPT ![c] = verdict]
    BY <1>5 DEF Finish, ShapeInv
  <2>3. TasksInv(t)'
    <3> DEFINE old == task[t]  new == task'[t]
    <3>1. /\ DOMAIN old = TasksOf(call[t]) /\ old = [d \in DOMAIN old |-> old[d]]
          /\ \A d \in DOMAIN old : /\ old[d] \in {"start", "miss", ComponentVerdict(d)}
                                   /\ old[d] = "miss" => d[2] # Identity
      BY <1>5 DEF ThreadInv, TasksInv
    <3>2. /\ DOMAIN new = DOMAIN old /\ new = [d \in DOMAIN new |-> new[d]]
          /\ new[c] = verdict /\ \A d \in DOMAIN old : d # c => new[d] = old[d]
      BY <1>5, <2>2
    <3>3. \A d \in DOMAIN new : new[d] \in {"start", "miss", ComponentVerdict(d)}
      BY <1>5, <3>1, <3>2
    <3>4. \A d \in DOMAIN new : new[d] = "miss" => d[2] # Identity
      BY <1>5, <3>1, <3>2
    <3>5. TasksOf(call'[t]) = TasksOf(call[t]) /\ DOMAIN task'[t] = TasksOf(call'[t])
      BY <2>2, <3>1, <3>2
    <3> QED BY <3>2, <3>3, <3>4, <3>5 DEF TasksInv
  <2>4. ThreadInv(t)'
    BY <1>5, <2>2, <2>3 DEF ThreadInv
  <2>5. ASSUME NEW u \in Threads, u # t PROVE ThreadInv(u)'
    BY <1>5, <2>2, <2>5, OthersUnchanged DEF ShapeInv, Finish
  <2> QED BY <1>5, <2>1, <2>4, <2>5
<1>6. ASSUME NEW t \in Threads, NEW c \in DOMAIN task[t], BeginTask(t, c) PROVE IInv'
  <2>1. KeysInv'
    BY <1>6 DEF BeginTask, KeysInv
  <2>2. CASE c[2] = Identity
    BY <1>5, <1>6, <2>1, <2>2 DEF BeginTask, ComponentVerdict
  <2>3. CASE c[2] # Identity /\ c[2] \in screenedKeys
    <3>1. ComponentVerdict(c) = "ok"
      BY <2>3 DEF ComponentVerdict, KeysInv
    <3> QED BY <1>5, <1>6, <2>1, <2>3, <3>1 DEF BeginTask
  <2>4. CASE c[2] # Identity /\ c[2] \notin screenedKeys
    BY <1>5, <1>6, <2>1, <2>4 DEF BeginTask
  <2> QED BY <2>2, <2>3, <2>4
<1>7. ASSUME NEW t \in Threads, NEW c \in DOMAIN task[t], EndTask(t, c) PROVE IInv'
  <2>1. KeysInv'
    <3>1. c \in TasksOf(call[t]) /\ call[t] \in Calls
      BY <1>7 DEF EndTask, ThreadInv, TasksInv
    <3>2. call[t].recipient \in Scalars /\ Gates(call[t]) \subseteq Scalars
      BY <3>1, CacheAssumption DEF Gates, ToSet
    <3>3. c[2] \in Scalars
      BY <3>1, <3>2 DEF TasksOf, Components
    <3> QED BY <1>7, <3>3, CacheKeyKeeps DEF EndTask, KeysInv
  <2>2. c[2] # Identity
    BY <1>7 DEF EndTask, ThreadInv, TasksInv
  <2>3. Screen(c[2]) = ComponentVerdict(c) /\ Screen(c[2]) # "miss"
    BY <2>2, ScreenIsVerdict DEF ComponentVerdict
  <2> QED BY <1>5, <1>7, <2>1, <2>3 DEF EndTask
<1>8. ASSUME NEW t \in Threads, Join(t) PROVE IInv'
  <2> DEFINE q == call[t]  result == Joined(q, task[t])
  <2>1. BindingsInv' /\ KeysInv'
    BY <1>8 DEF Join, BindingsInv, KeysInv
  <2>2. q \in Calls /\ Canonical(q) /\ q.recipient # Identity /\ TasksInv(t)
    BY <1>8 DEF Join, ThreadInv
  <2>3. /\ result = ColdVerdict(q)
        /\ q.kind = "opening_binding" => result = RosterVerdict(q.recipient, Gates(q))
    BY <1>8, <2>2, JoinedIsCold DEF Join
  <2>4. CASE q.kind = "opening_binding" /\ IsOk(result)
    <3>1. pc' = [pc EXCEPT ![t] = "store"] /\ UNCHANGED <<call, task, answer>> /\ pc[t] = "screen"
      BY <1>8, <2>4 DEF Join
    <3>2. result = Ok(OpeningBinding(q.recipient, Gates(q)))
      BY <2>4, CompositeKeyOk DEF Joined
    <3>3. RosterVerdict(q.recipient, Gates(q)) = Ok(Entry(q)[2])
      BY <2>3, <2>4, <3>2 DEF Entry
    <3>4. ThreadInv(t)'
      BY <2>2, <2>4, <3>1, <3>3 DEF ThreadInv, ShapeInv
    <3>5. ShapeInv'
      BY <3>1 DEF ShapeInv
    <3>6. ASSUME NEW u \in Threads, u # t PROVE ThreadInv(u)'
      BY <3>1, <3>6, OthersUnchanged DEF ShapeInv
    <3> QED BY <2>1, <3>4, <3>5, <3>6
  <2>5. CASE ~(q.kind = "opening_binding" /\ IsOk(result))
    BY <1>8, <2>1, <2>2, <2>3, <2>5, ReturnKeeps DEF Join
  <2> QED BY <2>4, <2>5
<1>9. ASSUME NEW t \in Threads, Store(t) PROVE IInv'
  <2> DEFINE q == call[t]
  <2>1. /\ q \in Calls /\ q.kind = "opening_binding" /\ Canonical(q)
        /\ RosterVerdict(q.recipient, Gates(q)) = Ok(Entry(q)[2])
    BY <1>9 DEF Store, ThreadInv
  <2>2. KeysInv'
    BY <1>9 DEF Store, KeysInv
  <2>3. BindingsInv'
    <3>1. CASE Cached(CacheKey(q)) = {} /\ Len(openingBindings) < OpeningBindingCacheCap
      BY <1>9, <2>1, <3>1, StoreKeeps DEF Store
    <3>2. CASE ~(Cached(CacheKey(q)) = {} /\ Len(openingBindings) < OpeningBindingCacheCap)
      BY <1>9, <3>2 DEF Store, BindingsInv
    <3> QED BY <3>1, <3>2
  <2>4. CanonicalGates(q.keys).value = Gates(q) /\ IsOk(CanonicalGates(q.keys))
    BY <2>1, OkOrErr DEF CanonicalGates, Gates, Ok, Canonical
  <2>5. Ok(Entry(q)[2]) = ColdVerdict(q)
    BY <2>1, <2>4 DEF ColdVerdict
  <2> QED BY <1>9, <2>1, <2>2, <2>3, <2>5, ReturnKeeps DEF Store
<1>10. CASE UNCHANGED vars
  BY <1>10 DEF vars, BindingsInv, KeysInv, ShapeInv, ThreadInv, TasksInv
<1> QED BY <1>1, <1>2, <1>3, <1>4, <1>6, <1>7, <1>8, <1>9, <1>10 DEF Next, Step

\* The inductive invariant holds in every reachable state; the properties
\* below follow from it.
THEOREM Invariance == Spec => []IInv
<1>1. Init => IInv
  BY InitIInv
<1>2. IInv /\ [Next]_vars => IInv'
  BY NextIInv
<1> QED BY <1>1, <1>2, PTL DEF Spec

----------------------------------------------------------------------------
(* What a reader of the code relies on.                                    *)

\* The caches and the threads' state keep their types.
THEOREM TypeCorrect == Spec => []TypeOK
<1>1. IInv => TypeOK
  BY DEF IInv, BindingsInv, ShapeInv, KeysInv, TypeOK
<1> QED BY <1>1, Invariance, PTL

\* No call's answer depends on the caches or on the other threads
\* (opening_binding, reject_degenerate_recovery_key).
THEOREM AnswersCold == Spec => []AnswersAreCold
<1>1. IInv => AnswersAreCold
  BY DEF IInv, ThreadInv, AnswersAreCold
<1> QED BY <1>1, Invariance, PTL

\* Nothing unsound, duplicated or beyond the capacity is ever cached.
THEOREM CachesAreSound == Spec => []CachesSound
<1>1. IInv => CachesSound
  BY DEF IInv, BindingsInv, KeysInv, CachesSound
<1> QED BY <1>1, Invariance, PTL

\* No entry is replaced or evicted.
THEOREM EntriesKept == Spec => EntriesAreKept
<1>1. ASSUME IInv, [Next]_vars
      PROVE  [IsPrefix(openingBindings, openingBindings') /\ screenedKeys \subseteq screenedKeys']_vars
  <2> DEFINE S == {Entry(q) : q \in Calls}
  <2>1. openingBindings \in Seq(S)
    BY <1>1 DEF IInv, BindingsInv
  <2>2. \A q \in Calls : IsPrefix(openingBindings, Append(openingBindings, Entry(q)))
    BY <2>1 DEF IsPrefix
  <2>3. IsPrefix(openingBindings, openingBindings)
    BY <2>1 DEF IsPrefix
  <2>4. ASSUME NEW t \in Threads, Store(t)
        PROVE  IsPrefix(openingBindings, openingBindings') /\ screenedKeys \subseteq screenedKeys'
    <3>1. call[t] \in Calls
      BY <1>1, <2>4 DEF Store, IInv, ThreadInv
    <3> QED BY <2>2, <2>3, <2>4, <3>1 DEF Store
  <2>5. ASSUME NEW t \in Threads, Step(t), ~Store(t)
        PROVE  IsPrefix(openingBindings, openingBindings') /\ screenedKeys \subseteq screenedKeys'
    BY <2>3, <2>5 DEF Step, RejectGates, HitBinding, Miss, BeginTask, EndTask, Finish, Join
  <2>6. ASSUME NEW t \in Threads, NEW q \in Calls, Call(t, q)
        PROVE  IsPrefix(openingBindings, openingBindings') /\ screenedKeys \subseteq screenedKeys'
    BY <2>3, <2>6 DEF Call
  <2> QED BY <1>1, <2>4, <2>5, <2>6 DEF Next
<1> QED BY <1>1, Invariance, PTL DEF Spec, EntriesAreKept

\* Without their liveness: the caches implement cold screening.
THEOREM RefinesCold == Spec => Cold!Safety
<1> DEFINE asked == [t \in Threads |-> IF pc[t] = "idle" THEN Nothing ELSE call[t]]
<1>1. Init => Cold!Init
  BY DEF Init, Cold!Init
<1>2. ASSUME IInv, [Next]_vars PROVE [Cold!Next]_(Cold!vars)
  <2> USE <1>2 DEF IInv, ShapeInv
  <2>1. ASSUME NEW t \in Threads, NEW q \in Calls, Call(t, q) PROVE Cold!Next
    <3>1. asked[t] = Nothing /\ asked' = [asked EXCEPT ![t] = q]
      BY <2>1 DEF Call
    <3> QED BY <2>1, <3>1 DEF Call, Cold!Next, Cold!Ask
  <2>2. ASSUME NEW t \in Threads, NEW result, Return(t, result), UNCHANGED call, IInv',
               pc[t] # "idle"
        PROVE  Cold!Next
    <3>1. call[t] \in Calls /\ call[t] # Nothing
      BY <2>2, CacheAssumption DEF ThreadInv
    <3>2. pc' = [pc EXCEPT ![t] = "idle"] /\ call' = call /\ answer' = [answer EXCEPT ![t] = result]
      BY <2>2 DEF Return
    <3>3. asked[t] = call[t] /\ asked' = [asked EXCEPT ![t] = Nothing]
      BY <2>2, <3>2
    <3>4. ThreadInv(t)'
      BY <2>2
    <3>5. answer'[t] = ColdVerdict(call[t])
      BY <3>1, <3>2, <3>4 DEF ThreadInv
    <3>6. answer' = [answer EXCEPT ![t] = ColdVerdict(call[t])]
      BY <3>2, <3>5
    <3> QED BY <3>1, <3>3, <3>6 DEF Cold!Next, Cold!Reply
  <2>3. IInv'
    BY <1>2, NextIInv
  <2>4. ASSUME NEW t \in Threads, Step(t), pc'[t] = "idle" PROVE Cold!Next
    BY <2>2, <2>3, <2>4 DEF Step, RejectGates, HitBinding, Miss, BeginTask, EndTask, Finish, Join, Store
  <2>5. ASSUME NEW t \in Threads, Step(t), pc'[t] # "idle" PROVE UNCHANGED Cold!vars
    BY <2>3, <2>5
       DEF Step, RejectGates, HitBinding, Miss, BeginTask, EndTask, Finish, Join, Store, Return, Cold!vars
  <2> QED BY <1>2, <2>1, <2>4, <2>5 DEF Next, vars, Cold!vars
<1> QED BY <1>1, <1>2, Invariance, PTL DEF Spec, Cold!Safety
=============================================================================
