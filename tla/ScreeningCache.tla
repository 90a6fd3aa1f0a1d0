---------------------------- MODULE ScreeningCache ----------------------------
(***************************************************************************)
(* The screening of rosters and keys (composite.rs, assembly.rs): the      *)
(* verdict on a roster as a process whose caches are empty computes it,    *)
(* and the two process-wide caches, of opening bindings and of screened    *)
(* keys.  Threads call opening_binding and reject_degenerate_recovery_key  *)
(* concurrently; a miss is screened outside both locks, one task per       *)
(* component, and stored afterwards.                                       *)
(*                                                                         *)
(* A component of a roster is a pair <<role, key>>; keys are ordered as    *)
(* their encodings are.                                                    *)
(***************************************************************************)
EXTENDS CapsuleAlgebra

CONSTANTS
  Enumerable,            \* keys k*G with a small or boundary |k|
  NumsMultiples,         \* keys k*H with a small |k|
  ComponentRelation(_, _),  \* (recipient, gates) -> "none" or the relation found
  MaxAccessKeys          \* MAX_ACCESS_KEYS

ASSUME RosterAssumption == MaxAccessKeys \in Nat

Ok(value) == [value |-> value]
Err(what) == [error |-> what]
IsOk(result) == "value" \in DOMAIN result

\* canonical_gates: the set of keys, unless the list is too long or repeats one.
CanonicalGates(keys) ==
  IF Len(keys) > MaxAccessKeys THEN Err(<<"roster", "too many access keys">>)
  ELSE IF Cardinality(ToSet(keys)) # Len(keys) THEN Err(<<"roster", "duplicate access key">>)
  ELSE Ok(ToSet(keys))

\* The screen of one key, after the identity check and with nothing cached.
Screen(key) ==
  IF key \in Enumerable THEN "publicly enumerable"
  ELSE IF key \in NumsMultiples THEN "public NUMS-generator multiple"
  ELSE "ok"

ComponentVerdict(component) == IF component[2] = Identity THEN "identity" ELSE Screen(component[2])

Components(recipient, gates) == {<<"recipient", recipient>>} \cup ({"access"} \X gates)

\* Component order: the recipient, then the gates by encoding.
Precedes(c, d) == c[1] # "access" \/ (d[1] = "access" /\ c[2] <= d[2])

Failing(verdict) == {c \in DOMAIN verdict : verdict[c] # "ok"}
FirstError(verdict) ==
  LET c == CHOOSE c \in Failing(verdict) : \A d \in Failing(verdict) : Precedes(c, d)
  IN  Err(<<c[1], verdict[c]>>)

\* composite_key once every component has its verdict.
CompositeKey(recipient, gates, verdict) ==
  IF Failing(verdict) # {} THEN FirstError(verdict)
  ELSE IF gates # {} /\ AccessSum(gates) = Identity
    THEN Err(<<"roster", "access keys sum to the identity">>)
  ELSE IF gates # {} /\ ComponentRelation(recipient, gates) # "none"
    THEN Err(<<"roster", ComponentRelation(recipient, gates)>>)
  ELSE IF gates # {} /\ WeightedAccessSum(recipient, gates) = Identity
    THEN Err(<<"roster", "weighted access keys sum to the identity">>)
  ELSE Ok(OpeningBinding(recipient, gates))

\* opening_binding for canonical gates.
RosterVerdict(recipient, gates) ==
  IF recipient = Identity THEN Err(<<"recipient", "identity">>)
  ELSE CompositeKey(recipient, gates,
                    [c \in Components(recipient, gates) |-> ComponentVerdict(c)])

----------------------------------------------------------------------------
(* The two public calls.                                                   *)

OpeningBindingCall(recipient, keys) ==
  [kind |-> "opening_binding", recipient |-> recipient, keys |-> keys]
RecoveryKeyCall(key) == [kind |-> "recovery_key", recipient |-> key, keys |-> <<>>]

\* reject_degenerate_recovery_key
RecoveryKeyVerdict(key) ==
  LET verdict == ComponentVerdict(<<"recovery", key>>)
  IN  IF verdict = "ok" THEN Ok("screened") ELSE Err(<<"recovery", verdict>>)

ColdVerdict(q) ==
  IF q.kind = "recovery_key" THEN RecoveryKeyVerdict(q.recipient)
  ELSE LET canonical == CanonicalGates(q.keys)
       IN  IF IsOk(canonical) THEN RosterVerdict(q.recipient, canonical.value) ELSE canonical

----------------------------------------------------------------------------
(* The caches.                                                             *)

CONSTANTS
  Threads,
  Calls,                    \* the calls threads make
  OpeningBindingCacheCap,   \* OPENING_BINDING_CACHE_CAP
  PublicKeyCacheCap,        \* PUBLIC_KEY_SCREENING_CACHE_CAP
  Nothing                   \* no call, no answer

ASSUME CacheAssumption ==
  /\ Calls \subseteq [kind : {"opening_binding", "recovery_key"}, recipient : Scalars, keys : Seq(Scalars)]
  /\ Nothing \notin Calls
  /\ {OpeningBindingCacheCap, PublicKeyCacheCap} \subseteq Nat

VARIABLES
  openingBindings,  \* the opening binding cache, a list of <<key, binding>>
  screenedKeys,     \* the public key screening cache, a set of keys
  pc,               \* where each thread is: "idle", "lookup", "screen" or "store"
  call,             \* the call each thread is in
  task,             \* the state of its component tasks: "start", "miss" or a verdict
  answer            \* the last answer each thread got

vars == <<openingBindings, screenedKeys, pc, call, task, answer>>

----------------------------------------------------------------------------
\* What a call names: the digest that is its key in the binding cache.
Gates(q) == ToSet(q.keys)
CacheKeyByGates(q) == <<0, Gates(q)>>    \* slip: the recipient is not in the digest
CacheKey(q) == <<q.recipient, Gates(q)>>

Entry(q) == <<CacheKey(q), OpeningBinding(q.recipient, Gates(q))>>
Cached(key) == {i \in DOMAIN openingBindings : openingBindings[i][1] = key}

TasksOf(q) ==
  IF q.kind = "recovery_key" THEN {<<"recovery", q.recipient>>}
  ELSE Components(q.recipient, Gates(q))

\* What a call returns once its tasks are done.
Joined(q, verdict) ==
  IF q.kind = "opening_binding" THEN CompositeKey(q.recipient, Gates(q), verdict)
  ELSE IF Failing(verdict) = {} THEN Ok("screened") ELSE FirstError(verdict)

Return(t, result) ==
  /\ pc' = [pc EXCEPT ![t] = "idle"]
  /\ answer' = [answer EXCEPT ![t] = result]
  /\ task' = [task EXCEPT ![t] = <<>>]

----------------------------------------------------------------------------
Init ==
  /\ openingBindings = <<>>
  /\ screenedKeys = {}
  /\ pc = [t \in Threads |-> "idle"]
  /\ call = [t \in Threads |-> Nothing]
  /\ task = [t \in Threads |-> <<>>]
  /\ answer = [t \in Threads |-> Nothing]

Call(t, q) ==
  /\ pc[t] = "idle"
  /\ pc' = [pc EXCEPT ![t] = "lookup"]
  /\ call' = [call EXCEPT ![t] = q]
  /\ answer' = [answer EXCEPT ![t] = Nothing]
  /\ UNCHANGED <<openingBindings, screenedKeys, task>>

\* A canonical error returns before the cache is consulted.
RejectGates(t) ==
  /\ pc[t] = "lookup"
  /\ call[t].kind = "opening_binding"
  /\ ~IsOk(CanonicalGates(call[t].keys))
  /\ Return(t, CanonicalGates(call[t].keys))
  /\ UNCHANGED <<openingBindings, screenedKeys, call>>

\* cached_opening_binding, under the lock: the first entry of that key.
HitBinding(t) ==
  /\ pc[t] = "lookup"
  /\ call[t].kind = "opening_binding"
  /\ IsOk(CanonicalGates(call[t].keys))
  /\ Cached(CacheKey(call[t])) # {}
  /\ Return(t, Ok(openingBindings[Min(Cached(CacheKey(call[t])))][2]))
  /\ UNCHANGED <<openingBindings, screenedKeys, call>>

\* A miss, or a recovery key: reject the identity or start the tasks.
Miss(t) ==
  LET q == call[t]
  IN  /\ pc[t] = "lookup"
      /\ q.kind = "opening_binding" => IsOk(CanonicalGates(q.keys)) /\ Cached(CacheKey(q)) = {}
      /\ IF q.recipient = Identity
           THEN Return(t, Err(<<IF q.kind = "recovery_key" THEN "recovery" ELSE "recipient",
                                "identity">>))
           ELSE /\ pc' = [pc EXCEPT ![t] = "screen"]
                /\ task' = [task EXCEPT ![t] = [c \in TasksOf(q) |-> "start"]]
                /\ UNCHANGED answer
      /\ UNCHANGED <<openingBindings, screenedKeys, call>>

Finish(t, c, verdict) ==
  /\ task' = [task EXCEPT ![t][c] = verdict]
  /\ UNCHANGED <<openingBindings, pc, call, answer>>

\* A task begins: the identity is rejected, a cached key is accepted.
BeginTask(t, c) ==
  /\ pc[t] = "screen"
  /\ task[t][c] = "start"
  /\ Finish(t, c, IF c[2] = Identity THEN "identity"
                  ELSE IF c[2] \in screenedKeys THEN "ok" ELSE "miss")
  /\ UNCHANGED screenedKeys

\* Slip: the result of a rejected key is cached too.
EndTaskCachingAll(t, c) ==
  /\ pc[t] = "screen"
  /\ task[t][c] = "miss"
  /\ Finish(t, c, Screen(c[2]))
  /\ screenedKeys' = IF Cardinality(screenedKeys) < PublicKeyCacheCap
                       THEN screenedKeys \cup {c[2]} ELSE screenedKeys

\* Slip: a full cache is cleared to make room.
EndTaskEvicting(t, c) ==
  /\ pc[t] = "screen"
  /\ task[t][c] = "miss"
  /\ Finish(t, c, Screen(c[2]))
  /\ screenedKeys' = IF Screen(c[2]) # "ok" THEN screenedKeys
                     ELSE IF Cardinality(screenedKeys) < PublicKeyCacheCap
                       THEN screenedKeys \cup {c[2]} ELSE {c[2]}

\* It ends: a key that passes the screen is cached while there is room.
EndTask(t, c) ==
  /\ pc[t] = "screen"
  /\ task[t][c] = "miss"
  /\ Finish(t, c, Screen(c[2]))
  /\ screenedKeys' = IF Screen(c[2]) = "ok" /\ Cardinality(screenedKeys) < PublicKeyCacheCap
                       THEN screenedKeys \cup {c[2]} ELSE screenedKeys

\* All tasks are joined, in component order, and the roster is checked as a
\* whole.  Only an opening binding is stored.
Join(t) ==
  LET result == Joined(call[t], task[t])
  IN  /\ pc[t] = "screen"
      /\ \A c \in DOMAIN task[t] : task[t][c] \notin {"start", "miss"}
      /\ IF call[t].kind = "opening_binding" /\ IsOk(result)
           THEN pc' = [pc EXCEPT ![t] = "store"] /\ UNCHANGED <<task, answer>>
           ELSE Return(t, result)
      /\ UNCHANGED <<openingBindings, screenedKeys, call>>

\* Slip: the lookup is not repeated under the second lock.
StoreUnchecked(t) ==
  LET q == call[t]
  IN  /\ pc[t] = "store"
      /\ openingBindings' = IF Len(openingBindings) < OpeningBindingCacheCap
                              THEN Append(openingBindings, Entry(q)) ELSE openingBindings
      /\ Return(t, Ok(Entry(q)[2]))
      /\ UNCHANGED <<screenedKeys, call>>

\* Slip: when the cache is full the thread goes back to look the roster up.
StoreRetrying(t) ==
  \/ Len(openingBindings) < OpeningBindingCacheCap /\ StoreUnchecked(t)
  \/ /\ pc[t] = "store"
     /\ Len(openingBindings) >= OpeningBindingCacheCap
     /\ pc' = [pc EXCEPT ![t] = "lookup"]
     /\ task' = [task EXCEPT ![t] = <<>>]
     /\ UNCHANGED <<openingBindings, screenedKeys, call, answer>>

\* cache_opening_binding, under the lock, and return.
Store(t) ==
  LET q == call[t]
  IN  /\ pc[t] = "store"
      /\ openingBindings' =
           IF Cached(CacheKey(q)) = {} /\ Len(openingBindings) < OpeningBindingCacheCap
             THEN Append(openingBindings, Entry(q)) ELSE openingBindings
      /\ Return(t, Ok(Entry(q)[2]))
      /\ UNCHANGED <<screenedKeys, call>>

Step(t) ==
  \/ RejectGates(t) \/ HitBinding(t) \/ Miss(t)
  \/ \E c \in DOMAIN task[t] : BeginTask(t, c) \/ EndTask(t, c)
  \/ Join(t) \/ Store(t)

Next == \E t \in Threads : Step(t) \/ \E q \in Calls : Call(t, q)

\* A thread in a call is scheduled; nothing obliges a thread to call.
Spec == Init /\ [][Next]_vars /\ \A t \in Threads : WF_vars(Step(t))

----------------------------------------------------------------------------
TypeOK ==
  /\ openingBindings \in Seq({Entry(q) : q \in Calls})
  /\ screenedKeys \subseteq Scalars
  /\ pc \in [Threads -> {"idle", "lookup", "screen", "store"}]
  /\ call \in [Threads -> Calls \cup {Nothing}]
  /\ DOMAIN task = Threads /\ DOMAIN answer = Threads

\* Caches change the cost of a call and never its answer: it is the verdict
\* of an empty process, error message included, in every interleaving
\* (opening_binding, reject_degenerate_recovery_key).
AnswersAreCold ==
  \A t \in Threads : answer[t] # Nothing => answer[t] = ColdVerdict(call[t])

\* Nothing is cached that a cold screening would not accept, under the name
\* of the roster it was computed for; threads that raced on one roster left
\* one entry; neither cache outgrows its capacity.
CachesSound ==
  /\ \A i \in DOMAIN openingBindings :
       LET key == openingBindings[i][1]
       IN  RosterVerdict(key[1], key[2]) = Ok(openingBindings[i][2])
  /\ \A i, j \in DOMAIN openingBindings : openingBindings[i][1] = openingBindings[j][1] => i = j
  /\ Len(openingBindings) <= OpeningBindingCacheCap
  /\ \A key \in screenedKeys : Screen(key) = "ok"
  /\ Cardinality(screenedKeys) <= PublicKeyCacheCap

\* Entries are never replaced nor evicted.
EntriesAreKept ==
  [][IsPrefix(openingBindings, openingBindings') /\ screenedKeys \subseteq screenedKeys']_vars

\* The caches implement cold screening: every call returns, whatever the
\* other threads do, with the verdict of its argument.
Cold == INSTANCE ColdScreening WITH
  Verdict <- ColdVerdict,
  asked <- [t \in Threads |-> IF pc[t] = "idle" THEN Nothing ELSE call[t]]
ImplementsColdScreening == Cold!Spec
=============================================================================
