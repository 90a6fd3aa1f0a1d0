--------------------------- MODULE ContextBinding ---------------------------
(***************************************************************************)
(* How a caller's Context reaches a seal proof and a token (capsule.rs,    *)
(* stripped.rs, case.rs).  A Context is a live object of the caller: what  *)
(* binding_bytes returns may change from one read to the next.  Capsule    *)
(* and Case verify, and StrippedCapsule and StrippedCase bind, read it in  *)
(* different ways.                                                         *)
(***************************************************************************)
EXTENDS Integers, FiniteSets

CONSTANTS
  Payloads,          \* what a Context can return: records [domain, binding, id]
                     \* of two lengths and an identity
  MaxDomain,         \* MAX_CONTEXT_DOMAIN_BYTES
  MaxBinding,        \* MAX_CONTEXT_BINDING_BYTES
  SealOverhead,      \* what SealContext frames around the caller's binding
  Absent

\* What the parameters satisfy.
ASSUME ContextAssumption ==
  /\ \A c \in Payloads : {c.domain, c.binding} \subseteq Nat
  /\ Absent \notin Payloads
  /\ {MaxDomain, MaxBinding, SealOverhead} \subseteq Nat

VARIABLES
  live,       \* what the opener's Context returns now
  sealedIn,   \* the sealer's context, that the capsule's proof commits to
  call,       \* the opener's call under way: "none", "verify" or "bind"
  read,       \* the context it has read
  token       \* the last token a call returned: [from, ctx]

contextVars == <<live, sealedIn, call, read, token>>

\* validate_context_limits
WithinLimits(domain, binding) == domain \in 1 .. MaxDomain /\ binding <= MaxBinding

\* The seal proof takes the wrapped context: SealContext::binding_bytes.
ProofTakes(ctx) == WithinLimits(ctx.domain, ctx.binding + SealOverhead)

\* FrozenContext::capture: the domain and one read of the binding.
Capture == live

ContextToken(from, ctx) == [from |-> from, ctx |-> ctx]

----------------------------------------------------------------------------
ContextInit ==
  /\ live \in Payloads
  /\ sealedIn = Absent
  /\ call = "none" /\ read = Absent
  /\ token = Absent

\* The opener's object changes under its calls; its domain is a constant.
Change(ctx) ==
  /\ ctx.domain = live.domain
  /\ live' = ctx
  /\ UNCHANGED <<sealedIn, call, read, token>>

\* Capsule::seal reads the sealer's binding once.
Seal(ctx) ==
  /\ sealedIn = Absent
  /\ ProofTakes(ctx)
  /\ sealedIn' = ctx
  /\ UNCHANGED <<live, call, read, token>>

Begin(what, ctx) ==
  /\ call = "none" /\ sealedIn # Absent
  /\ call' = what
  /\ read' = ctx
  /\ UNCHANGED <<live, sealedIn, token>>

End(what) ==
  /\ call = what
  /\ call' = "none"
  /\ read' = Absent
  /\ UNCHANGED <<live, sealedIn>>

\* verify captures first; the proof is checked under the copy, and the token
\* gets the copy.
BeginVerify == Begin("verify", Capture)
ProvenUnder(ctx) == ProofTakes(ctx) /\ ctx = sealedIn
\* Slip: the token reads the caller's context again.
EndVerifyRereading ==
  /\ End("verify")
  /\ token' = IF ProvenUnder(read) THEN ContextToken("verify", Capture) ELSE token

EndVerify ==
  /\ End("verify")
  /\ token' = IF ProvenUnder(read) THEN ContextToken("verify", read) ELSE token

\* bind checks the limits of what it reads and, once the roster is screened,
\* captures: a second read.
BeginBind == WithinLimits(live.domain, live.binding) /\ Begin("bind", live)
EndBind ==
  /\ End("bind")
  /\ token' = ContextToken("bind", Capture)

Calls == BeginVerify \/ EndVerify \/ BeginBind \/ EndBind

ContextNext == Calls \/ \E ctx \in Payloads : Change(ctx) \/ Seal(ctx)

ContextSpec == ContextInit /\ [][ContextNext]_contextVars

\* A Context that keeps its contract: its payload is deterministic.
SteadyNext == Calls \/ \E ctx \in Payloads : Seal(ctx)
SteadySpec == ContextInit /\ [][SteadyNext]_contextVars

----------------------------------------------------------------------------
\* A token of verify carries the very context its proof was checked under,
\* however the caller's object changes meanwhile (capsule.rs verify, "Freeze
\* the caller's context ONCE").
VerifiedUnderItsProof == token # Absent /\ token.from = "verify" => token.ctx = sealedIn

\* "Context limits pi's transcript would enforce (nonempty/<=256 B domain,
\* <=64 KiB binding)" (stripped.rs, bind): the context of a bound token is one
\* that a seal proof can be made and verified under.
BoundContextIsProvable == token # Absent => ProofTakes(token.ctx)
=============================================================================
