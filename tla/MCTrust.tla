------------------------------- MODULE MCTrust -------------------------------
(***************************************************************************)
(* What an attested recovery rests on, for TLC: attestations, the          *)
(* signatures they consist of, and the contexts they are made for.  A      *)
(* behaviour is about one of them, its subject; while it is about another, *)
(* signatures and attestations wait in their initial states and no context *)
(* is read.                                                                *)
(***************************************************************************)
EXTENDS AttestedRecovery, Schnorr, ContextBinding

VARIABLE subject

----------------------------------------------------------------------------
(* AttestedRecovery: two capsules sealed for one roster and context and a  *)
(* third for another; a case of the first two.  Storage may return the     *)
(* case reordered, one piece as a capsule or as a case, or cores with a    *)
(* mask or a ciphertext replaced.                                          *)

MCCoefficient(recipient, gates, component) ==
  1 + ((recipient * 31 + component * 17 + Cardinality(gates)) % (Order - 1))

One == [recipient |-> 8209, gates |-> {4801}]
Two == [recipient |-> 8209, gates |-> {4801, 2503}]
MCRosters == {One, Two}
MCCapsules == {"a", "b", "c"}
MCSecretOf == [a |-> 7321, b |-> 1555, c |-> 7321]
MCNoncesOf == [a |-> <<9311, 35711>>, b |-> <<16007, 28831>>, c |-> <<22013, 31337>>]
MCRosterOf == [a |-> One, b |-> One, c |-> Two]
MCCtxOf == [a |-> "ctx", b |-> "ctx", c |-> "ctx"]
MCBundles == {<<"a", "b">>}

Stored(kind, cores) == [kind |-> kind, cores |-> cores]
MCMedia ==
  { Stored("capsule", <<CoreOf("a")>>), Stored("case", <<CoreOf("b"), CoreOf("a")>>),
    Stored("case", <<CoreOf("a")>>), Stored("capsule", <<[CoreOf("a") EXCEPT !.e[1] = 12347]>>),
    Stored("case", <<CoreOf("a"), [CoreOf("b") EXCEPT !.d[2] = Plus(@, 1)]>>) }

----------------------------------------------------------------------------
(* Schnorr over the group of order 13.  Integers reach twice the order, so *)
(* every scalar also occurs unreduced, and every x of the curve with x's   *)
(* that are not.                                                           *)

EvenPoint(p) == (p <= 6) = (p \in {1, 4, 5, 8, 9, 12})
SmallChallenge(r, x, message) == (5 * r + 3 * x * x + 7 * message + 1) % 13

MCNumbers == 0 .. 26

----------------------------------------------------------------------------
(* ContextBinding: contexts on both sides of every limit, and two that     *)
(* differ only in what they say.                                           *)

Ctx(domain, binding, id) == [domain |-> domain, binding |-> binding, id |-> id]

MCPayloads ==
  { Ctx(1, 0, 1), Ctx(2, 3, 1), Ctx(2, 3, 2),   \* provable
    Ctx(0, 3, 1), Ctx(3, 3, 1),                 \* bad domains
    Ctx(2, 5, 1),                               \* too large once wrapped
    Ctx(2, 6, 1) }                              \* too large

----------------------------------------------------------------------------
Is(name) == subject = name

NoContext == live = Absent /\ sealedIn = Absent /\ call = "none" /\ read = Absent /\ token = Absent

MCInit ==
  /\ Init /\ SchnorrInit
  /\ \/ Is("attestations") /\ NoContext
     \/ Is("signatures") /\ NoContext
     \/ Is("contexts") /\ ContextInit

MCNext ==
  /\ UNCHANGED subject
  /\ \/ Is("attestations") /\ Next /\ UNCHANGED <<schnorrVars, contextVars>>
     \/ Is("signatures") /\ SchnorrNext /\ UNCHANGED <<vars, contextVars>>
     \/ Is("contexts") /\ ContextNext /\ UNCHANGED <<vars, schnorrVars>>

MCSpec == MCInit /\ [][MCNext]_<<subject, vars, schnorrVars, contextVars>>

\* The caller's Context keeps its contract: its payload is deterministic.
MCSteadyInit == MCInit /\ Is("contexts")
MCSteadyNext == SteadyNext /\ UNCHANGED <<subject, vars, schnorrVars>>
MCSteadySpec == MCSteadyInit /\ [][MCSteadyNext]_<<subject, vars, schnorrVars, contextVars>>

ASSUME SealedAssumption
=============================================================================
