------------------------------- MODULE Parties -------------------------------
(***************************************************************************)
(* The parties to an opening and what passes between them: a roster of     *)
(* gates, their share holders, the recipient, the contributions made, the  *)
(* list of partials the recipient has, and what unseal returned.  What is  *)
(* opened, a capsule or a case, is for the modules that extend this one.   *)
(***************************************************************************)
EXTENDS Opening

CONSTANTS
  Recipient,        \* the recipient's key
  Gates,            \* the roster's access keys
  Holders,          \* share holders
  GateOf,           \* GateOf[h]: the gate h holds a share of
  ShareOf,          \* ShareOf[h]: its additive share of that gate's scalar
  TriedSecrets,     \* the keys unseal may be called with
  MaxInbox,         \* bound on the length of the list given to unseal
  MaxCalls          \* bound on the contribute calls of a behaviour

Binding == OpeningBinding(Recipient, Gates)

\* The share holders of a gate.
HoldersOf(gate) == {h \in Holders : GateOf[h] = gate}

\* What a dealt roster satisfies: the shares of a gate's holders sum to it,
\* and no other multiples of shares that a list has room for do.
RosterDealt ==
  /\ Recipient \in Scalars /\ RecipientWeight(Recipient, Gates) \in Int
  /\ IsFiniteSet(Gates) /\ Gates \subseteq Scalars
  /\ \A gate \in Gates : GateWeight(Recipient, Gates, gate) \in Int
  /\ IsFiniteSet(Holders)
  /\ GateOf \in [Holders -> Gates] /\ ShareOf \in [Holders -> Scalars]
  /\ \A g, h \in Holders : ShareOf[g] = ShareOf[h] => g = h
  /\ \A gate \in Gates : SumOver(LAMBDA h : ShareOf[h], HoldersOf(gate)) = gate
  /\ \A gate \in Gates, count \in [Holders -> 0 .. MaxInbox] :
       SumOver(LAMBDA h : count[h] * ShareOf[h], Holders) = gate =>
         \A h \in Holders : count[h] = IF GateOf[h] = gate THEN 1 ELSE 0

VARIABLES
  made,       \* the contribute calls that returned Ok
  inbox,      \* the partials that reached the recipient, in order of arrival
  released    \* the <<key, scalar>> pairs of the unseal calls that returned Ok

vars == <<made, inbox, released>>

----------------------------------------------------------------------------
Init == made = {} /\ inbox = <<>> /\ released = {}

\* A contribute call that returns its partials.
Make(c) ==
  /\ Cardinality(made) < MaxCalls
  /\ made' = made \cup {c}
  /\ UNCHANGED <<inbox, released>>

Arrive(p) ==
  /\ Len(inbox) < MaxInbox
  /\ inbox' = Append(inbox, p)
  /\ UNCHANGED <<made, released>>

\* unseal.  A failed call returns an error and changes nothing.
Return(secret, m) ==
  /\ m # Failed
  /\ released' = released \cup {<<secret, m>>}
  /\ UNCHANGED <<made, inbox>>

----------------------------------------------------------------------------
\* Of the contributions in a set, every share holder has made exactly one, to
\* its own gate.
EveryHolderOnce(calls) ==
  /\ \A c \in calls : c.gate = GateOf[c.holder]
  /\ \A h \in Holders : \E c \in calls : c.holder = h
  /\ \A c, d \in calls : c.holder = d.holder => c = d
=============================================================================
