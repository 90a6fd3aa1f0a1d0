-------------------------- MODULE MCCapsuleOpening --------------------------
(***************************************************************************)
(* A capsule with two gates, one of them shared by two holders, and a      *)
(* second capsule for the same roster.                                     *)
(***************************************************************************)
EXTENDS CapsuleOpening

MCCoefficient(recipient, gates, component) ==
  1 + ((recipient * 31 + component * 17 + Cardinality(gates)) % (Order - 1))

MCGates == {2503, 4801}
MCHolders == {"a1", "a2", "b"}
MCGateOf == [a1 |-> 2503, a2 |-> 2503, b |-> 4801]
MCShareOf == [a1 |-> 1999, a2 |-> 504, b |-> 4801]
MCCapsules == {"target", "other"}
MCSecretOf == [target |-> 7321, other |-> 7321]
MCNoncesOf == [target |-> <<911, 3571>>, other |-> <<6007, 83>>]

Call(holder, gate, capsule, ctx, entropy) ==
  [holder |-> holder, gate |-> gate, capsule |-> capsule, ctx |-> ctx, entropy |-> entropy]

\* Every holder's own contribution, a rerun of one, one for another context,
\* one for another capsule on repeated entropy, a share given to the wrong
\* gate and one to a gate that is not on the roster.
MCContributions ==
  {Call(h, MCGateOf[h], "target", "ctx", 0) : h \in MCHolders}
    \cup { Call("b", 4801, "target", "ctx", 1),
           Call("b", 4801, "target", "stale", 0),
           Call("b", 4801, "other", "ctx", 0),
           Call("a2", 4801, "target", "ctx", 0),
           Call("a1", 1999, "target", "ctx", 0) }

ASSUME DealingAssumption /\ OtherKeysMiss
=============================================================================
