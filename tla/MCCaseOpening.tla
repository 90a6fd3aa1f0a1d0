---------------------------- MODULE MCCaseOpening ----------------------------
(***************************************************************************)
(* A case of two pieces behind two gates held by one holder each.  The     *)
(* limbs of the two secrets are chosen so that their sums exceed a limb.   *)
(***************************************************************************)
EXTENDS CaseOpening

MCCoefficient(recipient, gates, component) ==
  1 + ((recipient * 31 + component * 17 + Cardinality(gates)) % (Order - 1))

MCGates == {2503, 4801}
MCHolders == {"a", "b"}
MCGateOf == [a |-> 2503, b |-> 4801]
MCShareOf == [a |-> 2503, b |-> 4801]
MCPieceOf == <<40443, 25343>>
MCPieceNonces == <<<<44990, 14196>>, <<27664, 1904>>>>

Call(holder, gate, ctx, entropy) ==
  [holder |-> holder, gate |-> gate, ctx |-> ctx, entropy |-> entropy]

\* Every holder's own contribution, a rerun of one, one for another context
\* and a share given to the wrong gate.
MCCaseCalls ==
  { Call("a", 2503, "ctx", 0), Call("b", 4801, "ctx", 0), Call("b", 4801, "ctx", 1),
    Call("a", 2503, "stale", 0), Call("a", 4801, "ctx", 0) }

ASSUME CaseAssumption /\ OtherKeysMissCase
=============================================================================
