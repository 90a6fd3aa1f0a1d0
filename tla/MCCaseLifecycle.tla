--------------------------- MODULE MCCaseLifecycle ---------------------------
(***************************************************************************)
(* Pieces that pass every screen, pieces related within themselves, pieces *)
(* related to another piece, and two whose sum alone is related.           *)
(***************************************************************************)
EXTENDS CaseLifecycle

MCCoefficient(recipient, gates, component) ==
  1 + ((recipient * 31 + component * 17 + Cardinality(gates)) % (Order - 1))

Plain == {<<40443, <<5378, 15579>>>>, <<25343, <<14337, 2326>>>>}
RelatedInSum == <<311, <<794, 24855>>>>            \* only when added to the first plain one
RelatedAcross == <<4242, <<400, 30847>>>>          \* 3 * 15579 = 400
RelatedWithin == <<777, <<40222, 27992>>>>         \* 3 * 40222 = 27992
RepeatedMask == <<90, <<77, 77>>>>
NoMask == <<90, <<0, 77>>>>

MCPieceInputs == Plain \cup {RelatedInSum, RelatedAcross, RelatedWithin, RepeatedMask, NoMask}
MCGates == {2503}
=============================================================================
