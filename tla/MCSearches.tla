----------------------------- MODULE MCSearches -----------------------------
(***************************************************************************)
(* The table searches and the relation screens, for TLC.  They are         *)
(* functions of their input, so a behaviour exercises one of them, its     *)
(* subject, and leaves the others unused.                                  *)
(***************************************************************************)
EXTENDS DiscreteLog, MaskSearch, PedersenScreen, RosterScreens

VARIABLE subject

vars == <<subject, logVars, pieces, committed, components>>

MCCoefficient(recipient, gates, component) == 1

----------------------------------------------------------------------------
(* DiscreteLog: the points on either side of the identity, past the bounds *)
(* and the last rows, and some far from it; bounds below, on and between   *)
(* the seams of both tables, with chunks that do not divide the number of  *)
(* rows.                                                                   *)

MCSearchPoints ==
  {p \in Scalars : p < 100 \/ Order - p < 100 \/ p % 2503 < 2}

----------------------------------------------------------------------------
(* MaskSearch: all lists of four masks drawn from six, cut into pieces in  *)
(* every way: a base g, -7*g (the last multiple sought), 11*g (past it, in *)
(* the last row of the ladder), 2*g + 2 (a public offset), another, and    *)
(* its sum with g.                                                         *)

ShortPoints == {12345, 33612, 15768, 24695, 30011, 2347}

(* And lists of six masks whose only relations are                         *)
(*     4106 - 6585 + 2*18421 - 2*37186,                                    *)
(*     4314 - 6585 - 18421 + 24605 + 36096                                 *)
(* and 4106 - 6585 - 24605 + 28174 + 36096 - 37186.                        *)

WideLists == { <<37186, 4314, 4106, 18421, 6585, 24605>>, <<36096, 4106, 24605, 18421, 4314, 6585>>,
               <<28174, 36096, 4106, 37186, 24605, 6585>> }

MCPoints == ShortPoints \cup UNION {Range(wide) : wide \in WideLists}
MCOccurs(list) ==
  (Len(list) <= 4 /\ Range(list) \subseteq ShortPoints) \/ \E wide \in WideLists : IsPrefix(list, wide)

----------------------------------------------------------------------------
(* PedersenScreen: up to three pieces of a limb slot and a carry slot.     *)

----------------------------------------------------------------------------
(* RosterScreens: nine keys of a group of order 40009.  Among A, B, C, D   *)
(* there is no relation; the others are at the edge of one window each:    *)
(*     5*P = 7*A, U = 7*A - 6*B, 3*L = 3*B + 2*C,                          *)
(*     2*M = -2*A + B - 2*C, 3*T = A - C + D.                              *)

A == 32538
B == 38997
C == 20585
D == 31472
P == 13546
U == 33793
L == 39384
M == 26389
T == 14475

MCKeys == {A, B, C, D, P, U, L, M, T}

----------------------------------------------------------------------------
Is(name) == subject = name

NoLog == point = Identity /\ limit = 1 /\ row = 0 /\ found = Failed

NoRoster == components = <<>>
NoneCommitted == committed = <<>>

MCInit ==
  \/ Is("logarithm") /\ LogInit /\ MasksInit /\ NoneCommitted /\ NoRoster
  \/ Is("masks") /\ NoLog /\ MasksInit /\ NoneCommitted /\ NoRoster
  \/ Is("commitments") /\ NoLog /\ MasksInit /\ PedersenInit /\ NoRoster
  \/ Is("roster") /\ NoLog /\ MasksInit /\ NoneCommitted /\ RosterInit

MCNext ==
  /\ UNCHANGED subject
  /\ \/ Is("logarithm") /\ LogNext /\ UNCHANGED <<pieces, committed, components>>
     \/ Is("masks") /\ MasksNext /\ UNCHANGED <<logVars, committed, components>>
     \/ Is("commitments") /\ PedersenNext /\ UNCHANGED <<logVars, pieces, components>>
     \/ Is("roster") /\ RosterNext /\ UNCHANGED <<logVars, pieces, committed>>

MCSpec == MCInit /\ [][MCNext]_vars
=============================================================================
