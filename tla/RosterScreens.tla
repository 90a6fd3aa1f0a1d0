---------------------------- MODULE RosterScreens ----------------------------
(***************************************************************************)
(* The relation screens of a roster (composite.rs): between the recipient  *)
(* and the access keys, no public linear relation with small coefficients  *)
(* may hold.  Every screen here searches as the code does, by tables of    *)
(* x-coordinates and by halves; Relation says what they look for.          *)
(*                                                                         *)
(* Components are listed with the recipient first and the access keys in   *)
(* the order of their encodings.  Where a scan stops at its first hit, the *)
(* answers are the set of what any order of the scan can answer.           *)
(***************************************************************************)
EXTENDS MaskScreens

CONSTANTS
  ScalarWindow,   \* COMPONENT_RELATION_BOUND, 4096
  TargetWindow,   \* COMPONENT_TARGET_RELATION_BOUND, 64
  MixedWindow,    \* COMPONENT_MIXED_SUBSET_RELATION_BOUND, 8
  Keys,           \* the keys that occur
  MaxGates        \* bound on the access keys of a roster

\* What the parameters satisfy.
ASSUME RosterScreensAssumption ==
  /\ {ScalarWindow, TargetWindow, MixedWindow} \subseteq Nat \ {0}
  /\ TargetWindow <= ScalarWindow /\ MixedWindow <= ScalarWindow /\ ScalarWindow < Order
  /\ Keys \subseteq Scalars \ {Identity}

VARIABLE components

\* The identity has no x-coordinate.
XKeys(points) == {XKey(p) : p \in points \ {Identity}}

Window(point, bound) == {Multiple(a, point) : a \in 1 .. bound}
BothSigns(points) == points \cup {Negated(p) : p \in points}

\* Who an answer names.
Who(indices) == IF 1 \in indices THEN "recipient" ELSE "access"
Others(cs, indices) == (DOMAIN cs) \ indices
Pairs(cs) == {p \in (DOMAIN cs) \X (DOMAIN cs) : p[1] < p[2]}
FirstOf(pairs) ==
  CHOOSE p \in pairs : \A q \in pairs : p[1] < q[1] \/ (p[1] = q[1] /\ p[2] <= q[2])

----------------------------------------------------------------------------
(* Two and three components.                                               *)

\* has_signed_scalar_relation
ScalarRelated(p, q) ==
  XKeys(Window(p, ScalarWindow)) \cap XKeys(Window(q, ScalarWindow)) # {}

\* Slip: only the sums are offset, not the differences.
OffsetKeysUp(target, source) == XKeys({Plus(target, m) : m \in Window(source, ScalarWindow)})

\* signed_offset_x_keys
OffsetKeys(target, source) ==
  XKeys({Plus(target, m) : m \in BothSigns(Window(source, ScalarWindow))})

UnitTargets(cs, p) ==
  {t \in Others(cs, {p[1], p[2]}) :
     OffsetKeys(cs[t], cs[p[1]]) \cap XKeys(Window(cs[p[2]], ScalarWindow)) # {}}

PairSums(lhs, rhs) ==
  XKeys({Plus(l, r) : l \in Window(lhs, TargetWindow), r \in BothSigns(Window(rhs, TargetWindow))})
LowTargets(cs, p) ==
  {t \in Others(cs, {p[1], p[2]}) :
     PairSums(cs[p[1]], cs[p[2]]) \cap XKeys(Window(cs[t], TargetWindow)) # {}}

\* Slip: the target is not asked whether it is the recipient.
ReportedSources(p, targets) == IF targets = {} THEN {} ELSE {Who({p[1], p[2]})}

\* A match that involves the recipient is reported before one that does not.
Reported(p, targets) ==
  IF targets = {} THEN {} ELSE {Who({p[1], p[2]} \cup (targets \cap {1}))}

PairAnswer(cs, p) ==
  IF UnitTargets(cs, p) # {} THEN Reported(p, UnitTargets(cs, p)) ELSE Reported(p, LowTargets(cs, p))

----------------------------------------------------------------------------
(* Signed subsets: the sums of some components with coefficients up to a   *)
(* bound, each with the components it has.                                 *)

SubsetStates(cs, S, bound) ==
  {<<Combination(cs, S, c), Support(c)>> : c \in [S -> -bound .. bound]}

\* The supports of a left and a right sum that add to the target, unless both
\* are empty: the map of the left half meets every state of the right.
Meeting(left, right, target) ==
  {q[1][2] \cup q[2][2] : q \in {w \in left \X right : Plus(w[1][1], w[2][1]) = target}} \ {{}}

\* The access keys' flag of the left map is shadowed by the recipient's, so
\* one meeting with the recipient may speak for all of its sum.
MixedAnswers(cs, t) ==
  LET sources == Others(cs, {t})
      firstHalf == {i \in sources : 2 * Cardinality({j \in sources : j <= i}) <= Cardinality(sources) + 1}
      left == SubsetStates(cs, firstHalf, MixedWindow)
      right == SubsetStates(cs, sources \ firstHalf, MixedWindow)
  IN  {Who({t} \cup support) :
         support \in UNION {Meeting(left, right, target) : target \in Window(cs[t], MixedWindow)}}

LowSubsetAnswers(cs, t) ==
  {Who({t} \cup s[2]) :
     s \in {q \in SubsetStates(cs, Others(cs, {t}), 1) :
              /\ q[2] # {} /\ q[1] # Identity
              /\ XKey(q[1]) \in XKeys(Window(cs[t], TargetWindow))}}

UnitSubsetAnswers(cs) ==
  LET half == Len(cs) \div 2
  IN  {Who(support) : support \in Meeting(SubsetStates(cs, 1 .. half, 1),
                                          SubsetStates(cs, half + 1 .. Len(cs), 1), Identity)}

\* The answers for the first component that has any.
FirstAnswers(answers) ==
  LET some == {t \in DOMAIN answers : answers[t] # {}}
  IN  IF some = {} THEN {} ELSE answers[CHOOSE t \in some : \A u \in some : t <= u]

----------------------------------------------------------------------------
\* reject_component_relations: what it can answer; {} accepts the roster.
Rejections(cs) ==
  LET scalar == {p \in Pairs(cs) : ScalarRelated(cs[p[1]], cs[p[2]])}
      linear == {p \in Pairs(cs) : PairAnswer(cs, p) # {}}
      mixed == FirstAnswers([t \in DOMAIN cs |-> MixedAnswers(cs, t)])
      low == FirstAnswers([t \in DOMAIN cs |-> LowSubsetAnswers(cs, t)])
      about(kind, answers) == {kind} \X answers
  IN  IF scalar # {} THEN {<<"scalar", Who(ToSet(FirstOf(scalar)))>>}
      ELSE IF Len(cs) <= 2 THEN {}
      ELSE IF linear # {} THEN about("linear", PairAnswer(cs, FirstOf(linear)))
      ELSE IF mixed # {} THEN about("linear", mixed)
      ELSE IF low # {} THEN about("linear", low)
      ELSE about("linear", UnitSubsetAnswers(cs))

----------------------------------------------------------------------------
RosterInit == \E k \in Keys : components = <<k>>

\* The access keys of a canonical roster are sorted and different.
AddGate(k) ==
  /\ Len(components) <= MaxGates
  /\ Len(components) >= 2 => components[Len(components)] < k
  /\ components' = Append(components, k)

RosterNext == \E k \in Keys : AddGate(k)
RosterSpec == RosterInit /\ [][RosterNext]_components

----------------------------------------------------------------------------
(* The relations: coefficients, not all zero, under which the components   *)
(* of S sum to the identity.                                               *)

NonZero(bound) == (-bound .. bound) \ {0}

\* A multiple of t, by a coefficient of ks, is a combination of the rest of S.
Targets(S, ks, coefficients) ==
  \E t \in S, k \in ks :
    \E c \in [S \ {t} -> coefficients] : Multiple(k, components[t]) = Combination(components, S \ {t}, c)

Several == {S \in SUBSET (DOMAIN components) : Cardinality(S) >= 2}
ScalarRelations ==
  {S \in kSubset(2, DOMAIN components) : Targets(S, 1 .. ScalarWindow, NonZero(ScalarWindow))}
UnitTargetRelations ==
  {S \in kSubset(3, DOMAIN components) : Targets(S, {1}, NonZero(ScalarWindow))}
LowRelations ==
  {S \in kSubset(3, DOMAIN components) : Targets(S, 1 .. TargetWindow, NonZero(TargetWindow))}
MixedRelations == {S \in Several : Targets(S, 1 .. MixedWindow, NonZero(MixedWindow))}
LowSubsetRelations == {S \in Several : Targets(S, 1 .. TargetWindow, {-1, 1})}

Relations ==
  ScalarRelations \cup UnitTargetRelations \cup LowRelations \cup MixedRelations \cup LowSubsetRelations

\* A roster is refused when, and only when, one of the relations of the
\* screens holds among its components, wherever the recipient, the target and
\* the halves fall (composite.rs:808-902; the comment of the crate module lists the
\* relations at 45-48).
RefusesExactly == Rejections(components) # {} <=> Relations # {}

\* An error that speaks of the access keys is about a relation among them
\* alone, one that names the recipient about one with it, and a scalar
\* relation is between two (composite.rs:754-766).
ErrorsAreTruthful ==
  \A r \in Rejections(components) :
    \E S \in IF r[1] = "scalar" THEN ScalarRelations ELSE Relations : Who(S) = r[2]

RosterScreenIsExact == RefusesExactly /\ ErrorsAreTruthful
=============================================================================
