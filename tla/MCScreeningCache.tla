-------------------------- MODULE MCScreeningCache --------------------------
(***************************************************************************)
(* Threads that screen the same roster in two list orders, rosters that    *)
(* share components, rosters rejected at each stage, and recovery keys     *)
(* that share the key cache with them.  A behaviour makes calls of one     *)
(* mix: mostly accepted ones, or mostly rejected ones.                     *)
(***************************************************************************)
EXTENDS ScreeningCache

VARIABLE mix   \* the calls of a behaviour, one of Mixes

MCCoefficient(recipient, gates, component) ==
  1 + ((recipient * 3 + component * 5 + Cardinality(gates)) % (Order - 1))

MCRelation(recipient, gates) == IF 2 * recipient \in gates THEN "scalar relation" ELSE "none"

Accepted ==
  { OpeningBindingCall(3, <<5, 2>>),   \* one roster in two orders
    OpeningBindingCall(3, <<2, 5>>),
    OpeningBindingCall(8, <<2, 5>>),   \* its gates, another recipient
    OpeningBindingCall(3, <<>>),       \* no gates
    RecoveryKeyCall(3) }

\* Rejected before, during and after the component tasks.
Rejected ==
  { OpeningBindingCall(3, <<5, 2>>),
    OpeningBindingCall(5, <<5, 5>>),
    OpeningBindingCall(0, <<5>>),
    OpeningBindingCall(3, <<7, 1>>),
    OpeningBindingCall(3, <<5, 6>>),
    OpeningBindingCall(3, <<2, 6>>),
    OpeningBindingCall(3, <<5, 2, 8, 9>>),
    RecoveryKeyCall(7),
    RecoveryKeyCall(0) }

Mixes == {Accepted, Rejected}
MCCalls == UNION Mixes

MCInit == Init /\ mix \in Mixes
MCNext ==
  /\ \E t \in Threads : Step(t) \/ \E q \in mix : Call(t, q)
  /\ UNCHANGED mix

\* The fairness of Spec.
MCSpec == MCInit /\ [][MCNext]_<<vars, mix>> /\ \A t \in Threads : WF_vars(Step(t))
=============================================================================
