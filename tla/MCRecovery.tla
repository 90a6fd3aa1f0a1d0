----------------------------- MODULE MCRecovery -----------------------------
(***************************************************************************)
(* The recoveries from hints, for TLC: the gated one on two instances, the *)
(* recipient-only one from a stored payload on another.  A behaviour is a  *)
(* recovery of one kind, its subject; the others wait in their initial     *)
(* state.                                                                  *)
(*                                                                         *)
(* Recovery.cfg gives GatedRecovery two pieces and one gate of two         *)
(* holders; piece 1 was sealed twice, and the second hint is not attested. *)
(***************************************************************************)
EXTENDS GatedRecovery, PayloadRecovery

VARIABLES
  subject,
  attested, granted, shown, recovered   \* of the second gated recovery

pieceVars == vars
gateVars == <<attested, granted, shown, recovered>>

MCCoefficient(recipient, gates, component) ==
  1 + ((recipient * 31 + component * 17 + Cardinality(gates)) % 10006)

MCHintMask(p) ==
  p.eStar * 7 + p.yStar * 11 + p.vs * 13 + p.ctx * 1009 + p.epoch * 2003 + p.idx * 307 + p.x * 29

Sealing(idx, epoch, r) == [idx |-> idx, epoch |-> epoch, r |-> r]
Call(holder, gate, sealing, entropy) ==
  [holder |-> holder, gate |-> gate, sealing |-> sealing, entropy |-> entropy]

MCHolders == {"a1", "a2"}
MCGateOf == [a1 |-> 2503, a2 |-> 2503]
MCShareOf == [a1 |-> 1999, a2 |-> 504]
MCPieceOf == <<1234, 4321>>
MCWeights == <<3, 3>>
MCNow == <<Sealing(1, 2, 911), Sealing(2, 2, 3571)>>
MCSealings == {MCNow[1], MCNow[2], Sealing(1, 2, 5111)}
MCAttestedOf == [epoch \in {2} |-> MCNow]
MCCalls == {Call(h, 2503, s, 0) : h \in MCHolders, s \in {MCNow[1], MCNow[2]}}
             \cup {Call("a1", 2503, MCNow[1], 1)}

----------------------------------------------------------------------------
(* With one piece, two gates of one holder each, and a hint of an earlier  *)
(* epoch; hints and contributions may be altered.                          *)

TwoNow == Sealing(1, 2, 911)
TwoOld == Sealing(1, 1, 6007)

Two == INSTANCE GatedRecovery WITH
  Gates <- {2503, 4801}, Holders <- {"a", "b"}, GateOf <- [a |-> 2503, b |-> 4801],
  ShareOf <- [a |-> 2503, b |-> 4801],
  Secret <- 7321, PieceOf <- <<7321>>, Weights <- <<1>>,
  Sealings <- {TwoNow, TwoOld}, AttestedOf <- <<<<TwoOld>>, <<TwoNow>>>>,
  Calls <- { Call("a", 2503, TwoNow, 0), Call("b", 4801, TwoNow, 0),
             Call("b", 4801, TwoOld, 0), Call("a", 4801, TwoNow, 0), Call("b", 1999, TwoNow, 0) },
  MaxCalls <- 2, MaxPieces <- 1, MaxQuorums <- 2, MaxHanded <- 2, MaxAltered <- 1,
  signed <- attested, made <- granted, tray <- shown, released <- recovered

----------------------------------------------------------------------------
(* The payload: two pieces and two epochs, a retry of piece 1, piece 2 of  *)
(* an earlier epoch, and seals of piece 2 on the negation of a limb mask   *)
(* of its capsule and of the ephemeral of piece 1.                         *)

Stored(epoch) == [vs |-> 5555, ctx |-> 3, epoch |-> epoch]
StoredSeal(idx, epoch, r) == [idx |-> idx, context |-> Stored(epoch), r |-> r]

MCTriedKeys == {RecipientKey, 5003}
MCContexts == {Stored(1), Stored(2)}
MCPieceIn(c, idx) == IF idx = 1 THEN 1234 + c.epoch ELSE 4321 - c.epoch
MCMasksOfPiece == <<<<20011, 31013>>, <<27017, 9227>>>>
MCStoredSeals ==
  { StoredSeal(1, 2, 17911), StoredSeal(1, 2, 23571), StoredSeal(2, 2, 36007),
    StoredSeal(2, 1, 5083), StoredSeal(2, 2, Order - 31013), StoredSeal(2, 2, Order - 17911) }

StoredPassing == Passing   \* screened once

----------------------------------------------------------------------------
Is(name) == subject = name

MCInit ==
  /\ subject \in {"two pieces", "two gates", "payload"}
  /\ Init /\ Two!Init /\ PayloadInit

MCNext ==
  /\ UNCHANGED subject
  /\ \/ Is("two pieces") /\ Next /\ UNCHANGED <<gateVars, payloadVars>>
     \/ Is("two gates") /\ Two!Next /\ UNCHANGED <<pieceVars, payloadVars>>
     \/ Is("payload") /\ PayloadSteps(StoredPassing) /\ UNCHANGED <<pieceVars, gateVars>>

MCSpec == MCInit /\ [][MCNext]_<<subject, pieceVars, gateVars, payloadVars>>

ASSUME RecoveryAssumption /\ DealingAssumption
ASSUME Two!RecoveryAssumption /\ Two!DealingAssumption
ASSUME Cardinality(StoredPassing) > 1   \* some packages pass the ingress screen

----------------------------------------------------------------------------
\* With two gates, a stale hint and alterations too, a gated recovery
\* succeeds exactly on the attested hints with complete quorums, and counts
\* only what was authorized for this piece, gate and epoch (hint.rs,
\* gate_sum_inner).
TwoGatesRecover ==
  Is("two gates") => Two!RecoversIffAttestedAndComplete /\ Two!CountedAreAuthorized
=============================================================================
