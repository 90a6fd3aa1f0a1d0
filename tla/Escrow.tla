------------------------------- MODULE Escrow -------------------------------
(***************************************************************************)
(* What opening a capsule promises: the recipient, and nobody else, obtains *)
(* the sealed secret, and only after every share holder of every access    *)
(* gate has consented to this opening.  The mask strips, proofs and lists  *)
(* of opening.rs implement this.                                           *)
(***************************************************************************)
CONSTANTS
  Holders,    \* the share holders of all access gates
  Recipient,  \* the secret key the capsule is sealed to
  Secret      \* the sealed scalar

VARIABLES
  consent,    \* the holders that have consented
  released    \* the <<opener, value>> pairs that openings returned

vars == <<consent, released>>

TypeOK == consent \subseteq Holders /\ released \subseteq {<<Recipient, Secret>>}

Init == consent = {} /\ released = {}

Consent(h) == consent' = consent \cup {h} /\ UNCHANGED released

Release ==
  /\ consent = Holders
  /\ released' = released \cup {<<Recipient, Secret>>}
  /\ UNCHANGED consent

Next == Release \/ \E h \in Holders : Consent(h)

Spec == Init /\ [][Next]_vars
=============================================================================
