# A TLA+ model of ve-capsule

This directory models `ve-capsule`, a library for verifiable encryption of
secp256k1 scalars: a secret is sealed to a recipient and optional *gates* as a
*capsule*, anybody can verify the capsule against the public commitment
`M = m*G`, and the recipient opens it once every gate's share holders have
contributed. Several capsules whose secrets add up form a *case*. Paths such as
`case.rs` mean `src/src/case.rs`.

The library is a set of functions and token types; it has no network and no
process of its own. What is stateful around it is what the model's actions are:
who has called `contribute` for what, which partials reached the recipient and
how often, what was verified, signed, stripped, stored and bound, which hints a
coordinator holds, what the two process-wide caches contain, and which worker
threads of a scan are running. Below that lie pure algorithms, modelled step by
step and compared with what they are meant to compute.

* [Inventory](#inventory)
* [Modules](#modules) and how they follow the code
* [The data](#the-data): the abstraction of curve, ciphertext and proof
* [Runs](#runs): what is checked, the bounds, the fairness
* [Proofs](#proofs): what holds for every value of the constants
* [Disagreements between code and documentation](#disagreements-between-code-and-documentation)
* [Not modelled](#not-modelled) and the [plan](#plan)

## Inventory

Each component with its state, its operations, and what makes it correct.

| Component | State | Operations | Correct when |
|---|---|---|---|
| **Contributions and opening** (`opening.rs`, `dleq.rs`, `capsule.rs`, `context.rs`) | the tokens `VerifiedCapsule`/`BoundCapsule`; the caller's list of `Partial`s | `contribute` (DLEQ proof, statement-bound nonce), `Partial::verify`, `unseal`/`open_core` | it opens exactly for the recipient's key and exactly one contribution of every share holder; a failed opening releases nothing; no nonce is used for two statements |
| **Case** (`case.rs`, `stripped.rs`) | pieces; tokens `VerifiedCase`, `BoundCase`; the stored `StrippedCase` | `Case::verify`, `unseal`, `strip`, decode, `bind`, `BoundCase::unseal` | the two ways to open agree; storage without proofs accepts no more than verification, and loses no case this crate made |
| **Limbs and ElGamal** (`limbs.rs`, `elgamal.rs`, `bsgs.rs`) | none | decompose, encrypt, bounded discrete logarithm, recompose | recompose inverts decompose; the search returns the logarithm below the bound, or nothing |
| **Mask screens** (`assembly.rs`) | none | scans for scalar, sparse, unit and mirrored relations between masks and commitments | a core with a small relation is refused, whichever half of a meet-in-the-middle finds it |
| **Roster** (`composite.rs`) | none | gate canonicalization, coefficients, composite key, component relations | list order is irrelevant; the first failing check is the one reported |
| **Screening caches** (`composite.rs` 1034-1062, `assembly.rs` 1668-1760) | a capped list of (roster, key) pairs and a capped set of keys, each under a mutex of its own and shared by all threads | `opening_binding`, `reject_degenerate_recovery_key` and the other screens of keys | an answer never depends on the caches, their capacities or other threads |
| **Caller context** (`context.rs`) | the caller's live object | read by proof, token and limits check | everything uses one reading |
| **Worker threads** (`parallel.rs`) | scoped threads, their join handles, a relaxed flag | `parallel_map_indexed`, `parallel_any` | result and panic are those of the inline loop; no worker outlives its scope |
| **Attestation** (`signature.rs`) | none | statement, duplicate-core check, BIP-340 verification | a token is promoted only for exactly the attested cores, in order; a signature of the quorum is never refused nor turned into another |
| **Hints** (`hint.rs`) | hints; gate quorums of contributions; the pinned verifier | seal, recipient-only and gated opening, gate sums, attestation | a gated recovery succeeds exactly on the attested hints, each with a complete quorum, and yields the certified secret |
| **Payload and provisioning** (`compact_payload.rs`, `provision.rs`, `recover.rs`) | the stored bytes | assemble, decode, ingress screen, recover | recovery returns the certified secret or nothing; no admitted hint shares an ephemeral |
| **Seal proof** (`assembly.rs`, `carry.rs`, `linking.rs`, `pedersen.rs`) | none | commit, announce, respond, verify, open | every scalar seals; what verifies is below the order and opens to `C` |
| **Range argument** (`range_circuit.rs`, `norm_arg.rs`) | none | four flights, fold, verify | honest proofs open; only digits and counts of values in range verify |
| **Transcript** (`transcript.rs`, `generators.rs`) | the running hash | absorb, squeeze, finalize | a challenge binds all that was sent before it; a nonce answers one challenge |
| **Curve support** (`batch_affine.rs`, `msm.rs`, `codec.rs`) | scratch vectors | batched additions, inversions, buckets, point codec | equal to the group law; one encoding per point |

How they interact. `Case` bundles capsules; verifying either screens the roster
(caches, worker threads) and the masks (worker threads), reads the caller's
context, and yields a token. `contribute` on a token makes `Partial`s that
travel outside the library; `unseal` on the token takes the list that arrived.
Stripping turns a verified token into bytes; `bind` makes a weaker token from
such bytes, guarded by screens and, at unseal, by comparing the opened scalar
with the certified commitment.

What is hard about it. Partials are lost, repeated, reordered, altered or made
for something else, and `open_core` *ignores* whatever does not verify rather
than failing; a retried contribution differs from the first one and is counted
as well. The aggregate path of a stripped case opens a sum whose limbs exceed
a limb. Checks are repeated along verify, strip, decode, bind and unseal, by
different functions that must agree. Two mutex-guarded caches are looked up,
released, and updated later. Scans run on threads that may panic, and stop early
on a relaxed flag. The coordinator of a hinted recovery is not trusted: it may
present hints of another epoch, resealed ones, or sign a set itself. The searches
walk tables in strides and look points up by x-coordinate, so that signs, last
rows and bounds between strides must be right. The proof's equations hold modulo
the group order and are meant over the integers. A generator of random numbers
may repeat its output. `PROJECT.json` lists each of these hazards at its line.

## Modules

Modules are layered; each one `EXTENDS` or instantiates those above it.

| Module | Models | Code |
|---|---|---|
| `CapsuleAlgebra` | scalars, points, limbs, ElGamal ciphertext, aggregate key, frozen parameters (the constants' assumptions) | `limbs.rs`, `elgamal.rs`, `composite.rs`, `params.rs`, `bsgs.rs` |
| `Opening` | a sealed core, `contribute`, `Partial::verify`, deduplication, gate buckets, `open_core` | `opening.rs`, `dleq.rs` |
| `Parties` | what is common to the two behaviours below: roster, share holders, the contribute calls made, the recipient's list, what unseal returned | `capsule.rs`, `opening.rs` |
| `CapsuleOpening` | the behaviour around one capsule: contribute, deliver, deliver altered, unseal | `capsule.rs`, `opening.rs` |
| `MaskScreens` | which relations between masks the screens refuse, as sets and quantifiers | `assembly.rs` |
| `Case` | the checks of a case (`CaseVerifies`, `BindAccepts`, `MayStrip`, `MasksDecode`) and both openings | `case.rs`, `stripped.rs` |
| `CaseOpening` | the behaviour around one case: contributions make one partial per piece, which travel separately; both openings | `case.rs`, `stripped.rs` |
| `CaseLifecycle` | bundle, verify, strip, decode, bind | `case.rs`, `stripped.rs`, `capsule.rs` |
| `Escrow` | **abstract**: holders consent; once all have, the recipient gets the secret and nobody else gets anything | what `README.md` promises of capsule, case and recovery |
| `ScreeningCache` | the verdict on a roster in an empty process (canonical gates, key screens, relations, in the code's order); threads in `opening_binding` and `reject_degenerate_recovery_key`: lookup, parallel component tasks, store | `composite.rs`, `assembly.rs` |
| `ColdScreening` | **abstract**: each call is answered by its cold verdict, eventually | |
| `ContextBinding` | a context object that may change between the library's reads of it | `capsule.rs`, `stripped.rs`, `composite.rs` |
| `Parallel` | worker count and chunk arithmetic; the caller and its workers, step by step, of the map (with panics) and of the search (with the relaxed flag) | `parallel.rs` |
| `AttestedRecovery` | the statement a quorum signs for a capsule or a case; verify, sign, strip, store (with replacement), bind, promote, open | `signature.rs`, `capsule.rs`, `case.rs`, `stripped.rs` |
| `Hint`, `GatedRecovery` | hints, their openings, gate sums and attestation; recovery under an untrusted coordinator | `hint.rs` |
| `PayloadRecovery` | the stored payload and the ingress screen; retried sealing, alteration in storage, recovery | `compact_payload.rs`, `provision.rs`, `recover.rs`, `hint.rs` |
| `Schnorr` | wire forms of points on a small curve; BIP-340 | `codec.rs`, `signature.rs` |
| `DiscreteLog` | the baby tables and the searches over them | `bsgs.rs` |
| `MaskSearch` | the searches for the relations of `MaskScreens` | `assembly.rs` |
| `PedersenScreen` | commitments of the pieces of a case and their cross-piece screen | `pedersen.rs`, `assembly.rs` |
| `RosterScreens` | the searches for relations between recipient and access keys | `composite.rs` |
| `SealProof` | carry chain, linking sigma and their assembly; `open` | `carry.rs`, `linking.rs`, `assembly.rs` |
| `PrimeField`, `NormArg`, `RangeCircuit` | arithmetic modulo a prime and vectors over it, which `CapsuleAlgebra` and `BatchAffine` extend too; the folding rounds; the circuit | `norm_arg.rs`, `range_circuit.rs` |
| `ProofNonces` | framing and ratchet of the transcript; the challenges and linking nonces of seals whose generator repeats itself; bindings, nonces and challenges of the proofs by a share | `transcript.rs`, `assembly.rs`, `linking.rs`, `dleq.rs`, `opening.rs`, `hint.rs`, `signature.rs` |
| `BatchAffine`, `Msm` | the batched affine kernels on a small curve; the bucket method | `batch_affine.rs`, `msm.rs` |
| `MC*` | the instances for TLC, below | |
| `*_proofs` | theorems | |

`MCCapsuleOpening`, `MCCaseOpening` and `MCCaseLifecycle` give the constants of one
module. `MCScreeningCache` adds the variable `mix`, the set of calls a behaviour
draws from: mostly accepted rosters, or mostly rejected ones. The other MC modules are
benches for modules that share no state: a variable `subject` selects the one
that a behaviour is about, its variables follow its own initial predicate and next-state
relation, and those of the others stay at the model value `Unused`, or in the initial state of a
module the bench extends. Nothing interacts across subjects, so a bench checks
what separate runs of its modules would. A bench extends the modules whose properties are
proved, so that theorem and run speak of one definition; to be extended together such modules
share the constants of `CapsuleAlgebra`, hence one group per run, and name their specifications
apart (`PayloadSpec`, `LogSpec`, `MasksSpec`, `PedersenSpec`, `RosterSpec`, `NormSpec`, `NonceSpec`, `ShareSpec`, `MsmSpec`, `ScanSpec`, `BatchSpec`). The others are instances with constants of their own.
`MCParallel` extends `Parallel` (both scans) and `BatchAffine`; `MCRecovery` extends `GatedRecovery` and `PayloadRecovery` and
has a second instance of the former; `MCTrust` extends `AttestedRecovery`, `Schnorr` and
`ContextBinding`; `MCSearches` extends `DiscreteLog`, `MaskSearch`, `PedersenScreen` and `RosterScreens`; `MCSealing` extends `SealProof`, `ProofNonces`, `NormArg` and `Msm` and
holds the range circuit as an instance. A property of a bench states of its subject what the modules
it instantiates define.

`CapsuleOpening` and `CaseOpening` extend `Parties`; they and `GatedRecovery` refine `Escrow`;
`ScreeningCache` refines `ColdScreening`. Action by action:

* **Parties, CapsuleOpening.** `made` are the `contribute` calls that returned `Ok`,
  `inbox` is the `&[Partial]` the recipient will pass, `released` the pairs of
  key and scalar that `unseal` returned; `Make`, `Arrive` and `Return` extend
  them. `Contribute` is `contribute` with all
  of its failures (a gate that is not on the roster); a holder may use another
  holder's gate, another capsule, another context or repeated entropy.
  `Deliver` appends a partial that was made, at most one altered partial is
  delivered by `DeliverAltered`, and nothing forces a delivery (loss). `Unseal`
  evaluates `open_core` whole: dedup, verification, bucket sums, stripping,
  bounded logarithm, recomposition and the commitment recheck.
* **CaseOpening.** `ContributeToCase` makes a partial per piece or none, `DeliverPiece`
  lets one of them arrive. The same around `VerifiedCase::unseal` (opens each piece from
  the flat list, adds) and `BoundCase::unseal` (checks every piece's gates,
  opens the sum of the ciphertexts against a bound scaled by the piece count).
* **CaseLifecycle.** `BundleSealed` is a piece from `Capsule::seal`, which
  screens its masks; `BundleForeign` is one with a valid proof whose sealer did
  not. `Strip` requires a token; `Decode` is `from_canonical_bytes`, which
  requires none. `Bind` may be called with the right or a wrong commitment.
* **ScreeningCache.** One action per critical section. Between `Miss` and
  `Store`, and between `BeginTask` and `EndTask`, no lock is held and any other
  thread may run. The tasks of a roster run in any order, as on the worker
  threads of the component scan; `Join` takes the first error in component
  order.
* **ContextBinding.** `BeginVerify`/`EndVerify` and `BeginBind`/`EndBind` stand on
  either side of the second read; `Change` lets the object answer differently.
* **Parallel, the map.** `Spawn`, `RunTask`, `Join`, `Return`, `Unwind`, and `Inline`
  for the path without threads. `Join` resumes the panic of the worker joined
  first; `thread::scope` waits for the others before it unwinds.
* **Parallel, the search.** `Skip` is a load that saw the flag, `Start` one that did
  not, whether or not it was set: a relaxed load may be stale. Merging the
  worker's own result into the flag is a read-modify-write.

* **AttestedRecovery.** `VerifyCapsule` and `VerifyCase` make a proof-backed token. The
  quorum `Sign`s the message of such a token, or of one its own signature
  promoted; a rogue key signs any token and, by `Forge`, what was merely bound. `Strip` stores the
  cores of a token, `Replace` lets storage return others. `Bind` checks what is stored
  against an expected commitment, roster and context, and `Promote` is `verify_signed` on
  it. Holders contribute to every trusted token (the operator `Contributions`).
* **GatedRecovery.** `Attest` signs the hints of an epoch, `Authorize` is
  `AuthorizerContribution::contribute`; `Place`, `OpenQuorum`, `Hand` and
  `HandAltered` are what a coordinator may do with hints and contributions, and
  `Recover` is `verify_and_recover_gated` with any signature it can show.
* **PayloadRecovery.** `Seal` may be called again with a fresh ephemeral or for
  another epoch, `Admit` is the ingress screen, `Assemble` replaces the stored
  bytes, `Alter` changes them, `RecoverStored` decodes and recovers.
* **DiscreteLog.** `Chunk` advances the giant walk by one chunk, keeping the first
  hit and going on, as the complete search does. The two screens are operators.
* **MaskSearch, PedersenScreen, RosterScreens.** The state is a list that grows (masks
  cut into pieces, pieces, keys), and every list is compared with the reference
  definition. Where a scan stops at its first hit, its answer is the set of all
  answers some order of the scan can give.
* **SealProof.** `Seal` is the code's, `SealOtherwise` any sealer: values in range,
  carries at will, one limb encrypting something else, a target that is off.
* **NormArg, RangeCircuit.** One action per message and challenge. `ProveOtherwise`
  is a prover that brings its own digits and multiplicities.
* **ProofNonces.** `State`, `ProveRange` and `Link` are the three stretches of
  `seal` between which the transcript is squeezed; what each draws is chosen
  from a set, so that two seals may draw the same. `ContributeShare` and `AuthorizeShare` are
  `contribute` and `AuthorizerContribution::contribute` with their early returns, each of which ends in
  `MakeProof`, which is `BatchDleqProof::prove`; what they draw is chosen likewise.
* **BatchAffine.** A call works on the scratch vectors an earlier call left behind,
  and may be stopped after any sum, as a scan that has found its point.

## The data

* **Scalars** are integers modulo a prime `Order`, and a **point** `k*G` is its
  scalar `k`. Point equality and every linear relation are exact; that
  logarithms are hard is not expressible and not claimed. The recipient's *use*
  of a logarithm is limited to `recover_bounded_complete`, which the model
  bounds as the code does. TLC's integers have 32 bits, so `Order` is at most
  46337.
* **Limbs** are base `LimbModulus`; `LimbCount` of them cover a secret.
* **Hashes and proofs** are the values they are over: a challenge or a
  coefficient is a function of its inputs, a DLEQ proof is the statement it was
  made for and verifies for that statement alone. Soundness of the proof
  systems is thereby an assumption, not a result.
* **A nonce** is, in `Opening`, the tuple of what it is hashed from, which tells one run of a
  contribution from another; in `ProofNonces` it is hashed field by field, and what it covers is a result.
* **Other points.** `SealProof` writes a point as the pair of its coefficients of `G`
  and `H`, since the logarithm of `H` is unknown. `NormArg` and `RangeCircuit`
  use logarithms of all generators: equal values may then be equal by accident,
  which the instances avoid. `BatchAffine` and `Schnorr` have a curve (or its
  abscissas), and the group law that `BatchAffine` is compared with is defined by
  lines meeting the curve in three points, not by the formulas. `ProofNonces` has terms.
* **Challenges** are any value of a set, chosen after what they are hashed from;
  in `ProofNonces` they are the sequence that was hashed.
* **Contexts** are their lengths and an identity, in `ProofNonces` two byte strings. There a count of
  a list is one block wherever it stands: how the code writes it (framed like a field in the nonce's binding,
  raw in the transcript) is left out.
* **Layout of vectors.** `RangeCircuit` leaves out the zero padding of its vectors, and `Msm` takes a
  window's digit by division where the code picks its bits.
* **Bytes** of capsules and partials are left out; the canonical encodings are
  injective, so equality of artifacts is equality of records.

## Runs

| Run | Distinct states | Question |
|---|---|---|
| `capsule_opening` | 203 k | Does a capsule open exactly for its recipient and exactly one contribution of each holder? |
| `case_opening` | 111 k | Do the two ways to open a case agree on every list of partials? |
| `case_lifecycle` | 13 k | Does storage without proofs accept what verification does? |
| `screening_cache` | 240 k | Do answers or errors depend on the caches? |
| `parallel` | 20 k | Are the parallel map and the parallel search the inline ones, and the batched additions the group's? |
| `recovery` | 539 k | Which hints, contributions, attestations and payloads recover the secret? |
| `trust` | 82 k | Can anything be opened through a core that was not proved and signed, and under which context does a token stand? |
| `searches` | 184 k | Do the searches find what they are documented to look for, and nothing else? |
| `sealing` | 83 k | Does every scalar seal, does only what opens verify, and may a nonce answer two challenges or a proof serve two calls? |
| `strip_verified`, `open_stripped`, `bound_context_provable` | | expected to fail, see [below](#disagreements-between-code-and-documentation) |

Each takes at most three minutes on two cores.

### Properties

**capsule_opening.** `OpensIffEveryHolderOnce`: the recipient's unseal succeeds
iff, of the artifacts that arrived and qualify, every holder has exactly one
distinct one at its own gate, whatever else is in the list. The *only if*
includes a property worth knowing: a holder that retries with fresh entropy
makes a second, different partial, both are summed, and the opening fails until
the caller drops one. `AcceptedAreAuthentic`: a partial that is counted is, in
every field, one that `contribute` made for this capsule, context and gate. `ImplementsEscrow`: consent is withdrawn by nobody, the secret goes
to the recipient alone and only after every holder consented to *this* capsule
under *this* context.

**case_opening.** `OpensIffEveryPieceQualifies`: a case opens iff each piece's
quorum is complete by itself; pieces may be served by different calls of one
holder. `PathsAgree`: `VerifiedCase::unseal` and `BoundCase::unseal` return the
same scalar or both fail, on every list. The secrets are chosen so that
the summed limbs exceed a limb, which is what the scaled bound is for.
`CaseImplementsEscrow`: both ways keep the promise of `ImplementsEscrow` for the case's secret.

**case_lifecycle.** `BoundWouldVerify`: any case that `bind` accepts, decoded
from anywhere, passes the checks of `Case::verify` (its proofs aside).
`SealedCaseBinds`: a verified case all of whose pieces this crate sealed passes
`bind`. (The encoding's cap of 255 pieces is out of reach of a verified case, whose
cross-piece screen takes at most six.)

**screening_cache.** `AnswersAreCold`: every answer is the
verdict of an empty process, errors included. `CachesSound`: no unsound or
duplicated entry, no excess. `EntriesAreKept`: an action property, nothing is
replaced. `ImplementsColdScreening` adds that every call returns.

**parallel.** `OutcomeIsInline`, `ScanIsInline`: the results in index order, the
first panicking index's panic, the answer of the search are those of a plain
loop. `NoWorkerOutlives` (for the search part of `ScanIsInline`): the call ends after all
workers. `EveryCallEnds`: under the fairness below, whatever panics and is skipped.
`SumsAreTheGroupLaw`: batched sums and strides, mixed of chords, doublings, negatives and the identity under one
shared inversion, and the batched inverses are those of the group.

**recovery.** `RecoversIffAttestedAndComplete`: a gated recovery
succeeds iff the hints are the attested ones of the pinned epoch, in order, each
with one contribution of every holder at its own gate. Unlike opening, one bad
contribution in a quorum fails the whole recovery. `CountedAreAuthorized`: what
qualifies for a quorum was made for this piece, gate and epoch.
`ImplementsEscrow`: nothing but the certified secret, and only after every
holder authorized every attested piece. `TwoGatesRecover` says the first two of the second instance, which has
stale hints and alterations. `PayloadRecovers`: a payload recovers iff its sum is intact,
and then yields only the certified secret; for a stored payload the recipient's own context decides; the
target named inside the payload is ignored. Recipient-only recovery authenticates the
*sum* of the pieces: two alterations that cancel recover the secret all the
same, which the model found and the property states. `AdmittedAreFresh`:
whatever an ephemeral could alias, up to sign, the ingress screen refuses.

**trust.** `TrustedWereSealed`: whatever the storage returned and
whoever signed, a token that may collect contributions is of cores this crate
sealed for its roster and context, and a signature of the quorum promoted nothing whose
proof was not checked. `BoundOpensIffTrusted`: contributions open a
bound artifact exactly when each of its cores had a trusted token. The composition
matters: `bind` alone accepts the replaced core, and only the signature's statement,
which lists the cores, tells it apart. `SignedVerifies`, `OneEncoding`, over all
keys, nonces, messages, and integers up to twice the order for each half: a signature is
accepted whatever the parities and cannot be changed into another one; a point
has one wire form. `VerifiedUnderItsProof`: the context in the token of `verify`
is the one the proof was checked under, even for an object whose answer changes
in between. (`bind` does read twice: once for the limits and once for the token. An
object whose answers change is excluded by the contract of `Context`, lines 6-8
of `context.rs`, and no proof is checked against the kept copy, so the model
has both reads and no property forbids the difference.)

**searches.** `SearchesAreComplete`: the chunked walk returns the logarithm iff it
is below the bound, the signed screen of keys likewise, and the folded probe reports
every multiple below the bound; it also reports some above, see below.
`MaskSearchIsExact`: the ladder accepts the multiples up to its nominal bound
and its surplus row, none other (its last row is redundant for completeness); sums of
halves and public offsets answer like the quantified definition in `MaskScreens`, which
the lifecycle modules use. `CrossSearchIsExact`: so does the search across pieces, with
relations of up to six terms. `PedersenScreenIsExact`: cancelling and shared blindings are
refused, and only relations. `RosterScreenIsExact`: a roster is refused iff a
relation of the documented kinds and windows holds; the error's kind
holds of some components and blames the recipient only if it takes part. (The screen
of unit subsets is implied by the mixed one.)

**sealing.** `SealsAndOnlyWhatOpens`: every scalar seals; what verifies commits to a scalar below the
order and opens to it. A statement is called sound here if its announcements can be answered at *two*
challenges: that is what special soundness makes of a proof that convinces with more
than a negligible chance. The limbs have room for aliases `m + n`, as 264 bits
have for 256, and only the carry equations exclude them. The range argument is
taken at its word. `NormArgumentIsExact`: folding keeps the commitment and its opening
for every pair of challenges, rounds and remaining lengths are what
`expected_shape` computes separately, and openings are accepted.
`RangeProofIsExact`: the assertions of `prove_inner` hold for all randomness and
challenges, the fourth flight cancels every power of `T` but the third, and only true
witnesses verify; the norm argument is taken at its word.
`NonceAnswersOnce`: the hand-written nonce binding covers everything that
`sigma.x` depends on. `ChallengeBindsAllBefore`: no two proofs share a challenge
unless all that was sent before it is equal, the adjacent byte strings of the
context included. `ShareProofsAreBound`: however a holder's generator repeats itself, a nonce of a
contribution or of a hint's authorization answers one challenge, and the challenge of a proof is one that a
verifier derives for no other call: another core, gate, roster, context, epoch, piece or kind of call.
`MsmIsExact`: bucket sums are those of the group.

### Bounds

* `capsule_opening`: two gates, one shared by two holders, so that a bucket needs
  two partials; two capsules for one roster *with the same secret*, so that a
  replay is not noticed by the recheck; eight contribute calls, of which a
  behaviour makes `MaxCalls = 4` and delivers `MaxInbox = 4`, one of them altered: the
  three needed ones and any disturbance, or two disturbances in place of one.
* `case_opening`: two pieces, two gates, `MaxInbox = 5`: the four partials
  needed and one more; a contribution that was run again, one for another context
  and a share given to the wrong gate.
* `case_lifecycle`: pieces without relations, with a relation inside a piece, with
  another piece, in the sum only, a repeated mask and an identity mask, in
  every sequence of up to four; the piece bound is 2 and the encoding's cap 3 here
  (6 and 255 in the code), so that both are exceeded. The relation bounds
  (scalars up to 4 and the like, 4096 in the code) keep the tests small and have the code's
  order of sizes.
* `screening_cache`: two threads, capacities 2 and 3 against three cacheable rosters and
  more keys: both caches fill, two threads race on one roster in two list orders, and
  screens of keys race with the component tasks of a roster. The second mix has a roster
  or key for each stage at which it can be rejected.
* `parallel`: every length up to five (map) and seven (search) on one to four
  threads, with up to two panics or hits: lengths below, equal to, and above the number of
  workers, an empty last chunk, a panic in a worker joined late. *Batches* are on a curve of 31 points over 43
  elements, of up to three pairs, two in a row on the same scratch.
* `recovery`: the subject *two pieces* has one gate of two holders and four
  calls; *two gates* one piece behind two gates of one holder, two calls, a stale epoch
  and one alteration; *payload* two pieces in two epochs, one sealed twice, one on a limb of its
  capsule and one on another hint's ephemeral, up to sign, and two alterations, which is what it takes for the sum to come out right again.
* `trust`: two capsules of one roster and context and one of another, a case of
  the first two, storage that returns it reordered, one piece as a
  capsule, or cores with a mask or ciphertext replaced; two tokens and two signatures
  at a time. Signatures are over a group of order 13; a byte string is its
  length, tag and an integer up to 26, so that every scalar occurs unreduced. Contexts lie on
  both sides of every limit, and two differ only in what they say.
* `searches`: the group has order 40009 throughout. *Logarithm* asks for the points within 100 of
  the identity on either side, past every bound and last row, and some far from it, with bounds on,
  next to and between the strides of both tables and chunks of three rows that do not divide
  the rows. *Short lists* are of up to four masks of six,
  with multiples on and past the last row of the ladder, an offset and a sum;
  *wide lists* of six masks of eight, which have one relation each of four, five and
  six terms; both are cut into pieces in every way. *Commitments* have two slots with different
  value bounds, up to three pieces, three blindings with one relation (`BlindingsUnrelated` holds of them: TLC
  evaluates it). *Roster* has up to four
  access keys of nine, with one relation at the edge of each window.
* `sealing`: *proof* has order 13 and two limbs of two bits (values 13 to 15 are aliases),
  and every pair of limb vectors and carries. *Norm*, over the same 13, has 2 and 11
  generators (the code has 32 and 256): two rounds, odd halves, and one side of
  length one before the last round. *Range* has two limbs of two digits in base 4 and one
  carry (22 limbs of six digits in base 16 and ten carries in the code), with the code's
  own powers and zero slots; challenges include the poles and zero. *Nonces* has two
  seals that differ in at most two of six inputs: a binding that misses one field is broken by a
  difference in that field alone. *Shares* makes any two proofs of two shares and two seeds: over cores with one limb
  and with two, one of which swaps a mask for the other, hints whose ephemeral is a core's mask, two splits of the same
  bytes into domain and binding and into context and epoch, an identity mask, a gate that is not
  listed and a context that is too long. *Sum* has window widths 2 and 3 over four bits (4, 5
  and 6 over 256), of which 3 does not divide the length.

In addition, the small field makes `AggregationCoefficient` a concrete function;
nothing depends on its values except that no coefficient vanishes.

### Fairness and deadlock

* `screening_cache` assumes weak fairness of each thread's steps: the
  operating system schedules a thread that is in a call. Locks are held for one
  action and never nested, so they need no fairness. Nothing obliges a
  thread to call.
* `parallel` assumes weak fairness of the caller and of each spawned worker:
  tasks are finite loops that wait for nothing. Its termination also covers
  panics: a worker that panicked has ended and can be joined.
* The other specifications state no liveness: the library does nothing by itself.
* `CHECK_DEADLOCK FALSE` stands where the modelled activity comes to its end: all
  contributions are made and the inbox is full, the case is complete, the parallel
  call returned, the input of a bench is worked through. The cache run never
  stops and is checked for deadlock.

## Proofs

The `_proofs` modules prove, with TLAPS and for *every* value of the constants that
meets their assumptions, the following. Each extends the modules it is about and, where it
computes, `CapsuleAlgebra_proofs`. The state machines rest on an inductive invariant
`IInv` with `Init => IInv` and `IInv /\ [Next]_vars => IInv'`; the exactness of the openings
rests on the algebra first.

* **CapsuleAlgebra_proofs.** `LimbsRoundTrip`: recomposing the limbs of a scalar
  returns it, whatever the order, the width and the number of limbs. The other proofs
  cite its lemmas: congruence modulo `Order`, sums over finite sets (split, bounded,
  distributed), inverses and division for a prime order, limbs as integers (`IntegerBelow`,
  `IntegerDecompose`), and what it takes to strip a mask: a partial carries the
  fields of its maker (`PartialFields`), masks of a full roster leave exactly the
  limb when the recipient strips the rest (`LimbStrips`, `MasksOpen`). Sums are
  folds; facts about them are proved by a least counterexample, over a number or
  over the subsets of a finite set (`AllNaturals`, `AllSubsets`), since the
  library's induction theorems cannot be instantiated here. Flattening a list of lists
  keeps the types of its items (`FlattenTyped`) and lays every place of every list at one position
  and no position twice (`FlattenLays`), which the screens over several pieces rest on.
* **Opening_proofs.** Of a capsule: `TypeCorrect`, `OnlyAuthenticAccepted`,
  `OnlyTheSealedScalar`. The invariant says that the inbox consists
  of partials some call made or alterations of them, and that whatever was
  released is the sealed scalar. The argument for the latter is the commitment
  recheck at the end of `open_core` (`OpensToCommitted`); for authenticity it is
  that a DLEQ statement determines core, context, gate and images, so that a
  partial that verifies carries its maker's fields (`VerifiedIsAuthentic`). Assumed: capsules differ in their cores (fresh nonces).
  `OpeningIsExact` and `OpeningKeepsPromise` add both directions of the opening:
  the positions that are summed are, one to one, the contributions that arrived (`Names`), the sum of a
  bucket is the sum of shares with multiplicity (`BucketSum`), a bucket is full only if every
  holder of the gate stands in it once (`FullBuckets`), and then the masks are the
  roster's and the limbs come out. `ListOpens` states this of any sealed core and any list
  that *serves* it (`Served`: what verifies for the core is one of a set of contributions, and
  each of those is in the list).
  Of a case, with an invariant of its own (`CaseInv`, in `CaseInvariance`): `CaseOpeningIsExact`,
  `CasePathsAgree`, `CaseKeepsPromise`, for any number of pieces. A partial verifies for one piece only, because
  the cores of a verified case differ (`PieceVerifies`), so that a flat list serves each piece
  with the contributions that arrived for it (`PieceServed`). A piece that lacks one closes both
  ways (`PieceCloses`); if none does, the recipient strips each piece, and the sum: its masks are the sums of the
  pieces' masks, its limbs stay below the scaled bound and recompose to the sum
  (`SumServed`, `SumOpens`). Any other key misses a limb on both sides (`PiecewiseMissed`, `SumMissed`).
* **MaskScreens_proofs.** Of a case's life: `NoWiderBind`, the screens of `bind` include those of
  `verify` (`BindIsStricter`), and tokens keep the checks they were made
  under; `SealedCasesBind`, where `verify` does not run the whole screen, so the
  invariant carries that every piece of a case without foreign pieces passed it
  at sealing; `TypeCorrect`.
  Of the table searches: `SearchesFindTheirBounds`, for any point, bound, table widths and chunk.
  The walk's invariant (`WalkInv`) says that what was found is the point itself, if
  its row has been passed; only one row and column can meet at a point below the bound
  (`CandidatesAre`), and rounding up leaves no row out (`RowsReach`). The probes know a
  row's hit by x-coordinate only: the distance of a point from the middle of a row and the distance of its
  negation cannot both be small because the order exceeds twice the widest row
  (`OffsetFacts`, from `LogAssumption`), so the key screen is exact (`KeyScreenAnswers`) and the folded probe answers like
  `ProbedBelow`, which every other screen is defined with (`ProbeAnswers`).
  Of the searches among the masks of one capsule: `MaskSearchesAnswer`, for any masks, windows and
  widths. Every `s` up to the bound has a giant and a baby step, and a walk in both directions meets `s` or its
  mirror (`LadderStep`, `LadderSizes`), which is what `PairwiseScalars` lists
  (`LadderFindsWhat`). Coefficients over all masks are one choice for either half
  (`HalvesOfCoefficients`), their sum vanishes when the halves are negatives of each other
  (`HalvesCombine`), and the left map keeps the largest support so that two terms are not
  overlooked (`HalvesAnswer`). A difference is looked for with `b` and with `-b`, of which the
  definition has one (`PairFindsOffsets`).
  Of the searches across pieces: `CrossSearchAnswers`, for any lists. Flattening loses no mask and no piece
  (`FlatIndexes`); a table that keeps one owner per x-coordinate and whether there was another still tells
  whether *another* piece has it (`OwnersDecide`); a relation with `support` terms is two disjoint halves whose
  sums are opposite, wherever they are cut (`SupportedHalves`, `RelationsOfSupport`), and renaming
  indexes as places changes nothing (`PlacedRelates`).
  Of the screen of commitments: `PedersenScreenAnswers`, for any pieces, values and slots. The walk finds the
  signed sums whose first term is positive (`SlotWalksAre`), and one of two opposite combinations is one
  (`OneLeads`). A combination of commitments opens to a value bounded by its number of terms, under the
  combination of its blindings (`CombinationOpens`), so that cancelled or shared blindings leave a value that the
  probe finds (`CancelledIsWalked`, `SharedIsProbed`): this half assumes nothing of the blindings. The other one,
  that nothing else is refused, rests on `BlindingsUnrelated` (`WalkIsCancelled`, `ProbedIsShared`).
  Of the roster: `RosterScreenAnswers`, for any keys, windows and lengths. Tables of x-coordinates meet when
  points are equal up to sign (`KeysMeet`), and no multiple in a window is the identity (`WindowMisses`). The
  halves of a subset screen meet in the sums over both (`MeetingIs`), so each finds exactly the targets that are
  combinations of other components (`TargetsRelate`, `MixedExact`, `LowSubsetExact`); a vanishing sum
  relates each of its components (`UnitSubsetExact`), and between two components every relation is a
  scalar one (`TwoComponents`).
* **ScreeningCache_proofs.** `TypeCorrect`, `AnswersCold`, `CachesAreSound`,
  `EntriesKept`, `RefinesCold`, for any number of threads and any capacities. The
  invariant says of each thread which stage it is in and that every task's state
  agrees with the cold screen of its component; of the caches, that entries are
  verdicts and keys pass their screen. A hit is then a cold verdict, and a store
  is one because all tasks succeeded. The proof does not use which thread stored
  what: races are covered by the invariant on the caches alone.
* **AttestedRecovery_proofs.** `TrustIsEarned`, for any capsules, cases, contexts, keys and
  whatever storage returns. The invariant follows the statements: a signature
  under the trusted key states what some proof-backed token states, and a promoted token
  states what its signature states (`Stated`). Equal statements are about the same kind,
  cores, commitment, roster and context (`StatementsDetermine`), because a
  statement contains them; that no two cores have one digest is the
  abstraction. Assumed: the keys differ. `TrustOpens` says of the openings what
  `TrustIsEarned` says of the tokens: the contributions of the trusted tokens open a bound capsule, or the
  sum of a bound case, exactly when each core has one. Bound artifacts have the shape
  storage gives them (`ShapeInv`, an invariant of its own); without a trusted token for a
  core, no partial verifies for it and its gates stay empty; with one for
  each, the masks are the rosters' (`MasksAreTheRosters`), summed limbs stay below the
  scaled bound, and their recomposition is the sum of the secrets (`SumHolds`, `SumMasked`).
  `OneSignatureVerifies` (`Schnorr`), for any order and challenge function: an even and an odd point
  are negations of each other, so that key and nonce may be negated before signing and only the
  parities that verify are left; for one key, message and nonce the equation has one
  solution below the order. `PointsHaveOneEncoding`: what decodes re-encodes to itself, by cases on tag
  and length. `FrozenContext` (`ContextBinding`): the invariant remembers what was
  read before the context changed.
* **Recovery_proofs.** Of a gated recovery: `QuorumsAreAuthorized` and `RecoveryIsPinned`, for any seals, calls,
  attestations and trays. The invariant says that the tray consists of contributions
  that were made or alterations of them. An altered one verifies for nothing
  (`AlteredFails`: adding one to an image changes it modulo any order above 1), any other one
  carries the binding it was made for (`VerifiedIsAuthorized`). `RecoveryIsExact`: it succeeds
  exactly on the attested hints with complete quorums, where a bucket holds a set of
  contributions and the shares of no other set sum to the gate; `RecoveryKeepsPromise`: it implements `Escrow`.
  Of a stored payload: `AdmittedNeverAlias`, for any packages. What the ingress screen passed has no
  relation across the list of masks and the list of ephemerals, and every mask of every capsule is on the former
  (`MaskOnList`); equality up to sign is a multiple by one, and among the ephemerals
  the basic screen excludes it. `IntactPayloadsRecover`: whatever is sealed again, altered and reassembled, stored bytes that are
  `SumIntact` for a context recover under it, and nothing is recovered but the certified target.
  The invariant (`StoredInv`) types the bytes and says that sealed ephemerals were
  mintable and an ungated wire form carries no signature; such a form decodes to itself (`DecodesBack`), every piece
  opens to its contribution off by what its ciphertext is (`StoredPieceOpens`), and the sum is the
  target because the differences sum to nothing.
* **SealProof_proofs.** `SpecialSoundness`: whatever was announced, and by whomever, if it is
  answered at two challenges then every leg holds; dividing by the difference of the
  challenges takes a prime order. `SealsAreSound`: every scalar seals, its proof is accepted at every
  challenge, and what is accepted at two opens to a scalar below the order. The carry argument is in between:
  limb equations that hold modulo an order of at least twice the limb modulus hold over the
  integers, so the limbs and their complements sum to `n - 1`.
  `NoncesAnswerOnce` and `ChallengesBind`, about `ProofNonces`, for any seals, inputs and lengths.
  Both say that two transcripts are equal only part by part. Framing is a prefix code
  (`Cuts`: of two sequences that begin with framed fields, the fields are the same and the rest is
  the same; `FramedCuts`, `ListCuts`, `FieldsCuts`), so equal statements have equal fields
  (`StatementCuts`), the two byte strings of the context included. A squeeze keeps the digest of
  the state, so an induction over the schedule goes back from equal challenges to all that was
  absorbed (`RatchetCuts`, `SqueezedBinds`). A nonce contains its binding; equal bindings leave
  the statement, the residual announcements, the range messages and the drawn seed equal (`BindingIsAll`),
  and `sigma.x` is hashed from these and no more (`SameNonce`). The invariant
  (`NoncesInv`) only says that a seal holds what it was given by its stage.
  A hash is injective by the abstraction.
  `ShareProofsBound`, of the proofs by a share, for any scalars, calls and lengths. Both kinds of binding begin with their
  domain and so differ (`BindingsBegin`). Within one kind, fields are cut off one after another
  (`MoreFieldsCuts`): equal bindings have equal digests of the core, of which the limbs
  are equal one by one because each has one size, and equal rosters, gates and contexts, or equal contexts, epochs and
  pieces (`ContributionsBind`, `AuthorizationsBind`, `BindingIsOfOneCall`). A nonce contains share, binding, bases and
  images (`SameShareNonce`), so equal nonces have equal announcements; a challenge contains the
  binding (`ChallengeIsOfOneCall`).
  Of the norm argument: `FoldingIsExact`, for any generators, weight, lengths and challenges. An inner product
  of two vectors is a form over twice as many places as either needs (`InnerIs`, `WeightedInnerIs`), so that odd
  lengths need no case of their own; folding pairs of places turns it into the old form, `y` times two cross terms and
  `y*y - 1` times the form of the odd entries (`FormFolds`), if the factors of the two vectors and the
  weights cancel: they do because the weight is squared every round (`PowersHalve`) and a scalar other than zero has
  an inverse (`InverseIs`). So a round adds exactly what the two flights weigh
  (`RoundCommits`). The invariant (`NormInv`) also counts: all vectors are halved as often as there are flights, each time from too
  many entries, and the entries fall until the one place where the verifier expects the end (`RoundsEnd`).
  Of the bucket method: `BucketsAreTheSum`, for any bit width, table of window widths and terms. The digits of a scalar add up to it,
  running sums count each bucket as often as its digit says, and terms that are left out are zero.
* **Parallel_proofs.** `MapsLikeInline` and `ScopeHolds`, for any length, any number
  of threads and any set of panicking indices. The arithmetic part (`Covers`,
  `Chunks`, `Steady`) shows that chunks rounded up cover all indices and that an
  overlong last chunk is cut to nothing; the invariant says that the collected results
  are the indices `0 .. Cut(joined) - 1` in order, which each join extends
  by one chunk (`Glue`), and that the first payload is the first panicking
  index's, because workers are joined in order and each stops at its first panic.
  `AnswersLikeInline`, for any number of items, threads and hits: the
  flag is only set for a hit, and while it is clear every worker that ended
  has looked through its chunk; `ChunksCover` says that the chunks are all items. Stale
  loads need no argument: starting a chunk although the flag is set is harmless.
  `BatchesSum`, for any curve of odd order whose listed multiples add up. The formulas give the third
  point of a line: that it is on the curve and on the line is an identity of polynomials, split into terms the
  provers can compare (`ChordMeets`, `TangentMeets`), and there is only one, because a cubic with two
  known roots has one more (`SameThird`, `ThirdPoint`, `ChordSum`, `TangentSum`). Running products undo each other on the
  way back if no denominator vanishes (`BatchInverts`), and none does: equal abscissas were set apart before
  (`OneAbscissa`), and no point is its own negation where the group's order is odd (`NoHalf`).

### What the theorems assume

Assumptions on constants are stated where the constants are declared, and TLC evaluates
each of them on the instances it checks.

* The order is prime and covered by the limbs, a limb modulus is at most the order, and at most half of it for the carry
  argument (`AlgebraAssumption`, `PrimeOrder`, `ProofAssumption`; for secp256k1 and 24-bit limbs evident).
* Rosters are dealt: the shares of a gate's holders sum to it, and holders have different
  shares. No coincidence: no other combination of shares that an inbox has room for
  sums to a gate (`RosterDealt`, `DealingAssumption`). In a group of 256 bits such a coincidence between random shares is
  negligible; in a small one it may exist, and the statement would be false there.
* `OtherKeysMiss`: a key other than the recipient's leaves some limb above the bound. This
  is the same kind of coincidence, over the nonces.
* `CaseAssumption`: the case passed `CaseVerifies` and `BindAccepts`, the masks of its sum are not
  degenerate, its number of pieces times the limb modulus is at most the order, and its roster
  is dealt as above. `OtherKeysMissCase` is `OtherKeysMiss` for a limb of some piece and one of the sum.
  Without the first condition on the masks `CasePathsAgree` fails: that is the run `open_stripped`.
* `SealedAssumption`: rosters have a gate, and two with the same gates do not
  aggregate to one key; nonces are not zero; the cap of pieces times the limb modulus is
  at most the order; the masks of a case that binds do not sum to a degenerate one.
* `LogAssumption`, `MaskAssumption`: twice the largest screened bound and two rows beyond it stay below
  the order, and so does the bound of scalar multiples (2^32, 2^20 and 4096 against 2^256);
  masks are decoded, hence not the identity; the scans' supports go from 4 to 6, twice what a half holds
  (a longer scan would answer "related" at once).
* `RosterScreensAssumption`: the windows (64 and 8 in the code) are at least one and at most the scalar bound,
  hence below the order; keys are not the identity.
* `PedersenAssumption` types the parameters. `BlindingsUnrelated`: a signed sum of at most `PedersenPieceBound`
  blindings that does not cancel leaves nothing near a small multiple of `G`. This is a coincidence
  between random blindings, negligible in a group of 256 bits; only the theorem's last part,
  `OnlyRelationsRefused`, uses it.
* `CodecAssumption`, `SchnorrAssumption`: of a point and its negation one is even; 32 bytes spell
  every scalar, and a challenge is one.
* `PayloadAssumption`: what is sealed are scalars, and the contributions of a context's pieces sum to
  its target.
* `NormAssumption`: generators, coefficients and witnesses are vectors of scalars, a weight is not zero
  (`range_circuit.rs` rejects it), and folding stops at four entries or more (6 in the code).
* `MsmAssumption`: `ScalarBits` bits hold every scalar, and a window is at least one bit wide.
* `ProofNoncesAssumption`: byte strings, lists of announcements and the range proofs' messages are
  sequences; a secret's vectors have one length, which all secrets share (the code's `LIMB_COUNT`);
  the domain of a context is not empty; a range proof has four flights. `ShareAssumption`: calls
  are records of their fields, contexts, epochs and limbs sequences.
* `CurveAssumption`: the order of the curve's group is odd (secp256k1's is prime), and its multiples are points
  that add up, which is the associativity of the group law: the batches are compared with that law, whose
  own properties are taken from the literature.

### What is only model-checked

* *The other half of `PayloadRecovers`*: that bytes which are *not* intact fail, and under any key but the
  recipient's. That is a statement about coincidences of the mask hash, which an
  assumption would have to exclude for every alteration at once: it would assume what is to be shown.
* `TwoGatesRecover` says of a second instance what `RecoveryIsExact` and `QuorumsAreAuthorized`
  prove of any.
* *The range argument*: `RangeProofIsExact` is an identity of polynomials whose
  degree and coefficients depend on the constants.
* Liveness (`EveryCallEnds`, the liveness part of `ColdScreening`) and `ENABLED` are outside
  the prover's reach.

The type invariants of `CapsuleOpening`, `ScreeningCache`, `CaseLifecycle` and
`Parallel` are proved for every value of the constants (`TypeCorrect` in the
`_proofs` modules) and are not run as well.

## Disagreements between code and documentation

Three runs check a statement of the documentation that the code does not keep.

* `strip_verified` (`stripped.rs:424`): bind "mirrors `Case::verify` minus the
  per-piece proofs", but it runs the whole mask screen where verify runs the
  basic one. A case with a valid proof from a sealer that did not screen
  verifies and strips and never binds.
* `open_stripped` (`stripped.rs:534`): a verified case may be stripped and
  recovered with bind and unseal, but the masks of the *sum* are screened
  at unseal only. For random masks the chance is negligible.
* `bound_context_provable` (`stripped.rs:186`): bind checks the 64 KiB limit on
  the raw context, the proof on the framed one.

Noted while reading, and not findings. The folded probe's doc (`bsgs.rs:752`) says "`v` in
`[0, bound)`", but it knows a hit only up to its sign and accepts it if either candidate is
below the bound: the relation scans refuse a little more than documented and miss nothing. A case is described as up to 255 pieces (the
encoding's cap), while the cross-piece screen refuses more than six. A hint's
recovery fails on a partial that does not verify, where opening ignores it. The
ladder of the scalar scan also refuses some multiples just above its nominal bound
of 4096 (up to 4160). The residual nonces of the carry proof are drawn raw, unlike the
linking nonces: a generator that repeats its output answers them at two challenges
in two contexts. Only the linking and the contribution nonces are documented to survive that.

## Not modelled

* **Hash-to-curve and hashing.** Generators are constants and hashes injective
  terms; that logarithms between generators are unknown cannot be stated.
* **The proof system's soundness against any prover.** `SealProof`,
  `RangeCircuit` and `NormArg` take each other at their word, and a lying prover
  has the freedom the module gives it: other digits, counts, carries, limbs and
  targets, but no group element made without knowing its representation.
* **The order of `verify`'s checks, and how `seal` draws again** after a degenerate
  mask. A proof is refused whichever check comes first, and errors are told apart
  only where a property depends on it.
* **`matches_pinned`**, a comparison that recovery does not depend on; a
  serialised capsule's or case's byte layout (a wire form is the record of its
  fields); the magnitudes of unreduced field elements in `batch_affine.rs`; capacities that the
  scans reserve; how giant steps are batched and tables warmed.
* Benchmarks. Side channels and zeroization: not a matter of states.

## Plan

Done: every component in the table of the inventory, as far as the section above
allows, and the theorems above. What is left is the proof of `RangeProofIsExact`: that the fourth
flight cancels every power of `T` but the third is an identity of polynomials, whose coefficients are sums over the
constant circuit.
