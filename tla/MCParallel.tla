----------------------------- MODULE MCParallel -----------------------------
(***************************************************************************)
(* The parallel scans and the batched additions that their tasks make, for *)
(* TLC.  A behaviour is a call of one scan or a few batches, its subject;  *)
(* the others wait before an empty call.                                   *)
(***************************************************************************)
EXTENDS Parallel, BatchAffine

VARIABLE subject

allVars == <<subject, vars, scanVars, batchVars>>

AtMostTwo(len) == {s \in SUBSET (0 .. len - 1) : Cardinality(s) <= 2}

----------------------------------------------------------------------------
(* The map: every length up to five, cut by up to four workers (five items *)
(* in four chunks leave the last one empty), with at most two panicking    *)
(* tasks.                                                                  *)

MCInputs ==
  UNION { [len : {n}, requested : 1 .. MaxThreads, panics : AtMostTwo(n)] : n \in 0 .. 5 }

(* The scan for a hit: every length up to seven, with at most two hits.    *)

MCScans ==
  UNION { [len : {n}, requested : 1 .. MaxThreads, hits : AtMostTwo(n)] : n \in 0 .. 7 }

(* The batches: all points of y^2 = x^3 + 7 over the field of 43 elements, *)
(* a group of order 31.                                                    *)

MCMultiples ==
  << <<>>, <<2, 12>>, <<7, 7>>, <<35, 21>>, <<21, 18>>, <<12, 12>>, <<29, 31>>, <<25, 18>>,
     <<32, 40>>, <<20, 40>>, <<42, 7>>, <<40, 25>>, <<37, 36>>, <<13, 21>>, <<34, 40>>, <<38, 21>>,
     <<38, 22>>, <<34, 3>>, <<13, 22>>, <<37, 7>>, <<40, 18>>, <<42, 36>>, <<20, 3>>, <<32, 3>>,
     <<25, 25>>, <<29, 12>>, <<12, 31>>, <<21, 25>>, <<35, 22>>, <<7, 36>>, <<2, 31>> >>

MCPairs == { <<1, 2>>, <<5, 5>>, <<7, 24>>, <<30, 30>>, <<12, 19>>, <<3, 30>> }
MCBatches ==
  {<<>>} \cup {<<pair>> : pair \in MCPairs} \cup (MCPairs \X MCPairs)
    \cup { <<<<4, 4>>, <<27, 4>>, <<9, 4>>>>, <<<<27, 27>>, <<6, 25>>, <<4, 27>>>> }

----------------------------------------------------------------------------
Is(name) == subject = name

NoMap == Init /\ input.len = 0 /\ input.requested = 1
NoScan == ScanInit /\ scanned.len = 0 /\ scanned.requested = 1

MCInit ==
  \/ Is("map") /\ Init /\ NoScan /\ BatchInit
  \/ Is("scan") /\ NoMap /\ ScanInit /\ BatchInit
  \/ Is("batch") /\ NoMap /\ NoScan /\ BatchInit

Mapping(A) == Is("map") /\ A /\ UNCHANGED <<subject, scanVars, batchVars>>
Scanning(A) == Is("scan") /\ A /\ UNCHANGED <<subject, vars, batchVars>>
Adding(A) == Is("batch") /\ A /\ UNCHANGED <<subject, vars, scanVars>>

MCNext == Mapping(Next) \/ Scanning(ScanNext) \/ Adding(BatchNext)

\* The fairness of both scans, for the one that is the subject.
MCSpec ==
  /\ MCInit /\ [][MCNext]_allVars
  /\ WF_allVars(Mapping(Caller)) /\ WF_allVars(Scanning(ScanCaller))
  /\ \A w \in 0 .. MaxThreads - 1 :
       /\ WF_allVars(Mapping(w < Workers /\ RunTask(w)))
       /\ WF_allVars(Scanning(Scanner(w)))

----------------------------------------------------------------------------
\* Every call of either scan ends (parallel.rs, thread::scope).
EveryCallEnds == (Is("map") => Terminates) /\ (Is("scan") => ScanEnds)
=============================================================================
