---------------------------- MODULE ColdScreening ----------------------------
(***************************************************************************)
(* Screening without caches or concurrency: every call is answered by the  *)
(* verdict of its argument, whatever other calls are under way.            *)
(***************************************************************************)
CONSTANTS
  Threads,
  Calls,         \* what a thread may ask
  Verdict(_),    \* the answer to each call
  Nothing        \* no call, no answer

VARIABLES
  asked,         \* the call of each thread that waits for its answer
  answer         \* the last answer each thread got

vars == <<asked, answer>>

TypeOK ==
  /\ asked \in [Threads -> Calls \cup {Nothing}]
  /\ answer \in [Threads -> {Verdict(q) : q \in Calls} \cup {Nothing}]

Init ==
  /\ asked = [t \in Threads |-> Nothing]
  /\ answer = [t \in Threads |-> Nothing]

Ask(t, q) ==
  /\ asked[t] = Nothing
  /\ asked' = [asked EXCEPT ![t] = q]
  /\ answer' = [answer EXCEPT ![t] = Nothing]

Reply(t) ==
  /\ asked[t] # Nothing
  /\ answer' = [answer EXCEPT ![t] = Verdict(asked[t])]
  /\ asked' = [asked EXCEPT ![t] = Nothing]

Next == \E t \in Threads : Reply(t) \/ \E q \in Calls : Ask(t, q)

Safety == Init /\ [][Next]_vars

Spec == Safety /\ \A t \in Threads : WF_vars(Reply(t))
=============================================================================
