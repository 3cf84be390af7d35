-------------------------- MODULE MCRunCompletion --------------------------
(* RunCompletion with one run and two StartRun calls for its key. Runs do  *)
(* not interact here (each has its own lock, registration and sandboxes).  *)
(* One of the calls names an existing sandbox.                             *)
EXTENDS RunCompletion

CONSTANTS r1, q1, q2

OneRun == {r1}
TwoRequests == {q1, q2}
SameKey == [q \in TwoRequests |-> r1]
OneReuses == {q2}
AllPolicies == {"keep", "stop", "remove"}
============================================================================
