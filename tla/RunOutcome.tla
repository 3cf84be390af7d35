----------------------------- MODULE RunOutcome -----------------------------
(***************************************************************************)
(* What the run records promise a client (pkg/runs/completion.go: "The run *)
(* still reaches the terminal state its first completion writer selected"):*)
(* a result is selected at most once per run, and the terminal status that *)
(* is published later is the selected one and final.                       *)
(***************************************************************************)
CONSTANT Runs

VARIABLES decision, published

vars == <<decision, published>>

Results == {"succeeded", "failed", "canceled"}

Init ==
    /\ decision = [r \in Runs |-> "open"]
    /\ published = {}

(* The first completion writer selects the result of r.                    *)
Decide(r) ==
    /\ decision[r] = "open"
    /\ \E t \in Results : decision' = [decision EXCEPT ![r] = t]
    /\ UNCHANGED published

(* The selected result becomes the terminal status of r.                   *)
Publish(r) ==
    /\ decision[r] # "open" /\ r \notin published
    /\ published' = published \cup {r}
    /\ UNCHANGED decision

Next == \E r \in Runs : Decide(r) \/ Publish(r)

Spec == Init /\ [][Next]_vars
=============================================================================
