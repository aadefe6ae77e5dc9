----------------------------- MODULE SrbContract -----------------------------
(****************************************************************************)
(* What a queue of the driver promises Storport about its requests, with no *)
(* rings, doorbells, locks or DPC: a request that was accepted is executed  *)
(* by the controller, and completed once, after it was executed.            *)
(****************************************************************************)
CONSTANT Reqs

VARIABLE state   \* of each request: "idle", "accepted" or "executed"

Init == state = [r \in Reqs |-> "idle"]

Move(r, from, to) == state[r] = from /\ state' = [state EXCEPT ![r] = to]

\* SubmitCmd returns STATUS_SUCCESS, or will.
Accept(r) == Move(r, "idle", "accepted")

\* The controller has executed the command and said so.
Execute(r) == Move(r, "accepted", "executed")

\* CompleteSrb.
Complete(r) == Move(r, "executed", "idle")

Next == \E r \in Reqs : Accept(r) \/ Execute(r) \/ Complete(r)

Fairness == \A r \in Reqs : WF_state(Execute(r)) /\ WF_state(Complete(r))

Spec == Init /\ [][Next]_state /\ Fairness
=============================================================================
