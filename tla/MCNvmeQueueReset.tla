--------------------------- MODULE MCNvmeQueueReset ---------------------------
(* Instances of NvmeQueueReset for TLC. *)
EXTENDS NvmeQueueReset, TLC

CONSTANTS p1, r1, r2

OneCpu  == {p1}
TwoReqs == {r1, r2}
UniqueCids2 == (r1 :> 0) @@ (r2 :> 1)

\* Bound of the state space: the system is followed until its last reset has gone
\* through History and is about to move CplHead.
UntilSwept ==
    /\ rst.pc \notin {"store", "flip"}
    /\ rst.pc # "idle" \/ rst.calls < MaxResets
=============================================================================
