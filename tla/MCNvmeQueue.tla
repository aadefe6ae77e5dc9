----------------------------- MODULE MCNvmeQueue -----------------------------
(* Instances of NvmeQueue for TLC. *)
EXTENDS NvmeQueue, TLC

CONSTANTS p1, p2, r1, r2, r3, r4

OneCpu  == {p1}
TwoCpus == {p1, p2}

\* The processors are alike; the requests are not, their CIDs differ.
CpuSymmetry == Permutations(TwoCpus)

TwoReqs   == {r1, r2}
ThreeReqs == {r1, r2, r3}
FourReqs  == {r1, r2, r3, r4}

\* An I/O queue: Storport gives every outstanding request its own queue tag.
UniqueCids2 == (r1 :> 0) @@ (r2 :> 1)
UniqueCids3 == (r1 :> 0) @@ (r2 :> 1) @@ (r3 :> 2)
UniqueCids4 == (r1 :> 0) @@ (r2 :> 1) @@ (r3 :> 2) @@ (r4 :> 3)
\* The admin queue: two commands the driver builds for itself have no SRB and so
\* tag 0, and a firmware request may have tag 0 too; r3's tag is past History.
SharedCids3 == (r1 :> 0) @@ (r2 :> 0) @@ (r3 :> 7)
SharedCids2 == (r1 :> 0) @@ (r2 :> 0)
=============================================================================
