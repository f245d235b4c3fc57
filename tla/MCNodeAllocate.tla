---------------------------- MODULE MCNodeAllocate ----------------------------
(* Values of NodeAllocate's constants for TLC.                              *)
EXTENDS NodeAllocate, TLC

CONSTANTS p1, p2, p3, p4, g1, g2, h1, h2


Part(n) == [cores |-> n, mem |-> "part"]
Full(n) == [cores |-> n, mem |-> "full"]

PodSymmetry == Permutations(Pods)
HAMiSymmetry == Permutations(Pods \ Foreign)

\* Two GPUs: a CDNA one of 3 CUs, an RDNA one of 4 (two WGPs).
TotalCUs2 == g1 :> 3 @@ g2 :> 4
Unit2     == g1 :> 1 @@ g2 :> 2
\* One GPU whose CUs are masked one by one.
TotalCUs1 == g1 :> 3
Unit1     == g1 :> 1

\* Slices of two containers; a memory-only slice next to one that is rounded up, after a
\* container without a GPU; a slice next to a whole GPU; a whole GPU.
MixedJobs == {<<g1 :> Part(1), g1 :> Part(1)>>,
              <<NoSlots, g1 :> Part(0) @@ g2 :> Part(1)>>,
              <<g1 :> Part(1) @@ g2 :> Full(4)>>,
              <<g2 :> Full(4)>>}
\* The same on one GPU, for the longer runs.
SliceJobs == {<<g1 :> Part(1), g1 :> Part(1)>>, <<g1 :> Part(1)>>, <<g1 :> Full(3)>>}
\* Two containers with slices, and one without a GPU before one that takes it.
PairOrWhole == {<<g1 :> Part(1), g1 :> Part(1)>>, <<NoSlots, g1 :> Full(3)>>}

===============================================================================
