----------------------------- MODULE MCSliceGuards -----------------------------
(* Values of SliceGuards' constants for TLC.                                    *)
EXTENDS SliceGuards

CONSTANTS p1, p2, g1, g2

Slice(name, gpus, mem) == [name |-> name, gpus |-> gpus, mem |-> mem]

\* g2 has no VRAM region.  The containers of p1 share g1 with different limits; p2 names
\* the first image otherwise.
MCPlan ==
  [p \in Pods |-> IF p = p1 THEN <<Slice("app", {g1}, 1), Slice("other", {g1}, 2)>>
                  ELSE <<Slice("docker.io/library/app:latest", {g1, g2}, 3)>>]

MCImageOf ==
  [n \in {"app", "docker.io/library/app:latest", "other"} |-> IF n = "other" THEN "i2" ELSE "i1"]

On(b, e, p) == [base |-> b, extra |-> e, program |-> p]
Both(i1, i2) == [i \in Images |-> IF i = "i1" THEN i1 ELSE i2]
\* Ordinary images, and programs that are static or use the added library.
MCContents ==
  {Both(On("debian", "musl", "distribution"), On("alpine", "vendored", "distribution")),
   Both(On("alpine", "none", "distribution"), On("static", "vendored", "added")),
   Both(On("centos7", "vendored", "distribution"), On("debian", "none", "static")),
   Both(On("static", "none", "static"), On("loader", "none", "static")),
   Both(On("loader", "vendored", "distribution"), On("centos7", "musl", "added"))}

===============================================================================
