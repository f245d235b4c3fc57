----------------------------- MODULE CuAnnotation -----------------------------
(***************************************************************************)
(* A GPU's compute units from AllocateN to the next rebuild of the         *)
(* occupancy: the delta is added to the pod's bitmap (CuWords), the bitmap *)
(* is written into the pod's annotation and read back (CuIDList).          *)
(***************************************************************************)
EXTENDS CuWords, Sequences

VARIABLES
  bits, rest, first, prev, parts,      \* allocationToIDList
  readTotal, readAlloc, read, stage    \* idListToAllocation; where both are

listVars == <<bits, rest, first, prev, parts, readTotal, readAlloc, read, stage>>

List == INSTANCE CuIDList WITH
  start <- first, total <- readTotal, alloc <- readAlloc, pc <- stage

AnnotationInit ==
  /\ Init
  /\ bits = {} /\ rest = {} /\ first = 0 /\ prev = 0 /\ parts = <<>>
  /\ readTotal = 0 /\ readAlloc = {} /\ read = 0 /\ stage = "none"

\* The pod's bitmap is persisted as it is left, also by a request that was refused;
\* the GPU may have another CU count when it is read.
Persist ==
  /\ stage = "none" /\ pc \in {"added", "clash", "error"}
  /\ stage' = "first" /\ bits' = Indices(into) /\ rest' = bits'
  /\ readTotal' \in 1 .. MaxCUs
  /\ UNCHANGED <<first, prev, parts, readAlloc, read>>

AnnotationNext ==
  \/ Next /\ UNCHANGED listVars
  \/ (Persist \/ List!Next) /\ UNCHANGED vars

AnnotationSpec == AnnotationInit /\ [][AnnotationNext]_<<vars, listVars>>

-------------------------------------------------------------------------------

\* A rebuild finds the CUs that were allocated and those the pod had before; only
\* an empty bitmap comes back as CU 0.
RebuildReadsAllocated ==
  stage = "done" =>
    readAlloc = IF pc = "added" THEN other \cup AllocateN(used, total, n, unit)
                ELSE IF other = {} THEN {0} ELSE other

\* A list is refused exactly when it names a CU the GPU does not have; it is never
\* cut to those that fit.
RefusedWhenTooLarge ==
  /\ stage = "error" => \E i \in bits : i >= readTotal
  /\ stage = "done" => \A i \in bits : i < readTotal

\* What was allocated survives the annotation, or is refused; it is never another set.
ReadBackIsFaithful == RebuildReadsAllocated /\ RefusedWhenTooLarge

\* The loops end: a unit of 0 must not make AllocateN spin.
Terminates == <>(stage \in {"done", "error"})

===============================================================================
