------------------------------- MODULE CuIDList -------------------------------
(***************************************************************************)
(* The CU annotation's ID list: allocationToIDList writes a bitmap as a    *)
(* list of ranges ("0-3,8"), idListToAllocation reads it back, possibly    *)
(* after a restart and against another CU count of the GPU.  A part of the *)
(* list is <<first, last>>, printed as one number when they are equal.     *)
(* CuAnnotation says which bitmaps are written and what must come back.    *)
(***************************************************************************)
EXTENDS Integers, Sequences

VARIABLES
  bits,         \* the bitmap written
  rest,         \* ids still to visit, in ascending order
  start, prev,  \* the run being extended
  parts,        \* the ranges written so far
  total,        \* CU count the list is read against
  alloc,        \* the bitmap read so far
  read,         \* parts read so far
  pc

vars == <<bits, rest, start, prev, parts, total, alloc, read, pc>>

Least(S) == CHOOSE x \in S : \A y \in S : x <= y

\* No id is set: the list is "0".
WriteNone ==
  /\ pc = "first" /\ rest = {}
  /\ parts' = <<<<0, 0>>>> /\ pc' = "read"
  /\ UNCHANGED <<bits, rest, start, prev, total, alloc, read>>

WriteFirst ==
  /\ pc = "first" /\ rest # {}
  /\ start' = Least(rest) /\ prev' = Least(rest)
  /\ rest' = rest \ {Least(rest)} /\ pc' = "write"
  /\ UNCHANGED <<bits, parts, total, alloc, read>>

\* The next id extends the run, or flushes it and starts another.
WriteNext ==
  /\ pc = "write" /\ rest # {}
  /\ LET id == Least(rest)
     IN  /\ IF id = prev + 1 THEN UNCHANGED <<start, parts>>
            ELSE parts' = Append(parts, <<start, prev>>) /\ start' = id
         /\ prev' = id /\ rest' = rest \ {id}
  /\ UNCHANGED <<bits, total, alloc, read, pc>>

WriteLast ==
  /\ pc = "write" /\ rest = {}
  /\ parts' = Append(parts, <<start, prev>>) /\ pc' = "read"
  /\ UNCHANGED <<bits, rest, start, prev, total, alloc, read>>

\* Mutant: a range may end one past the last CU.
InBoundsByOne(r) == 0 <= r[1] /\ r[1] <= r[2] /\ r[2] <= total
\* A part out of bounds fails the whole list.
InBounds(r) == 0 <= r[1] /\ r[1] <= r[2] /\ r[2] < total

ReadPart ==
  /\ pc = "read" /\ read < Len(parts)
  /\ LET r == parts[read + 1]
     IN  IF InBounds(r)
         THEN alloc' = alloc \cup r[1] .. r[2] /\ read' = read + 1 /\ UNCHANGED pc
         ELSE pc' = "error" /\ UNCHANGED <<alloc, read>>
  /\ UNCHANGED <<bits, rest, start, prev, parts, total>>

ReadEnd ==
  /\ pc = "read" /\ read = Len(parts) /\ pc' = "done"
  /\ UNCHANGED <<bits, rest, start, prev, parts, total, alloc, read>>

Next == WriteNone \/ WriteFirst \/ WriteNext \/ WriteLast \/ ReadPart \/ ReadEnd

===============================================================================
