------------------------------- MODULE CuWords --------------------------------
(***************************************************************************)
(* Package cuallocation as it runs: AllocateN's loop over a bitmap kept in *)
(* machine words, then AddAllocation of its delta to another bitmap.  The  *)
(* operators of CuBitmap say what these return.                            *)
(***************************************************************************)
EXTENDS CuBitmap

CONSTANTS
  BitsPerWord,  \* 64 in the code
  MaxCUs,       \* bound on the CUs of a GPU
  MaxUnit       \* bound on the mask unit; the code uses 1 and 2

ASSUME BoundsAssumption == {BitsPerWord, MaxCUs, MaxUnit} \subseteq Nat \ {0}

VARIABLES
  total, n, unit,       \* AllocateN's parameters; n and unit are normalised by it
  alloc, delta,         \* allocation and allocatedDelta, words of bits
  start, count,         \* the loop's start and allocatedCount
  into,                 \* AddAllocation's first argument and result
  pc,
  used, other           \* what alloc and into held at first

vars == <<total, n, unit, alloc, delta, start, count, into, pc, used, other>>

WordsFor(t) == (t + BitsPerWord - 1) \div BitsPerWord
Bitmap(S, t) == [w \in 0 .. WordsFor(t) - 1 |->
                   {b \in 0 .. BitsPerWord - 1 : w * BitsPerWord + b \in S}]
Indices(a) == UNION {{w * BitsPerWord + b : b \in a[w]} : w \in DOMAIN a}
IsSet(a, i) == i % BitsPerWord \in a[i \div BitsPerWord]
Or(a, d) == [w \in DOMAIN a |-> a[w] \cup d[w]]

Init ==
  /\ total \in 1 .. MaxCUs /\ n \in 0 .. MaxCUs + 1 /\ unit \in 0 .. MaxUnit
  /\ used \in SUBSET CUs(total) /\ other = {}
  /\ alloc = Bitmap(used, total)
  /\ delta = Bitmap({}, total) /\ into = Bitmap({}, total)
  /\ start = 0 /\ count = 0 /\ pc = "enter"

\* n must be positive; a unit of 0 is taken as 1; n is rounded up to whole units.
Enter ==
  /\ pc = "enter"
  /\ IF n <= 0 THEN pc' = "error" /\ UNCHANGED <<n, unit>>
     ELSE /\ unit' = (IF unit <= 0 THEN 1 ELSE unit)
          /\ n' = RoundUp(n, unit')
          /\ pc' = "scan"
  /\ UNCHANGED <<total, alloc, delta, start, count, into, used, other>>

Scanning == start + unit <= total /\ count < n
\* Mutant: only a unit's first CU is looked at.
UnitFreeFirst == ~IsSet(alloc, start)
UnitFree == \A i \in UnitCUs(start, unit) : ~IsSet(alloc, i)

\* Mutant: a unit in use is not stepped over.
ScanSticks ==
  /\ pc = "scan" /\ Scanning /\ UnitFree
  /\ delta' = Or(delta, Bitmap(UnitCUs(start, unit), total)) /\ count' = count + unit
  /\ start' = start + unit
  /\ UNCHANGED <<total, n, unit, alloc, into, pc, used, other>>
\* One turn of the loop: a unit with a CU in use is stepped over.
Scan ==
  /\ pc = "scan" /\ Scanning
  /\ IF UnitFree THEN /\ delta' = Or(delta, Bitmap(UnitCUs(start, unit), total))
                      /\ count' = count + unit
     ELSE UNCHANGED <<delta, count>>
  /\ start' = start + unit
  /\ UNCHANGED <<total, n, unit, alloc, into, pc, used, other>>

\* Commit is all or nothing.
Finish ==
  /\ pc = "scan" /\ ~Scanning
  /\ IF count # n THEN pc' = "error" /\ UNCHANGED alloc
     ELSE pc' = "allocated" /\ alloc' = Or(alloc, delta)
  /\ UNCHANGED <<total, n, unit, delta, start, count, into, used, other>>

\* AddAllocation of the delta, refused when any word has a bit twice.
Add ==
  /\ pc = "allocated"
  /\ other' \in SUBSET CUs(total)
  /\ LET b == Bitmap(other', total)
     IN  IF \E w \in DOMAIN b : delta[w] \cap b[w] # {}
         THEN pc' = "clash" /\ into' = b
         ELSE pc' = "added" /\ into' = Or(b, delta)
  /\ UNCHANGED <<total, n, unit, alloc, delta, start, count, used>>

Next == Enter \/ Scan \/ Finish \/ Add

-------------------------------------------------------------------------------
(* Properties                                                              *)

\* AllocateN takes first-fit whole units of free CUs: what CuBitmap's operators
\* say, for every bitmap, also across word boundaries and past an odd last CU.
AllocatesFirstFit ==
  pc \in {"allocated", "added", "clash"} =>
    /\ CanAllocate(used, total, n, unit)
    /\ Indices(delta) = AllocateN(used, total, n, unit)
    /\ Indices(alloc) = used \cup Indices(delta)

\* On error the allocation is left unchanged, and there really was no room.
ErrorLeavesUnchanged ==
  pc = "error" => ~CanAllocate(used, total, n, unit) /\ Indices(alloc) = used

\* AddAllocation returns the union of disjoint bitmaps and refuses others untouched.
AddsDisjoint ==
  /\ pc = "added" => /\ CanAdd(other, Indices(delta))
                     /\ Indices(into) = other \cup Indices(delta)
  /\ pc = "clash" => ~CanAdd(other, Indices(delta)) /\ Indices(into) = other

\* The code's loops over words do what NodeAllocate takes them to do.
WordsAgreeWithSets == AllocatesFirstFit /\ ErrorLeavesUnchanged /\ AddsDisjoint

===============================================================================
