------------------------------- MODULE CuBitmap -------------------------------
(***************************************************************************)
(* The compute-unit bitmap of package cuallocation.  A bitmap is the set   *)
(* of the CU indices whose bit is set; the package's 64-bit words are the  *)
(* subject of module CuWords.                                              *)
(***************************************************************************)
EXTENDS Integers, FiniteSets

\* The CUs of a GPU with `total' CUs.
CUs(total) == 0 .. total - 1

\* The CUs of the mask unit that starts at CU s: a WGP on RDNA (unit = 2).
UnitCUs(s, unit) == s .. s + unit - 1

\* n rounded up to a multiple of unit.
RoundUp(n, unit) == ((n + unit - 1) \div unit) * unit

\* The units that lie whole inside the GPU and have no CU in `used'.
FreeUnits(used, total, unit) ==
  {s \in CUs(total) : /\ s % unit = 0
                      /\ s + unit <= total
                      /\ UnitCUs(s, unit) \cap used = {}}

\* First fit: a free unit is taken when the free units below it do not cover n.
TakenUnits(used, total, n, unit) ==
  LET free == FreeUnits(used, total, unit)
  IN  {s \in free : Cardinality({t \in free : t < s}) * unit < RoundUp(n, unit)}

\* The delta bitmap AllocateN returns.
AllocateN(used, total, n, unit) ==
  UNION {UnitCUs(s, unit) : s \in TakenUnits(used, total, n, unit)}

\* AllocateN succeeds: n is positive and enough whole units are free.
CanAllocate(used, total, n, unit) ==
  /\ n > 0
  /\ Cardinality(TakenUnits(used, total, n, unit)) * unit = RoundUp(n, unit)

\* AddAllocation succeeds, and returns the union, only for disjoint bitmaps.
CanAdd(bits, delta) == bits \cap delta = {}

===============================================================================
