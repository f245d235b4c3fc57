-------------------------- MODULE CuAnnotation_proofs --------------------------
(***************************************************************************)
(* Of CuWords and CuAnnotation, for words of any size, GPUs of any number  *)
(* of CUs and every mask unit: the loops over words do what the operators  *)
(* of CuBitmap say, and what was allocated is read back from the           *)
(* annotation or refused.                                                  *)
(***************************************************************************)
EXTENDS CuAnnotation, CuBitmap_proofs

-------------------------------------------------------------------------------
(* Words of bits are sets of CUs                                           *)

\* Every CU of the GPU has its bit in some word.
LEMMA BitOfCU ==
  ASSUME NEW t \in Nat, NEW i \in CUs(t)
  PROVE  \E w \in 0 .. WordsFor(t) - 1, b \in 0 .. BitsPerWord - 1 :
           i = w * BitsPerWord + b /\ i \div BitsPerWord = w /\ i % BitsPerWord = b
<1>1. BitsPerWord \in Nat \ {0} /\ i \in Nat /\ i < t
  BY BoundsAssumption DEF CUs
<1>2. PICK k \in Nat, m \in 0 .. BitsPerWord - 1 :
        t + BitsPerWord - 1 = k * BitsPerWord + m /\ (t + BitsPerWord - 1) \div BitsPerWord = k
  <2>1. t + BitsPerWord - 1 \in Nat
    BY <1>1
  <2> QED BY <1>1, <2>1, Division
<1>3. WordsFor(t) = k
  BY <1>2 DEF WordsFor
<1>4. PICK q \in Nat, r \in 0 .. BitsPerWord - 1 :
        i = q * BitsPerWord + r /\ i \div BitsPerWord = q /\ i % BitsPerWord = r
  BY <1>1, Division
<1>5. q < k
  <2>1. t <= k * BitsPerWord
    BY <1>1, <1>2
  <2>2. q * BitsPerWord < k * BitsPerWord
    BY <1>1, <1>4, <2>1
  <2> QED BY <1>1, <2>2
<1> QED BY <1>3, <1>4, <1>5

LEMMA IndicesOfBitmap ==
  ASSUME NEW t \in Nat, NEW S \in SUBSET CUs(t) PROVE Indices(Bitmap(S, t)) = S
<1>1. ASSUME NEW i \in S PROVE i \in Indices(Bitmap(S, t))
  BY BitOfCU DEF Indices, Bitmap
<1>2. Indices(Bitmap(S, t)) \subseteq S
  BY DEF Indices, Bitmap
<1> QED BY <1>1, <1>2

LEMMA IsSetInBitmap ==
  ASSUME NEW t \in Nat, NEW S \in SUBSET CUs(t), NEW i \in CUs(t)
  PROVE  IsSet(Bitmap(S, t), i) <=> i \in S
  BY BitOfCU DEF IsSet, Bitmap

LEMMA OrOfBitmaps ==
  ASSUME NEW t, NEW S, NEW R PROVE Or(Bitmap(S, t), Bitmap(R, t)) = Bitmap(S \cup R, t)
  BY DEF Or, Bitmap

LEMMA ClashOfBitmaps ==
  ASSUME NEW t \in Nat, NEW S \in SUBSET CUs(t), NEW R \in SUBSET CUs(t)
  PROVE  (\E w \in DOMAIN Bitmap(R, t) : Bitmap(S, t)[w] \cap Bitmap(R, t)[w] # {})
           <=> S \cap R # {}
<1>1. ASSUME NEW i \in S \cap R
      PROVE  \E w \in DOMAIN Bitmap(R, t) : Bitmap(S, t)[w] \cap Bitmap(R, t)[w] # {}
  BY BitOfCU DEF Bitmap
<1>2. ASSUME NEW w \in DOMAIN Bitmap(R, t), NEW b \in Bitmap(S, t)[w] \cap Bitmap(R, t)[w]
      PROVE  S \cap R # {}
  BY DEF Bitmap
<1> QED BY <1>1, <1>2

-------------------------------------------------------------------------------
(* AllocateN's loop                                                        *)

\* The free units that start below the loop's position.
Passed == {s \in FreeUnits(used, total, unit) : s < start}

Allocated == AllocateN(used, total, n, unit)

\* In the loop: the free units passed so far have been taken, no more than asked for,
\* each because those below it did not cover n.
ScanInv ==
  /\ n > 0 /\ n % unit = 0 /\ start % unit = 0 /\ count % unit = 0 /\ count <= n
  /\ count = Cardinality(Passed) * unit
  /\ delta = Bitmap(UNION {UnitCUs(s, unit) : s \in Passed}, total)
  /\ Passed \subseteq TakenUnits(used, total, n, unit)

\* Which set every bitmap stands for, at each place of the two functions.
WordsInv ==
  /\ total \in Nat /\ n \in Nat /\ unit \in Nat /\ start \in Nat /\ count \in Nat
  /\ used \in SUBSET CUs(total) /\ other \in SUBSET CUs(total)
  /\ pc \in {"enter", "scan", "allocated", "added", "clash", "error"}
  /\ pc \notin {"enter", "error"} => unit > 0
  /\ pc \in {"enter", "scan", "error"} => alloc = Bitmap(used, total)
  /\ pc \in {"enter", "scan", "allocated", "error"} => into = Bitmap({}, total) /\ other = {}
  /\ pc = "enter" => start = 0 /\ count = 0 /\ delta = Bitmap({}, total)
  /\ pc = "scan" => ScanInv
  /\ pc \in {"allocated", "added", "clash"} =>
       /\ CanAllocate(used, total, n, unit) /\ delta = Bitmap(Allocated, total)
       /\ alloc = Bitmap(used \cup Allocated, total)
  /\ pc = "added" => CanAdd(other, Allocated) /\ into = Bitmap(other \cup Allocated, total)
  /\ pc = "clash" => ~CanAdd(other, Allocated) /\ into = Bitmap(other, total)
  /\ pc = "error" => ~CanAllocate(used, total, n, unit)

\* A unit of no CU being used is what the loop sees in the words.
LEMMA UnitFreeInSets ==
  ASSUME WordsInv, pc = "scan", Scanning
  PROVE  UnitFree <=> start \in FreeUnits(used, total, unit)
<1>1. ASSUME NEW i \in UnitCUs(start, unit) PROVE IsSet(alloc, i) <=> i \in used
  <2>1. i \in CUs(total)
    BY DEF WordsInv, Scanning, UnitCUs, CUs
  <2> QED BY <2>1, IsSetInBitmap DEF WordsInv
<1>2. start \in CUs(total) /\ start % unit = 0 /\ start + unit <= total
  BY DEF WordsInv, ScanInv, Scanning, CUs
<1> QED BY <1>1, <1>2 DEF UnitFree, FreeUnits

\* The free units below the next position are those below this one and this one.
LEMMA PassedNext ==
  ASSUME WordsInv, pc = "scan", start' = start + unit, UNCHANGED <<used, total, unit>>
  PROVE  Passed' = Passed \cup ({start} \cap FreeUnits(used, total, unit))
<1>1. ASSUME NEW s \in FreeUnits(used, total, unit), s < start + unit, s # start
      PROVE  s < start
  <2>1. s \in Nat /\ s % unit = 0 /\ start \in Nat /\ start % unit = 0 /\ unit \in Nat \ {0}
    BY DEF FreeUnits, WordsInv, ScanInv, CUs
  <2>2. CASE start < s
    <3>1. start + unit <= s
      BY <2>1, <2>2, MultiplesApart
    <3> QED BY <1>1, <2>1, <3>1
  <2> QED BY <1>1, <2>1, <2>2
<1>2. start < start + unit /\ \A s \in FreeUnits(used, total, unit) : s < start => s < start + unit
  BY DEF WordsInv, FreeUnits, CUs
<1> QED BY <1>1, <1>2 DEF Passed

\* One turn of the loop keeps what it has established.
LEMMA ScanKeeps ==
  ASSUME WordsInv, Scan PROVE WordsInv'
<1> DEFINE F == FreeUnits(used, total, unit)
           P == {s \in F : s < start}
<1>1. /\ pc = "scan" /\ pc' = "scan" /\ start' = start + unit /\ start + unit <= total
      /\ count < n /\ count' \in {count, count + unit} /\ Scanning
      /\ UNCHANGED <<total, n, unit, alloc, into, used, other>>
  BY DEF Scan, Scanning
<1>2. /\ total \in Nat /\ n \in Nat /\ unit \in Nat \ {0} /\ start \in Nat /\ count \in Nat
      /\ used \in SUBSET CUs(total) /\ ScanInv
  BY <1>1 DEF WordsInv
<1>3. IsFiniteSet(P) /\ Cardinality(P) \in Nat
  BY <1>2, FreeUnitsFinite
<1>4. n % unit = 0 /\ count % unit = 0 /\ start % unit = 0 /\ count = Cardinality(P) * unit
      /\ P \subseteq TakenUnits(used, total, n, unit) /\ RoundUp(n, unit) = n
      /\ delta = Bitmap(UNION {UnitCUs(s, unit) : s \in P}, total)
  BY <1>2, RoundsUp DEF ScanInv, Passed
<1>5. start' % unit = 0
  BY <1>1, <1>2, <1>4, NextMultiple
<1>6. Passed' = P \cup ({start} \cap F)
  BY <1>1, PassedNext DEF Passed
<1>7. CASE start \in F
  <2>1. delta' = Or(delta, Bitmap(UnitCUs(start, unit), total)) /\ count' = count + unit
    BY <1>1, <1>7, UnitFreeInSets DEF Scan
  <2>2. Passed' = P \cup {start} /\ start \notin P
    BY <1>2, <1>6, <1>7
  <2>3. Cardinality(Passed') = Cardinality(P) + 1
    BY <1>3, <2>2, FS_AddElement
  <2>4. count' = Cardinality(Passed') * unit
    BY <1>2, <1>3, <1>4, <2>1, <2>3
  <2>5. delta' = Bitmap(UNION {UnitCUs(s, unit) : s \in Passed'}, total)
    BY <1>4, <2>1, <2>2, OrOfBitmaps
  <2>6. start \in TakenUnits(used, total, n, unit)
    BY <1>1, <1>4, <1>7 DEF TakenUnits
  <2>7. count' % unit = 0 /\ count' <= n
    BY <1>1, <1>2, <1>4, <2>1, NextMultiple, MultiplesApart
  <2> QED
    BY <1>1, <1>2, <1>4, <1>5, <2>1, <2>2, <2>4, <2>5, <2>6, <2>7 DEF WordsInv, ScanInv
<1>8. CASE start \notin F
  <2>1. UNCHANGED <<delta, count>>
    BY <1>1, <1>8, UnitFreeInSets DEF Scan
  <2>2. Passed' = P
    BY <1>6, <1>8
  <2> QED
    BY <1>1, <1>2, <1>4, <1>5, <2>1, <2>2 DEF WordsInv, ScanInv
<1> QED BY <1>7, <1>8

\* Where the loop ends, the units passed are those first fit takes, or there were too few.
LEMMA FinishKeeps ==
  ASSUME WordsInv, Finish PROVE WordsInv'
<1> DEFINE F == FreeUnits(used, total, unit)
           P == {s \in F : s < start}
           T == TakenUnits(used, total, n, unit)
<1>1. /\ pc = "scan" /\ ~Scanning
      /\ UNCHANGED <<total, n, unit, delta, start, count, into, used, other>>
  BY DEF Finish
<1>2. /\ total \in Nat /\ n \in Nat /\ unit \in Nat \ {0} /\ start \in Nat /\ count \in Nat
      /\ used \in SUBSET CUs(total) /\ ScanInv
  BY <1>1 DEF WordsInv
<1>3. IsFiniteSet(P) /\ Cardinality(P) \in Nat
  BY <1>2, FreeUnitsFinite
<1>4. n > 0 /\ count <= n /\ count = Cardinality(P) * unit /\ P \subseteq T /\ T \subseteq F
      /\ RoundUp(n, unit) = n
      /\ delta = Bitmap(UNION {UnitCUs(s, unit) : s \in P}, total)
  BY <1>2, RoundsUp DEF ScanInv, Passed, TakenUnits
<1>5. CASE count = n
  <2>1. ASSUME NEW s \in T, s \notin P PROVE FALSE
    <3>1. s \in F /\ s \in Nat /\ s >= start
      BY <1>2, <1>4, <2>1 DEF FreeUnits, CUs
    <3> DEFINE B == {t \in F : t < s}
    <3>2. B \in SUBSET F /\ P \in SUBSET B
      BY <1>2, <3>1 DEF FreeUnits, CUs
    <3>3. IsFiniteSet(B) /\ Cardinality(B) \in Nat /\ Cardinality(P) <= Cardinality(B)
      BY <1>2, <3>2, FreeUnitsFinite, FS_Subset
    <3>4. Cardinality(B) * unit < n
      BY <1>4, <2>1 DEF TakenUnits
    <3> HIDE DEF B, P
    <3>5. Cardinality(P) * unit <= Cardinality(B) * unit
      BY <1>2, <1>3, <3>3
    <3> QED BY <1>2, <1>3, <1>4, <1>5, <3>3, <3>4, <3>5
  <2>2. T = P
    BY <1>4, <2>1
  <2>3. CanAllocate(used, total, n, unit)
    BY <1>4, <1>5, <2>2 DEF CanAllocate
  <2>4. delta = Bitmap(Allocated, total)
    BY <1>4, <2>2 DEF Allocated, AllocateN
  <2>5. pc' = "allocated" /\ alloc' = Bitmap(used \cup Allocated, total)
    BY <1>1, <1>5, <2>4, OrOfBitmaps DEF Finish, WordsInv
  <2> QED BY <1>1, <1>2, <2>3, <2>4, <2>5 DEF WordsInv, Allocated
<1>6. CASE count # n
  <2>1. start + unit > total
    BY <1>1, <1>2, <1>4, <1>6 DEF Scanning
  <2>2. F \subseteq P
    BY <1>2, <2>1 DEF FreeUnits, CUs
  <2>3. T = P
    BY <1>4, <2>2
  <2>4. ~CanAllocate(used, total, n, unit)
    BY <1>4, <1>6, <2>3 DEF CanAllocate
  <2>5. pc' = "error" /\ alloc' = alloc
    BY <1>1, <1>6 DEF Finish
  <2> QED BY <1>1, <1>2, <2>4, <2>5 DEF WordsInv
<1> QED BY <1>5, <1>6

LEMMA EnterKeeps ==
  ASSUME WordsInv, Enter PROVE WordsInv'
<1>1. /\ pc = "enter" /\ start = 0 /\ count = 0 /\ delta = Bitmap({}, total)
      /\ UNCHANGED <<total, alloc, delta, start, count, into, used, other>>
  BY DEF Enter, WordsInv
<1>2. total \in Nat /\ n \in Nat /\ unit \in Nat /\ used \in SUBSET CUs(total)
  BY DEF WordsInv
<1>3. CASE n <= 0
  <2>1. pc' = "error" /\ UNCHANGED <<n, unit>>
    BY <1>1, <1>3 DEF Enter
  <2>2. ~CanAllocate(used, total, n, unit)
    BY <1>2, <1>3 DEF CanAllocate
  <2> QED BY <1>1, <1>2, <2>1, <2>2 DEF WordsInv
<1>4. CASE n > 0
  <2> DEFINE u == IF unit <= 0 THEN 1 ELSE unit
  <2>1. pc' = "scan" /\ unit' = u /\ n' = RoundUp(n, u)
    BY <1>1, <1>2, <1>4 DEF Enter
  <2>2. u \in Nat \ {0}
    BY <1>2
  <2> HIDE DEF u
  <2>3. n' \in Nat /\ n' % u = 0 /\ n' > 0
    BY <1>2, <1>4, <2>1, <2>2, RoundsUp
  <2>4. 0 % u = 0 /\ 0 * u = 0
    BY <2>2, MultipleOf
  <2>5. Passed' = {}
    BY <1>1 DEF Passed, FreeUnits, CUs
  <2>6. Cardinality(Passed') = 0 /\ UNION {UnitCUs(s, u) : s \in Passed'} = {}
    BY <2>5, FS_EmptySet
  <2>7. ScanInv'
    BY <1>1, <2>1, <2>3, <2>4, <2>5, <2>6 DEF ScanInv
  <2> QED BY <1>1, <1>2, <2>1, <2>2, <2>3, <2>7 DEF WordsInv
<1> QED BY <1>2, <1>3, <1>4

LEMMA AddKeeps ==
  ASSUME WordsInv, Add PROVE WordsInv'
<1>1. /\ pc = "allocated" /\ other' \in SUBSET CUs(total)
      /\ UNCHANGED <<total, n, unit, alloc, delta, start, count, used>>
  BY DEF Add
<1>2. total \in Nat /\ unit \in Nat /\ delta = Bitmap(Allocated, total)
      /\ Allocated \in SUBSET CUs(total)
  BY <1>1, AllocatedInside DEF WordsInv, Allocated
<1> DEFINE O == other'
           clash == \E w \in DOMAIN Bitmap(O, total) : delta[w] \cap Bitmap(O, total)[w] # {}
<1>3. clash <=> ~CanAdd(O, Allocated)
  BY <1>1, <1>2, ClashOfBitmaps DEF CanAdd
<1>4. IF clash THEN pc' = "clash" /\ into' = Bitmap(O, total)
      ELSE pc' = "added" /\ into' = Bitmap(O \cup Allocated, total)
  BY <1>2, OrOfBitmaps DEF Add
<1>5. Allocated' = Allocated
  BY <1>1 DEF Allocated
<1> HIDE DEF clash
<1> QED BY <1>1, <1>3, <1>4, <1>5 DEF WordsInv

LEMMA WordsInit == Init => WordsInv
  BY BoundsAssumption DEF Init, WordsInv

LEMMA WordsStep == WordsInv /\ [Next]_vars => WordsInv'
<1> SUFFICES ASSUME WordsInv, [Next]_vars PROVE WordsInv'
  OBVIOUS
<1>1. CASE Enter
  BY <1>1, EnterKeeps
<1>2. CASE Scan
  BY <1>2, ScanKeeps
<1>3. CASE Finish
  BY <1>3, FinishKeeps
<1>4. CASE Add
  BY <1>4, AddKeeps
<1>5. CASE UNCHANGED vars
  BY <1>5 DEF vars, WordsInv, ScanInv, Passed, Allocated
<1> QED BY <1>1, <1>2, <1>3, <1>4, <1>5 DEF Next

LEMMA WordsAgree == WordsInv => WordsAgreeWithSets
<1> SUFFICES ASSUME WordsInv PROVE WordsAgreeWithSets
  OBVIOUS
<1>1. /\ total \in Nat /\ unit \in Nat /\ used \in SUBSET CUs(total)
      /\ other \in SUBSET CUs(total)
  BY DEF WordsInv
<1>2. Allocated \in SUBSET CUs(total)
  BY <1>1, AllocatedInside DEF Allocated
<1>3. AllocatesFirstFit
  <2> SUFFICES ASSUME pc \in {"allocated", "added", "clash"}
               PROVE  /\ CanAllocate(used, total, n, unit)
                      /\ Indices(delta) = Allocated
                      /\ Indices(alloc) = used \cup Indices(delta)
    BY DEF AllocatesFirstFit, Allocated
  <2>1. Indices(delta) = Allocated /\ Indices(alloc) = used \cup Allocated
    BY <1>1, <1>2, IndicesOfBitmap DEF WordsInv
  <2> QED BY <2>1 DEF WordsInv
<1>4. ErrorLeavesUnchanged
  BY <1>1, IndicesOfBitmap DEF ErrorLeavesUnchanged, WordsInv
<1>5. AddsDisjoint
  <2>1. CASE pc = "added"
    <3>1. Indices(delta) = Allocated /\ Indices(into) = other \cup Allocated
      BY <1>1, <1>2, <2>1, IndicesOfBitmap DEF WordsInv
    <3> QED BY <2>1, <3>1 DEF WordsInv, AddsDisjoint
  <2>2. CASE pc = "clash"
    <3>1. Indices(delta) = Allocated /\ Indices(into) = other
      BY <1>1, <1>2, <2>2, IndicesOfBitmap DEF WordsInv
    <3> QED BY <2>2, <3>1 DEF WordsInv, AddsDisjoint
  <2> QED BY <2>1, <2>2 DEF AddsDisjoint
<1> QED BY <1>3, <1>4, <1>5 DEF WordsAgreeWithSets

-------------------------------------------------------------------------------
(* The ID list                                                             *)

\* The ids named by the first k ranges of a list.
RangesUpTo(ps, k) == UNION {ps[j][1] .. ps[j][2] : j \in 1 .. k}

\* What the list of a bitmap names: CU 0 if no bit is set.
Listed == IF bits = {} THEN {0} ELSE bits

\* The ranges written, the run being extended and the ids still to come make up the
\* bitmap; the parts read so far lie inside the GPU.
ListInv ==
  /\ bits \in SUBSET Nat /\ rest \in SUBSET bits /\ first \in Nat /\ prev \in Nat
  /\ parts \in Seq(Nat \X Nat) /\ \A j \in 1 .. Len(parts) : parts[j][1] <= parts[j][2]
  /\ readTotal \in Nat /\ read \in Nat
  /\ stage \in {"none", "first", "write", "read", "error", "done"}
  /\ stage # "none" => /\ pc \in {"added", "clash", "error"} /\ bits = Indices(into)
                       /\ readTotal > 0
  /\ stage \in {"none", "first"} => parts = <<>> /\ rest = bits
  /\ stage \in {"none", "first", "write"} => read = 0 /\ readAlloc = {}
  /\ stage = "write" => /\ bits = RangesUpTo(parts, Len(parts)) \cup (first .. prev) \cup rest
                        /\ first <= prev /\ \A i \in rest : prev < i
  /\ stage \in {"read", "error", "done"} =>
       /\ RangesUpTo(parts, Len(parts)) = Listed /\ read <= Len(parts)
       /\ readAlloc = RangesUpTo(parts, read) /\ \A i \in readAlloc : i < readTotal
  /\ stage = "error" => \E i \in Listed : readTotal <= i
  /\ stage = "done" => read = Len(parts)

\* Least, of a set that is not empty, is its least element.
LEMMA LeastInSet ==
  ASSUME NEW S \in SUBSET Nat, S # {}
  PROVE  List!Least(S) \in S /\ \A y \in S : List!Least(S) <= y
<1>1. \E x \in S : \A y \in S : x <= y
  BY LeastNatural
<1> QED BY <1>1 DEF List!Least

\* A range more, read or written.
LEMMA RangesNext ==
  ASSUME NEW ps, NEW k \in Nat
  PROVE  RangesUpTo(ps, k + 1) = RangesUpTo(ps, k) \cup (ps[k + 1][1] .. ps[k + 1][2])
<1>1. 1 .. k + 1 = (1 .. k) \cup {k + 1}
  OBVIOUS
<1> QED BY <1>1 DEF RangesUpTo

LEMMA RangesAppend ==
  ASSUME NEW ps \in Seq(Nat \X Nat), NEW a \in Nat, NEW b \in Nat
  PROVE  /\ Append(ps, <<a, b>>) \in Seq(Nat \X Nat)
         /\ Len(Append(ps, <<a, b>>)) = Len(ps) + 1
         /\ \A j \in 1 .. Len(ps) : Append(ps, <<a, b>>)[j] = ps[j]
         /\ Append(ps, <<a, b>>)[Len(ps) + 1] = <<a, b>>
         /\ RangesUpTo(Append(ps, <<a, b>>), Len(ps) + 1) = RangesUpTo(ps, Len(ps)) \cup (a .. b)
<1> DEFINE qs == Append(ps, <<a, b>>)
<1>1. /\ qs \in Seq(Nat \X Nat) /\ Len(qs) = Len(ps) + 1 /\ Len(ps) \in Nat
      /\ \A j \in 1 .. Len(ps) : qs[j] = ps[j]
      /\ qs[Len(ps) + 1] = <<a, b>>
  OBVIOUS
<1> HIDE DEF qs
<1>2. RangesUpTo(qs, Len(ps)) = RangesUpTo(ps, Len(ps))
  BY <1>1 DEF RangesUpTo
<1>3. RangesUpTo(qs, Len(ps) + 1) = RangesUpTo(ps, Len(ps)) \cup (a .. b)
  <2>1. (qs[Len(ps) + 1][1] .. qs[Len(ps) + 1][2]) = (a .. b)
    BY <1>1
  <2>2. RangesUpTo(qs, Len(ps) + 1)
          = RangesUpTo(qs, Len(ps)) \cup (qs[Len(ps) + 1][1] .. qs[Len(ps) + 1][2])
    BY <1>1, RangesNext
  <2> QED BY <1>2, <2>1, <2>2
<1> QED BY <1>1, <1>3 DEF qs

LEMMA RangesNone ==
  ASSUME NEW ps PROVE RangesUpTo(ps, 0) = {}
  BY DEF RangesUpTo

\* A bitmap's indices are natural numbers.
LEMMA IntoIndices ==
  ASSUME WordsInv
  PROVE  /\ pc = "added" => Indices(into) = other \cup Allocated
         /\ pc = "clash" => Indices(into) = other
         /\ pc = "error" => Indices(into) = {} /\ other = {}
         /\ pc \in {"added", "clash", "error"} => Indices(into) \in SUBSET Nat
<1>1. /\ total \in Nat /\ unit \in Nat /\ other \in SUBSET CUs(total)
      /\ {} \in SUBSET CUs(total) /\ CUs(total) \subseteq Nat
  BY DEF WordsInv, CUs
<1>2. Allocated \in SUBSET CUs(total)
  BY <1>1, AllocatedInside DEF Allocated
<1>3. other \cup Allocated \in SUBSET CUs(total)
  BY <1>1, <1>2
<1>4. /\ pc = "added" => Indices(into) = other \cup Allocated
      /\ pc = "clash" => Indices(into) = other
      /\ pc = "error" => Indices(into) = {} /\ other = {}
  BY <1>1, <1>3, IndicesOfBitmap DEF WordsInv
<1> QED BY <1>1, <1>3, <1>4

LEMMA PersistKeeps ==
  ASSUME WordsInv, ListInv, Persist, UNCHANGED vars PROVE ListInv'
<1>1. /\ stage = "none" /\ pc \in {"added", "clash", "error"} /\ stage' = "first"
      /\ bits' = Indices(into) /\ rest' = bits' /\ readTotal' \in Nat /\ readTotal' > 0
      /\ UNCHANGED <<first, prev, parts, readAlloc, read, pc, into>>
  BY BoundsAssumption DEF Persist, vars
<1>2. bits' \in SUBSET Nat
  BY <1>1, IntoIndices
<1> QED BY <1>1, <1>2 DEF ListInv

\* The writer's four steps.
LEMMA WriteKeeps ==
  ASSUME ListInv, UNCHANGED vars,
         List!WriteNone \/ List!WriteFirst \/ List!WriteNext \/ List!WriteLast
  PROVE  ListInv'
<1>1. /\ bits \in SUBSET Nat /\ rest \in SUBSET bits /\ parts \in Seq(Nat \X Nat)
      /\ first \in Nat /\ prev \in Nat /\ Len(parts) \in Nat
      /\ \A j \in 1 .. Len(parts) : parts[j][1] <= parts[j][2]
  BY DEF ListInv
<1>2. UNCHANGED <<bits, readTotal, readAlloc, read, pc, into>>
  BY DEF vars, List!WriteNone, List!WriteFirst, List!WriteNext, List!WriteLast
<1>3. CASE List!WriteNone
  <2>1. /\ stage = "first" /\ stage' = "read" /\ rest = {} /\ parts' = Append(<<>>, <<0, 0>>)
        /\ UNCHANGED <<rest, first, prev>> /\ bits = {} /\ parts = <<>>
        /\ read = 0 /\ readAlloc = {}
    BY <1>3 DEF List!WriteNone, ListInv
  <2>2. parts' \in Seq(Nat \X Nat) /\ Len(parts') = 1 /\ parts'[1] = <<0, 0>>
    BY <2>1
  <2>3. RangesUpTo(parts', Len(parts')) = {0}
    <3>1. RangesUpTo(parts', 0 + 1) = RangesUpTo(parts', 0) \cup (0 .. 0)
      BY <2>2, RangesNext
    <3>2. RangesUpTo(parts', 0) = {} /\ 0 .. 0 = {0}
      BY RangesNone
    <3> QED BY <2>2, <3>1, <3>2
  <2>4. RangesUpTo(parts', 0) = {}
    BY RangesNone
  <2> QED BY <1>1, <1>2, <2>1, <2>2, <2>3, <2>4 DEF ListInv, Listed
<1>4. CASE List!WriteFirst
  <2> DEFINE id == List!Least(rest)
  <2>1. /\ stage = "first" /\ stage' = "write" /\ rest # {} /\ first' = id /\ prev' = id
        /\ rest' = rest \ {id} /\ UNCHANGED parts
        /\ parts = <<>> /\ read = 0 /\ readAlloc = {} /\ rest = bits
    BY <1>4 DEF List!WriteFirst, ListInv
  <2>2. id \in rest /\ \A y \in rest : id <= y
    BY <1>1, <2>1, LeastInSet
  <2> HIDE DEF id
  <2>3. id .. id = {id} /\ \A i \in rest \ {id} : id < i
    <3>1. id \in Nat /\ rest \in SUBSET Nat
      BY <1>1, <2>2
    <3>2. id .. id = {id}
      BY <3>1
    <3>3. ASSUME NEW i \in rest \ {id} PROVE id < i
      BY <2>2, <3>1
    <3> QED BY <3>2, <3>3
  <2>4. RangesUpTo(parts, Len(parts)) = {}
    BY <2>1, RangesNone
  <2>5. bits = RangesUpTo(parts, Len(parts)) \cup (id .. id) \cup (rest \ {id})
    BY <2>1, <2>2, <2>3, <2>4
  <2> QED BY <1>1, <1>2, <2>1, <2>2, <2>3, <2>5 DEF ListInv
<1>5. CASE List!WriteNext
  <2> DEFINE id == List!Least(rest)
  <2>1. /\ stage = "write" /\ rest # {} /\ prev' = id /\ rest' = rest \ {id}
        /\ UNCHANGED stage /\ read = 0 /\ readAlloc = {}
        /\ bits = RangesUpTo(parts, Len(parts)) \cup (first .. prev) \cup rest
        /\ first <= prev /\ \A i \in rest : prev < i
        /\ IF id = prev + 1 THEN UNCHANGED <<first, parts>>
           ELSE parts' = Append(parts, <<first, prev>>) /\ first' = id
    BY <1>5 DEF List!WriteNext, ListInv
  <2>2. id \in rest /\ \A y \in rest : id <= y
    BY <1>1, <2>1, LeastInSet
  <2> HIDE DEF id
  <2>3. id \in Nat /\ prev < id /\ \A i \in rest' : id < i
    BY <1>1, <2>1, <2>2
  <2>4. CASE id = prev + 1
    <3>1. first .. id = (first .. prev) \cup {id} /\ first <= id
      BY <1>1, <2>1, <2>4
    <3>2. bits = RangesUpTo(parts, Len(parts)) \cup (first .. id) \cup (rest \ {id})
      BY <2>1, <2>2, <3>1
    <3> QED BY <1>1, <1>2, <2>1, <2>3, <2>4, <3>1, <3>2 DEF ListInv
  <2>5. CASE id # prev + 1
    <3>1. parts' = Append(parts, <<first, prev>>) /\ first' = id
      BY <2>1, <2>5
    <3>2. /\ parts' \in Seq(Nat \X Nat) /\ Len(parts') = Len(parts) + 1
          /\ \A j \in 1 .. Len(parts') : parts'[j][1] <= parts'[j][2]
          /\ RangesUpTo(parts', Len(parts'))
               = RangesUpTo(parts, Len(parts)) \cup (first .. prev)
      BY <1>1, <2>1, <3>1, RangesAppend
    <3>3. id .. id = {id}
      BY <2>3
    <3>4. bits = RangesUpTo(parts', Len(parts')) \cup (id .. id) \cup (rest \ {id})
      BY <2>1, <2>2, <3>2, <3>3
    <3>5. bits' = RangesUpTo(parts', Len(parts')) \cup (first' .. prev') \cup rest'
      BY <1>2, <2>1, <3>1, <3>4
    <3>6. first' <= prev' /\ first' \in Nat /\ prev' \in Nat /\ \A i \in rest' : prev' < i
      BY <2>1, <2>3, <3>1
    <3>7. bits' \in SUBSET Nat /\ rest' \in SUBSET bits'
      BY <1>1, <1>2, <2>1
    <3> QED BY <1>2, <2>1, <3>2, <3>5, <3>6, <3>7 DEF ListInv
  <2> QED BY <2>4, <2>5
<1>6. CASE List!WriteLast
  <2>1. /\ stage = "write" /\ stage' = "read" /\ rest = {} /\ UNCHANGED <<rest, first, prev>>
        /\ parts' = Append(parts, <<first, prev>>) /\ read = 0 /\ readAlloc = {}
        /\ bits = RangesUpTo(parts, Len(parts)) \cup (first .. prev) /\ first <= prev
    BY <1>6 DEF List!WriteLast, ListInv
  <2>2. /\ parts' \in Seq(Nat \X Nat) /\ Len(parts') = Len(parts) + 1
        /\ \A j \in 1 .. Len(parts') : parts'[j][1] <= parts'[j][2]
        /\ RangesUpTo(parts', Len(parts')) = RangesUpTo(parts, Len(parts)) \cup (first .. prev)
    BY <1>1, <2>1, RangesAppend
  <2>3. RangesUpTo(parts', Len(parts')) = bits /\ first \in bits
    BY <1>1, <2>1, <2>2
  <2>4. RangesUpTo(parts', 0) = {}
    BY RangesNone
  <2>5. RangesUpTo(parts', Len(parts')) = Listed'
    BY <1>2, <2>3 DEF Listed
  <2>6. read' = 0 /\ readAlloc' = {} /\ read' <= Len(parts')
    <3>1. read' = 0 /\ readAlloc' = {}
      BY <1>2, <2>1
    <3>2. 0 <= Len(parts')
      BY <1>1, <2>2
    <3> QED BY <3>1, <3>2
  <2>7. /\ bits' \in SUBSET Nat /\ rest' \in SUBSET bits' /\ first' \in Nat /\ prev' \in Nat
    BY <1>1, <1>2, <2>1
  <2>8. readAlloc' = RangesUpTo(parts', read')
    BY <2>4, <2>6
  <2> QED BY <1>2, <2>1, <2>2, <2>5, <2>6, <2>7, <2>8 DEF ListInv
<1> QED BY <1>3, <1>4, <1>5, <1>6

\* The reader's two steps.
LEMMA ReadKeeps ==
  ASSUME ListInv, UNCHANGED vars, List!ReadPart \/ List!ReadEnd PROVE ListInv'
<1>1. /\ stage = "read" /\ Len(parts) \in Nat /\ read \in Nat /\ read <= Len(parts)
      /\ parts \in Seq(Nat \X Nat) /\ readTotal \in Nat
      /\ \A j \in 1 .. Len(parts) : parts[j][1] <= parts[j][2]
      /\ RangesUpTo(parts, Len(parts)) = Listed
      /\ readAlloc = RangesUpTo(parts, read) /\ \A i \in readAlloc : i < readTotal
  BY DEF ListInv, List!ReadPart, List!ReadEnd
<1>2. UNCHANGED <<bits, rest, first, prev, parts, readTotal, pc, into, Listed>>
  BY DEF vars, List!ReadPart, List!ReadEnd, Listed
<1>3. CASE List!ReadPart
  <2> DEFINE r == parts[read + 1]
  <2>1. /\ read < Len(parts)
        /\ IF List!InBounds(r)
           THEN readAlloc' = readAlloc \cup (r[1] .. r[2]) /\ read' = read + 1 /\ UNCHANGED stage
           ELSE stage' = "error" /\ UNCHANGED <<readAlloc, read>>
    BY <1>3 DEF List!ReadPart
  <2>2. read + 1 \in 1 .. Len(parts) /\ r[1] \in Nat /\ r[2] \in Nat /\ r[1] <= r[2]
    BY <1>1, <2>1
  <2>3. CASE List!InBounds(r)
    <3>1. readAlloc' = RangesUpTo(parts, read') /\ read' \in Nat /\ read' <= Len(parts)
      <4>1. RangesUpTo(parts, read + 1) = RangesUpTo(parts, read) \cup (r[1] .. r[2])
        BY <1>1, RangesNext
      <4>2. readAlloc' = RangesUpTo(parts, read) \cup (r[1] .. r[2]) /\ read' = read + 1
        BY <1>1, <2>1, <2>3
      <4>3. read' \in Nat /\ read' <= Len(parts)
        BY <1>1, <2>1, <4>2
      <4> QED BY <4>1, <4>2, <4>3
    <3>2. \A i \in r[1] .. r[2] : i < readTotal
      BY <1>1, <2>2, <2>3 DEF List!InBounds
    <3>3. \A i \in readAlloc' : i < readTotal
      BY <1>1, <2>1, <2>3, <3>2
    <3> QED BY <1>1, <1>2, <2>1, <2>3, <3>1, <3>3 DEF ListInv
  <2>4. CASE ~List!InBounds(r)
    <3>1. readTotal <= r[2]
      BY <1>1, <2>2, <2>4 DEF List!InBounds
    <3>2. r[2] \in RangesUpTo(parts, Len(parts))
      BY <2>2 DEF RangesUpTo
    <3>3. \E i \in Listed : readTotal <= i
      BY <1>1, <3>1, <3>2
    <3> QED BY <1>1, <1>2, <2>1, <2>4, <3>3 DEF ListInv
  <2> QED BY <2>3, <2>4
<1>4. CASE List!ReadEnd
  <2>1. read = Len(parts) /\ stage' = "done" /\ UNCHANGED <<readAlloc, read>>
    BY <1>4 DEF List!ReadEnd
  <2> QED BY <1>1, <1>2, <2>1 DEF ListInv
<1> QED BY <1>3, <1>4

\* Once the bitmap is being written, the functions before it have returned.
LEMMA WordsWait ==
  ASSUME ListInv, Next, UNCHANGED listVars PROVE ListInv'
<1>1. stage = "none"
  <2>1. pc \notin {"added", "clash", "error"}
    BY DEF Next, Enter, Scan, Finish, Add
  <2> QED BY <2>1 DEF ListInv
<1> QED BY <1>1 DEF ListInv, listVars, Listed

AnnotationInv == WordsInv /\ ListInv

LEMMA AnnotationInvInit == AnnotationInit => AnnotationInv
<1> SUFFICES ASSUME AnnotationInit PROVE AnnotationInv
  OBVIOUS
<1>1. WordsInv
  BY WordsInit DEF AnnotationInit
<1>2. ListInv
  BY DEF AnnotationInit, ListInv
<1> QED BY <1>1, <1>2 DEF AnnotationInv

LEMMA AnnotationInvStep ==
  AnnotationInv /\ [AnnotationNext]_<<vars, listVars>> => AnnotationInv'
<1> SUFFICES ASSUME AnnotationInv, [AnnotationNext]_<<vars, listVars>> PROVE AnnotationInv'
  OBVIOUS
<1>1. WordsInv'
  BY WordsStep DEF AnnotationInv, AnnotationNext
<1>2. ListInv'
  <2>1. CASE Next /\ UNCHANGED listVars
    BY <2>1, WordsWait DEF AnnotationInv
  <2>2. CASE Persist /\ UNCHANGED vars
    BY <2>2, PersistKeeps DEF AnnotationInv
  <2>3. CASE List!Next /\ UNCHANGED vars
    BY <2>3, WriteKeeps, ReadKeeps DEF AnnotationInv, List!Next
  <2>4. CASE UNCHANGED <<vars, listVars>>
    BY <2>4 DEF AnnotationInv, ListInv, Listed, vars, listVars
  <2> QED BY <2>1, <2>2, <2>3, <2>4 DEF AnnotationNext
<1> QED BY <1>1, <1>2 DEF AnnotationInv

LEMMA ReadBack == AnnotationInv => ReadBackIsFaithful
<1> SUFFICES ASSUME AnnotationInv PROVE ReadBackIsFaithful
  OBVIOUS
<1>1. WordsInv /\ ListInv
  BY DEF AnnotationInv
<1>2. pc = "added" => Allocated # {}
  <2> SUFFICES ASSUME pc = "added", TakenUnits(used, total, n, unit) = {} PROVE FALSE
    BY <1>1, TakenNotEmpty DEF WordsInv, Allocated
  <2>1. n \in Nat /\ n > 0 /\ unit \in Nat \ {0} /\ RoundUp(n, unit) = 0 * unit
    BY <1>1, FS_EmptySet DEF WordsInv, CanAllocate
  <2> QED BY <2>1, RoundsUp
<1>3. RebuildReadsAllocated
  <2> SUFFICES ASSUME stage = "done"
               PROVE  readAlloc = IF pc = "added" THEN other \cup Allocated
                                  ELSE IF other = {} THEN {0} ELSE other
    BY DEF RebuildReadsAllocated, Allocated
  <2>1. readAlloc = Listed /\ bits = Indices(into) /\ pc \in {"added", "clash", "error"}
    BY <1>1 DEF ListInv
  <2> QED BY <1>1, <1>2, <2>1, IntoIndices DEF Listed
<1>4. RefusedWhenTooLarge
  <2>1. ASSUME stage = "error" PROVE \E i \in bits : i >= readTotal
    <3>1. PICK i \in Listed : readTotal <= i
      BY <1>1, <2>1 DEF ListInv
    <3>2. readTotal \in Nat /\ readTotal > 0 /\ bits \in SUBSET Nat
      BY <1>1, <2>1 DEF ListInv
    <3> QED BY <3>1, <3>2 DEF Listed
  <2>2. ASSUME stage = "done", NEW i \in bits PROVE i < readTotal
    BY <1>1, <2>2 DEF ListInv, Listed
  <2> QED BY <2>1, <2>2 DEF RefusedWhenTooLarge
<1> QED BY <1>3, <1>4 DEF ReadBackIsFaithful

-------------------------------------------------------------------------------

\* What the two theorems below follow from: at every turn of the loops of CuWords and
\* CuIDList, what was found, written and read so far is a known part of the bitmap.
THEOREM AnnotationInvariant == AnnotationSpec => []AnnotationInv
<1> QED BY AnnotationInvInit, AnnotationInvStep, PTL DEF AnnotationSpec

\* The loops of AllocateN and AddAllocation over machine words of any size do what
\* CuBitmap says: first fit by whole units, all or nothing, disjoint unions.
THEOREM WordsFaithful == AnnotationSpec => []WordsAgreeWithSets
<1>1. AnnotationInv => WordsAgreeWithSets
  BY WordsAgree DEF AnnotationInv
<1> QED BY <1>1, AnnotationInvariant, PTL

\* What was allocated comes back from the pod's annotation, whatever the bitmap and
\* the GPU it is read against, or the list is refused.
THEOREM ReadBackFaithful == AnnotationSpec => []ReadBackIsFaithful
<1> QED BY ReadBack, AnnotationInvariant, PTL

===============================================================================
