---------------------------- MODULE CuBitmap_proofs ----------------------------
(***************************************************************************)
(* Of CuBitmap, for every GPU, mask unit and set of used CUs: what first   *)
(* fit by whole units takes, how many CUs that are, and that it succeeds   *)
(* when the CUs in use are whole units and leave enough of the GPU.  The   *)
(* proofs about the words of a bitmap and about the bookings rest on it.   *)
(***************************************************************************)
EXTENDS CuBitmap, FiniteSetTheorems, FunctionTheorems, WellFoundedInduction, TLAPS

-------------------------------------------------------------------------------
(* Arithmetic                                                              *)

LEMMA Division ==
  ASSUME NEW a \in Nat, NEW b \in Nat \ {0}
  PROVE  \E q \in Nat, r \in 0 .. b - 1 : a = q * b + r /\ a \div b = q /\ a % b = r
<1>1. a \div b \in Nat /\ a % b \in 0 .. b - 1
  OBVIOUS
<1>2. a = b * (a \div b) + (a % b)
  OBVIOUS
<1>3. ASSUME NEW q \in Nat, NEW r \in Nat, a = b * q + r PROVE a = q * b + r
  BY <1>3
<1> QED BY <1>1, <1>2, <1>3

\* A number is told by its quotient and its remainder.
LEMMA Quotient ==
  ASSUME NEW b \in Nat \ {0}, NEW q \in Nat, NEW r \in 0 .. b - 1
  PROVE  (q * b + r) \div b = q /\ (q * b + r) % b = r
  OBVIOUS

LEMMA MultipleOf ==
  ASSUME NEW b \in Nat \ {0}, NEW q \in Nat PROVE (q * b) % b = 0
<1>1. 0 \in 0 .. b - 1 /\ q * b + 0 = q * b
  OBVIOUS
<1> QED BY <1>1, Quotient

LEMMA Multiple ==
  ASSUME NEW b \in Nat \ {0}, NEW a \in Nat, a % b = 0
  PROVE  \E q \in Nat : a = q * b
  BY Division

\* Different multiples of b are at least b apart.
LEMMA MultiplesApart ==
  ASSUME NEW b \in Nat \ {0}, NEW a \in Nat, NEW c \in Nat,
         a % b = 0, c % b = 0, a < c
  PROVE  a + b <= c
<1>1. PICK q \in Nat : a = q * b
  BY Multiple
<1>2. PICK k \in Nat : c = k * b
  BY Multiple
<1>3. q < k
  BY <1>1, <1>2
<1>4. (q + 1) * b <= k * b
  BY <1>3
<1> QED BY <1>1, <1>2, <1>4

LEMMA NextMultiple ==
  ASSUME NEW b \in Nat \ {0}, NEW a \in Nat, a % b = 0
  PROVE  (a + b) % b = 0
<1>1. PICK q \in Nat : a = q * b
  BY Multiple
<1>2. a + b = (q + 1) * b
  BY <1>1
<1>3. ((q + 1) * b) % b = 0
  <2>1. q + 1 \in Nat
    OBVIOUS
  <2> HIDE <1>1, <1>2
  <2> QED BY <2>1, MultipleOf
<1> QED BY <1>2, <1>3

LEMMA RoundsUp ==
  ASSUME NEW m \in Nat, NEW u \in Nat \ {0}
  PROVE  /\ RoundUp(m, u) \in Nat /\ RoundUp(m, u) % u = 0 /\ RoundUp(m, u) >= m
         /\ m % u = 0 => RoundUp(m, u) = m
<1>1. PICK q \in Nat, r \in 0 .. u - 1 :
        m + u - 1 = q * u + r /\ (m + u - 1) \div u = q
  BY Division
<1>2. RoundUp(m, u) = q * u
  BY <1>1 DEF RoundUp
<1>3. RoundUp(m, u) % u = 0
  BY <1>2, MultipleOf
<1>4. ASSUME m % u = 0 PROVE RoundUp(m, u) = m
  <2>1. PICK k \in Nat : m = k * u
    BY <1>4, Division
  <2>2. m + u - 1 = k * u + (u - 1)
    BY <2>1
  <2>3. (m + u - 1) \div u = k
    <3>1. u - 1 \in 0 .. u - 1
      OBVIOUS
    <3>2. (k * u + (u - 1)) \div u = k
      BY <3>1, Quotient
    <3> QED BY <2>2, <3>2
  <2> QED BY <1>1, <1>2, <2>1, <2>3
<1> QED BY <1>1, <1>2, <1>3, <1>4

-------------------------------------------------------------------------------
(* Least and greatest elements                                             *)

\* The order of the naturals is well founded, so a set of them has a least element.
LEMMA LeastNatural ==
  ASSUME NEW S \in SUBSET Nat, S # {} PROVE \E x \in S : \A y \in S : x <= y
<1> DEFINE R == {r \in Nat \X Nat : r[1] < r[2]}
<1>1. IsWellFoundedOn(R, Nat)
  BY NatLessThanWellFounded, Zenon DEF OpToRel
<1>2. PICK x \in S : \A y \in S : <<y, x>> \notin R
  <2> HIDE DEF R
  <2> QED BY <1>1, WFMin
<1>3. ASSUME NEW y \in S PROVE x <= y
  <2>1. <<y, x>> \notin R
    BY <1>2
  <2> QED BY <2>1
<1> QED BY <1>3

\* Below a bound there is a greatest one.
LEMMA GreatestNatural ==
  ASSUME NEW b \in Nat, NEW S \in SUBSET (0 .. b), S # {}
  PROVE  \E x \in S : \A y \in S : y <= x
<1> DEFINE D == {d \in 0 .. b : b - d \in S}
<1>1. ASSUME NEW y \in S PROVE b - y \in D
  <2>1. y \in 0 .. b
    OBVIOUS
  <2>2. b - y \in 0 .. b /\ b - (b - y) = y
    BY <2>1
  <2> QED BY <2>2
<1>2. D \in SUBSET Nat /\ D # {}
  <2>1. D # {}
    BY <1>1
  <2> QED BY <2>1
<1> HIDE DEF D
<1>3. PICK d \in D : \A e \in D : d <= e
  BY <1>2, LeastNatural
<1>4. d \in 0 .. b /\ b - d \in S
  BY <1>3 DEF D
<1>5. ASSUME NEW y \in S PROVE y <= b - d
  <2>1. d <= b - y
    BY <1>1, <1>3
  <2> QED BY <1>4, <2>1
<1> QED BY <1>4, <1>5

-------------------------------------------------------------------------------
(* Free units, and what first fit takes of them                            *)

\* The free units of a GPU, and any subset of them, can be counted.
LEMMA FreeUnitsFinite ==
  ASSUME NEW t \in Nat, NEW U, NEW u, NEW S \in SUBSET FreeUnits(U, t, u)
  PROVE  IsFiniteSet(S) /\ Cardinality(S) \in Nat
<1>1. IsFiniteSet(CUs(t))
  <2>1. t - 1 \in Int
    OBVIOUS
  <2> QED BY <2>1, FS_Interval DEF CUs
<1>2. S \subseteq CUs(t)
  BY DEF FreeUnits
<1> QED BY <1>1, <1>2, FS_Subset, FS_CardinalityType

\* What units that lie inside the GPU consist of are CUs of the GPU.
LEMMA UnitsInside ==
  ASSUME NEW t \in Nat, NEW U, NEW u \in Nat, NEW S \in SUBSET FreeUnits(U, t, u)
  PROVE  UNION {UnitCUs(s, u) : s \in S} \in SUBSET CUs(t)
<1>1. ASSUME NEW s \in S, NEW i \in UnitCUs(s, u) PROVE i \in CUs(t)
  BY DEF FreeUnits, UnitCUs, CUs
<1> QED BY <1>1

LEMMA AllocatedInside ==
  ASSUME NEW t \in Nat, NEW U, NEW u \in Nat, NEW m
  PROVE  AllocateN(U, t, m, u) \in SUBSET CUs(t)
<1>1. TakenUnits(U, t, m, u) \in SUBSET FreeUnits(U, t, u)
  BY DEF TakenUnits
<1> QED BY <1>1, UnitsInside DEF AllocateN

\* A unit of at least one CU brings its first one.
LEMMA TakenNotEmpty ==
  ASSUME NEW t \in Nat, NEW U, NEW u \in Nat \ {0}, NEW m, TakenUnits(U, t, m, u) # {}
  PROVE  AllocateN(U, t, m, u) # {}
<1>1. PICK s \in TakenUnits(U, t, m, u) : s \in Nat
  <2>1. TakenUnits(U, t, m, u) \subseteq CUs(t)
    BY DEF TakenUnits, FreeUnits
  <2> QED BY <2>1 DEF CUs
<1>2. s \in UnitCUs(s, u)
  BY <1>1 DEF UnitCUs
<1> QED BY <1>1, <1>2 DEF AllocateN

\* AllocateN returns CUs of the GPU, none of which was in use.
LEMMA AllocateNIsFree ==
  ASSUME NEW used, NEW t \in Nat, NEW m, NEW u \in Nat
  PROVE  /\ AllocateN(used, t, m, u) \subseteq CUs(t)
         /\ AllocateN(used, t, m, u) \cap used = {}
<1>1. ASSUME NEW x \in AllocateN(used, t, m, u) PROVE x \notin used
  BY <1>1 DEF AllocateN, TakenUnits, FreeUnits
<1> QED BY <1>1, AllocatedInside

\* First fit takes as many units as were asked for, if so many are free.
LEMMA TakenExact ==
  ASSUME NEW U, NEW t \in Nat, NEW m \in Nat, NEW u \in Nat \ {0},
         RoundUp(m, u) <= Cardinality(FreeUnits(U, t, u)) * u
  PROVE  Cardinality(TakenUnits(U, t, m, u)) * u = RoundUp(m, u)
<1> DEFINE F == FreeUnits(U, t, u)
           T == TakenUnits(U, t, m, u)
           B(s) == {x \in F : x < s}
<1>1. T = {s \in F : Cardinality(B(s)) * u < RoundUp(m, u)}
  BY DEF TakenUnits
<1>2. F \in SUBSET (0 .. t) /\ F \in SUBSET Nat
  BY DEF FreeUnits, CUs
<1>10. ASSUME NEW S \in SUBSET F PROVE IsFiniteSet(S) /\ Cardinality(S) \in Nat
  BY FreeUnitsFinite
<1>3. RoundUp(m, u) \in Nat /\ RoundUp(m, u) % u = 0
  BY RoundsUp
<1>4. PICK R \in Nat : R = RoundUp(m, u)
  BY <1>3
<1>5. T \in SUBSET F /\ R % u = 0 /\ R <= Cardinality(F) * u
  BY <1>1, <1>3, <1>4
<1>6. PICK k \in Nat, f \in Nat : k = Cardinality(T) /\ f = Cardinality(F)
  BY <1>5, <1>10
<1> HIDE DEF F, T
<1>7. ASSUME NEW s \in F, NEW x \in B(s) PROVE Cardinality(B(x)) <= Cardinality(B(s))
  <2>1. x \in Nat /\ s \in Nat /\ x < s
    BY <1>2, <1>7
  <2>2. B(s) \in SUBSET F
    OBVIOUS
  <2>3. B(x) \in SUBSET B(s)
    <3>1. ASSUME NEW y \in B(x) PROVE y \in B(s)
      <4>1. y \in F /\ y \in Nat /\ y < x
        BY <1>2
      <4> QED BY <2>1, <4>1
    <3> QED BY <3>1
  <2> QED BY <1>10, <2>2, <2>3, FS_Subset
<1>8. ASSUME k * u < R PROVE FALSE
  <2>1. k < f
    BY <1>5, <1>6, <1>8
  <2>2. F \ T # {}
    <3>1. T # F
      BY <1>6, <2>1
    <3> QED BY <1>5, <3>1
  <2>3. PICK s \in F \ T : \A y \in F \ T : s <= y
    <3>1. F \ T \in SUBSET Nat
      BY <1>2
    <3> QED BY <2>2, <3>1, LeastNatural
  <2>4. B(s) \in SUBSET T
    <3>1. ASSUME NEW y \in B(s) PROVE y \in T
      <4>1. y \in F /\ y \in Nat /\ s \in Nat /\ ~(s <= y)
        BY <1>2, <2>3
      <4> QED BY <2>3, <4>1
    <3> QED BY <3>1
  <2>5. Cardinality(B(s)) \in Nat /\ Cardinality(B(s)) <= k
    <3>1. IsFiniteSet(T) /\ IsFiniteSet(B(s)) /\ Cardinality(B(s)) \in Nat
      BY <1>5, <1>10, <2>4
    <3> QED BY <1>6, <2>4, <3>1, FS_Subset
  <2>6. PICK c \in Nat : c = Cardinality(B(s))
    BY <2>5
  <2>7. c * u <= k * u
    BY <2>5, <2>6
  <2>8. c * u < R
    BY <1>8, <2>7
  <2> QED BY <1>1, <1>4, <2>3, <2>6, <2>8
<1>9. ASSUME R < k * u PROVE FALSE
  <2>1. T # {}
    <3>1. CASE k = 0
      <4>1. k * u = 0
        BY <3>1
      <4> QED BY <1>4, <1>9, <4>1
    <3>2. CASE k # 0
      BY <1>6, <3>2, FS_EmptySet
    <3> QED BY <3>1, <3>2
  <2>2. PICK s \in T : \A y \in T : y <= s
    <3>1. T \in SUBSET (0 .. t)
      BY <1>2, <1>5
    <3> QED BY <2>1, <3>1, GreatestNatural
  <2>3. ASSUME NEW x \in B(s) PROVE x \in T
    <3>1. Cardinality(B(x)) <= Cardinality(B(s)) /\ Cardinality(B(x)) \in Nat
          /\ Cardinality(B(s)) \in Nat
      <4>1. s \in F /\ x \in F /\ B(x) \in SUBSET F /\ B(s) \in SUBSET F
        BY <1>5, <2>2
      <4> QED BY <1>7, <1>10, <4>1
    <3>2. PICK c \in Nat, d \in Nat : c = Cardinality(B(x)) /\ d = Cardinality(B(s))
      BY <3>1
    <3>3. d * u < R
      BY <1>1, <1>4, <2>2, <3>2
    <3>4. c * u <= d * u
      BY <3>1, <3>2
    <3>5. c * u < R
      BY <3>3, <3>4
    <3> QED BY <1>1, <1>4, <2>3, <3>2, <3>5
  <2>4. B(s) = T \ {s}
    <3>1. ASSUME NEW y \in T \ {s} PROVE y \in B(s)
      <4>1. y \in F /\ y \in Nat /\ s \in Nat /\ y <= s /\ y # s
        BY <1>2, <1>5, <2>2
      <4> QED BY <4>1
    <3>2. s \notin B(s)
      <4>1. s \in Nat
        BY <1>2, <1>5, <2>2
      <4> QED BY <4>1
    <3> QED BY <2>3, <3>1, <3>2
  <2>5. Cardinality(B(s)) = k - 1
    <3>1. IsFiniteSet(T)
      BY <1>5, <1>10
    <3> QED BY <1>6, <2>2, <2>4, <3>1, FS_RemoveElement
  <2>6. (k - 1) * u < R
    BY <1>1, <1>4, <2>2, <2>5
  <2>7. k * u < R + u
    BY <2>6
  <2>8. R + u <= k * u
    <3>1. (k * u) % u = 0 /\ k * u \in Nat
      BY MultipleOf
    <3> QED BY <1>5, <1>9, <3>1, MultiplesApart
  <2> QED BY <2>7, <2>8
<1> QED BY <1>4, <1>6, <1>8, <1>9 DEF T

-------------------------------------------------------------------------------
(* Sets of whole units                                                     *)

\* S consists of units that lie inside the GPU.
WholeUnits(S, t, u) ==
  \E M \in SUBSET FreeUnits({}, t, u) : S = UNION {UnitCUs(s, u) : s \in M}

\* Two units of a GPU have a CU in common only if they are the same.
LEMMA UnitsApart ==
  ASSUME NEW t \in Nat, NEW u \in Nat \ {0}, NEW s \in FreeUnits({}, t, u),
         NEW r \in FreeUnits({}, t, u), UnitCUs(s, u) \cap UnitCUs(r, u) # {}
  PROVE  s = r
<1>1. s \in Nat /\ r \in Nat /\ s % u = 0 /\ r % u = 0
  BY DEF FreeUnits, CUs
<1>2. PICK i : i \in Nat /\ s <= i /\ i < s + u /\ r <= i /\ i < r + u
  BY <1>1 DEF UnitCUs
<1>3. ~(s < r) /\ ~(r < s)
  BY <1>1, <1>2, MultiplesApart
<1> QED BY <1>1, <1>3

\* Each unit counts for its CUs.
LEMMA UnitsCount ==
  ASSUME NEW t \in Nat, NEW u \in Nat \ {0}, NEW M \in SUBSET FreeUnits({}, t, u)
  PROVE  LET S == UNION {UnitCUs(s, u) : s \in M}
         IN  IsFiniteSet(S) /\ Cardinality(S) = Cardinality(M) * u
<1> DEFINE S == UNION {UnitCUs(s, u) : s \in M}
           P == M \X (0 .. u - 1)
           f == [p \in P |-> p[1] + p[2]]
<1>1. IsFiniteSet(M) /\ M \in SUBSET Nat
  <2>1. FreeUnits({}, t, u) \in SUBSET Nat
    BY DEF FreeUnits, CUs
  <2> QED BY <2>1, FreeUnitsFinite
<1>2. IsFiniteSet(0 .. u - 1) /\ Cardinality(0 .. u - 1) = u
  BY FS_Interval
<1>3. IsFiniteSet(P) /\ Cardinality(P) = Cardinality(M) * u
  BY <1>1, <1>2, FS_Product
<1>4. f \in [P -> S]
  <2>1. ASSUME NEW p \in P PROVE p[1] + p[2] \in S
    <3>1. p[1] \in M /\ p[1] \in Nat /\ p[2] \in 0 .. u - 1
      BY <1>1
    <3>2. p[1] + p[2] \in UnitCUs(p[1], u)
      BY <3>1 DEF UnitCUs
    <3> QED BY <3>1, <3>2
  <2> QED BY <2>1
<1>5. ASSUME NEW i \in S PROVE \E p \in P : f[p] = i
  <2>1. PICK s \in M : i \in UnitCUs(s, u)
    OBVIOUS
  <2>2. i - s \in 0 .. u - 1 /\ s + (i - s) = i
    BY <1>1, <2>1 DEF UnitCUs
  <2>3. <<s, i - s>> \in P /\ f[<<s, i - s>>] = i
    BY <2>2
  <2> QED BY <2>3
<1>6. ASSUME NEW p \in P, NEW q \in P, f[p] = f[q] PROVE p = q
  <2>1. /\ p[1] \in M /\ p[2] \in 0 .. u - 1 /\ q[1] \in M /\ q[2] \in 0 .. u - 1
        /\ p = <<p[1], p[2]>> /\ q = <<q[1], q[2]>> /\ p[1] + p[2] = q[1] + q[2]
    BY <1>6
  <2>5. p[1] \in Nat /\ q[1] \in Nat
    BY <1>1, <2>1
  <2>2. p[1] + p[2] \in UnitCUs(p[1], u) /\ p[1] + p[2] \in UnitCUs(q[1], u)
    BY <2>1, <2>5 DEF UnitCUs
  <2>3. p[1] = q[1]
    <3>1. UnitCUs(p[1], u) \cap UnitCUs(q[1], u) # {}
      BY <2>2
    <3> QED BY <2>1, <3>1, UnitsApart
  <2>4. p[2] = q[2]
    BY <2>1, <2>3, <2>5
  <2> QED BY <2>1, <2>3, <2>4
<1> HIDE DEF S, P, f
<1>7. f \in Bijection(P, S)
  BY <1>4, <1>5, <1>6, Fun_IsBij
<1>8. ExistsBijection(P, S)
  BY <1>7, Fun_ExistsBij
<1> QED BY <1>3, <1>8, FS_Bijection DEF S

LEMMA WholeUnitsFinite ==
  ASSUME NEW t \in Nat, NEW u \in Nat \ {0}, NEW S, WholeUnits(S, t, u)
  PROVE  IsFiniteSet(S) /\ Cardinality(S) \in Nat
  BY UnitsCount, FS_CardinalityType DEF WholeUnits

LEMMA NoUnits == ASSUME NEW t, NEW u PROVE WholeUnits({}, t, u)
  BY DEF WholeUnits

LEMMA WholeUnitsJoin ==
  ASSUME NEW t, NEW u, NEW S, NEW R, WholeUnits(S, t, u), WholeUnits(R, t, u)
  PROVE  WholeUnits(S \cup R, t, u)
<1>1. PICK M \in SUBSET FreeUnits({}, t, u) : S = UNION {UnitCUs(s, u) : s \in M}
  BY DEF WholeUnits
<1>2. PICK L \in SUBSET FreeUnits({}, t, u) : R = UNION {UnitCUs(s, u) : s \in L}
  BY DEF WholeUnits
<1>3. S \cup R = UNION {UnitCUs(s, u) : s \in M \cup L}
  BY <1>1, <1>2
<1> QED BY <1>3 DEF WholeUnits

\* The units of any number of sets of whole units.
LEMMA WholeUnitsUnion ==
  ASSUME NEW t, NEW u, NEW C, \A S \in C : WholeUnits(S, t, u)
  PROVE  WholeUnits(UNION C, t, u)
<1> DEFINE M == {s \in FreeUnits({}, t, u) : UnitCUs(s, u) \subseteq UNION C}
<1>1. ASSUME NEW S \in C, NEW i \in S PROVE \E s \in M : i \in UnitCUs(s, u)
  <2>1. PICK L \in SUBSET FreeUnits({}, t, u) : S = UNION {UnitCUs(s, u) : s \in L}
    BY DEF WholeUnits
  <2>2. PICK s \in L : i \in UnitCUs(s, u)
    BY <2>1
  <2> QED BY <2>1, <2>2
<1>2. UNION C = UNION {UnitCUs(s, u) : s \in M}
  BY <1>1
<1> QED BY <1>2 DEF WholeUnits

\* A successful AllocateN returns whole units, as many CUs as asked for rounded up.
LEMMA AllocateNCounts ==
  ASSUME NEW U, NEW t \in Nat, NEW m \in Nat, NEW u \in Nat \ {0}, CanAllocate(U, t, m, u)
  PROVE  /\ WholeUnits(AllocateN(U, t, m, u), t, u)
         /\ Cardinality(AllocateN(U, t, m, u)) = RoundUp(m, u)
<1>1. TakenUnits(U, t, m, u) \in SUBSET FreeUnits({}, t, u)
  BY DEF TakenUnits, FreeUnits
<1> QED BY <1>1, UnitsCount DEF AllocateN, WholeUnits, CanAllocate

\* The units of a GPU are its CUs but for those left over at its end.
LEMMA AllUnits ==
  ASSUME NEW t \in Nat, NEW u \in Nat \ {0}, NEW q \in Nat, NEW r \in 0 .. u - 1, t = q * u + r
  PROVE  Cardinality(FreeUnits({}, t, u)) * u = q * u
<1> DEFINE A == FreeUnits({}, t, u)
           S == UNION {UnitCUs(s, u) : s \in A}
<1>1. ASSUME NEW i \in 0 .. q * u - 1 PROVE i \in S
  <2>1. PICK k \in Nat, b \in 0 .. u - 1 : i = k * u + b
    <3>1. q * u \in Int
      OBVIOUS
    <3>2. i \in Nat
      BY <3>1
    <3> QED BY <3>2, Division
  <2>2. k * u \in Nat /\ (k * u) % u = 0 /\ (q * u) % u = 0 /\ q * u \in Nat
    BY MultipleOf
  <2>3. k * u < q * u
    BY <2>1, <2>2
  <2>4. k * u + u <= q * u
    BY <2>2, <2>3, MultiplesApart
  <2>5. k * u \in A
    BY <2>2, <2>4 DEF FreeUnits, CUs
  <2>6. i \in UnitCUs(k * u, u)
    BY <2>1, <2>2 DEF UnitCUs
  <2> QED BY <2>5, <2>6
<1>2. ASSUME NEW s \in A, NEW i \in UnitCUs(s, u) PROVE i \in 0 .. q * u - 1
  <2>1. s \in Nat /\ s % u = 0 /\ s + u <= t /\ i \in Nat /\ i < s + u
    BY DEF FreeUnits, CUs, UnitCUs
  <2>2. PICK k \in Nat : s = k * u
    BY <2>1, Multiple
  <2>3. (k + 1) * u = s + u
    BY <2>2
  <2>4. (k + 1) * u < (q + 1) * u
    BY <2>1, <2>3
  <2>5. k + 1 <= q
    BY <2>4
  <2>6. (k + 1) * u <= q * u
    BY <2>5
  <2> QED BY <2>1, <2>3, <2>6
<1>3. S = 0 .. q * u - 1
  BY <1>1, <1>2
<1>4. Cardinality(0 .. q * u - 1) = q * u
  <2>1. PICK n \in Nat : n = q * u
    OBVIOUS
  <2>2. Cardinality(0 .. n - 1) = n
    BY FS_Interval
  <2> QED BY <2>1, <2>2
<1>5. Cardinality(S) = Cardinality(A) * u
  BY UnitsCount
<1> QED BY <1>3, <1>4, <1>5

\* Where whole units are in use and the GPU has CUs for m more, AllocateN succeeds.
LEMMA FirstFitSucceeds ==
  ASSUME NEW t \in Nat, NEW u \in Nat \ {0}, NEW S, NEW m \in Nat, m > 0,
         WholeUnits(S, t, u), Cardinality(S) + RoundUp(m, u) <= t
  PROVE  CanAllocate(S, t, m, u)
<1> DEFINE A == FreeUnits({}, t, u)
           F == FreeUnits(S, t, u)
<1>1. PICK M \in SUBSET A : S = UNION {UnitCUs(s, u) : s \in M}
  BY DEF WholeUnits
<1>2. IsFiniteSet(A) /\ IsFiniteSet(M) /\ Cardinality(A) \in Nat /\ Cardinality(M) \in Nat
  BY <1>1, FreeUnitsFinite
<1>3. Cardinality(S) = Cardinality(M) * u
  BY <1>1, UnitsCount
<1>4. F = A \ M
  <2>1. ASSUME NEW s \in M PROVE s \notin F
    <3>1. s \in Nat /\ s \in UnitCUs(s, u)
      BY <1>1 DEF FreeUnits, CUs, UnitCUs
    <3> QED BY <1>1, <3>1 DEF FreeUnits
  <2>2. ASSUME NEW s \in A \ M PROVE UnitCUs(s, u) \cap S = {}
    BY <1>1, UnitsApart
  <2> QED BY <2>1, <2>2 DEF FreeUnits
<1>5. Cardinality(F) = Cardinality(A) - Cardinality(M)
  <2>1. A \cap M = M
    BY <1>1
  <2> QED BY <1>2, <1>4, <2>1, FS_Difference
<1>6. PICK q \in Nat, r \in 0 .. u - 1 : t = q * u + r
  BY Division
<1>7. Cardinality(A) * u = q * u
  BY <1>6, AllUnits
<1>8. PICK b \in Nat : RoundUp(m, u) = b * u
  BY RoundsUp, Multiple
<1>9. PICK a \in Nat, c \in Nat : a = Cardinality(A) /\ c = Cardinality(M)
  BY <1>2
<1> HIDE DEF A, F
<1>10. (c + b) * u < (q + 1) * u
  <2>1. c * u + b * u <= q * u + r
    BY <1>3, <1>6, <1>8, <1>9
  <2> QED BY <2>1
<1>11. c + b <= q
  BY <1>10
<1>12. (c + b) * u <= q * u
  BY <1>11
<1>13. b * u <= (a - c) * u
  BY <1>7, <1>9, <1>12
<1>14. RoundUp(m, u) <= Cardinality(F) * u
  BY <1>5, <1>8, <1>9, <1>13
<1> QED BY <1>14, TakenExact DEF CanAllocate, F

-------------------------------------------------------------------------------
(* Counting                                                                *)

\* The smaller of two finite sets maps into the other, one to one.
LEMMA SmallerInjects ==
  ASSUME NEW S, NEW R, IsFiniteSet(S), IsFiniteSet(R), Cardinality(S) <= Cardinality(R)
  PROVE  ExistsInjection(S, R)
<1>1. /\ Cardinality(S) \in Nat /\ ExistsBijection(1 .. Cardinality(S), S)
      /\ Cardinality(R) \in Nat /\ ExistsBijection(1 .. Cardinality(R), R)
  BY FS_CardinalityType
<1>2. ExistsInjection(1 .. Cardinality(S), 1 .. Cardinality(R))
  BY <1>1, Fun_NatInjLeq
<1>3. ExistsInjection(S, 1 .. Cardinality(S)) /\ ExistsInjection(1 .. Cardinality(R), R)
  BY <1>1, Fun_ExistsBijEquiv
<1>4. ExistsInjection(S, 1 .. Cardinality(R))
  BY <1>2, <1>3, Fun_ExistsInjTransitive
<1> QED BY <1>3, <1>4, Fun_ExistsInjTransitive

\* A is within B when it consists of sets that are each within a budget, and B has the
\* budgets, told apart by their owners.
LEMMA WithinBudgets ==
  ASSUME NEW I, NEW a, NEW b, NEW A, NEW B, IsFiniteSet(B),
         \A q \in I : /\ IsFiniteSet(a[q]) /\ IsFiniteSet(b[q])
                      /\ Cardinality(a[q]) <= Cardinality(b[q]),
         \A i \in A : \E q \in I : i \in a[q],
         \A q \in I : {q} \X b[q] \subseteq B
  PROVE  IsFiniteSet(A) /\ Cardinality(A) <= Cardinality(B)
<1> DEFINE f == [q \in I |-> CHOOSE x : x \in Injection(a[q], b[q])]
           o == [i \in A |-> CHOOSE q \in I : i \in a[q]]
           e == [i \in A |-> <<o[i], f[o[i]][i]>>]
<1>1. ASSUME NEW q \in I PROVE f[q] \in Injection(a[q], b[q])
  <2>1. Injection(a[q], b[q]) # {}
    BY SmallerInjects, Fun_ExistsInj
  <2> QED BY <2>1
<1>2. ASSUME NEW i \in A PROVE o[i] \in I /\ i \in a[o[i]]
  <2>1. \E q \in I : i \in a[q]
    OBVIOUS
  <2> QED BY <2>1
<1>3. ASSUME NEW i \in A PROVE e[i] = <<o[i], f[o[i]][i]>>
  OBVIOUS
<1>4. ASSUME NEW C, \A i \in A : e[i] \in C PROVE e \in [A -> C]
  <2> HIDE DEF o, f
  <2> QED BY <1>4
<1> HIDE DEF f, o, e
<1>5. ASSUME NEW i \in A PROVE e[i] \in B
  <2>1. f[o[i]] \in Injection(a[o[i]], b[o[i]])
    BY <1>1, <1>2
  <2>2. f[o[i]][i] \in b[o[i]]
    BY <1>2, <2>1, Fun_InjectionProperties
  <2>3. <<o[i], f[o[i]][i]>> \in {o[i]} \X b[o[i]]
    BY <2>2
  <2> QED BY <1>2, <1>3, <2>3
<1>6. ASSUME NEW i \in A, NEW k \in A, e[i] = e[k] PROVE i = k
  <2>1. o[i] = o[k] /\ f[o[i]][i] = f[o[k]][k]
    BY <1>3, <1>6
  <2>2. f[o[i]] \in Injection(a[o[i]], b[o[i]]) /\ i \in a[o[i]] /\ k \in a[o[i]]
    BY <1>1, <1>2, <2>1
  <2> QED BY <2>1, <2>2, Fun_InjectionProperties
<1>7. e \in [A -> B]
  BY <1>4, <1>5
<1>8. e \in Injection(A, B)
  BY <1>6, <1>7, Fun_IsInj
<1> QED BY <1>8, FS_Injection

===============================================================================
