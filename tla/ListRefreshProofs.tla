-------------------------- MODULE ListRefreshProofs -------------------------
(***************************************************************************)
(* Proofs about IpLists and ListRefresh, for any width of addresses, any   *)
(* sources, feeds, configurations and bounds: what the algorithms on lists *)
(* compute, and how a list gets from its sources to lookups and into the   *)
(* kernel.                                                                 *)
(***************************************************************************)
EXTENDS ListRefresh, FiniteSetTheorems, FunctionTheorems, SequenceTheorems, WellFoundedInduction, TLAPS

-----------------------------------------------------------------------------
(* Numbers *)

\* A nonempty set of numbers has a least one.
LEMMA HasLeast ==
    ASSUME NEW S, S \subseteq Nat, S # {}
    PROVE  \E x \in S : \A y \in S : x <= y
<1>1. PICK x \in S : \A y \in S : ~(<<y, x>> \in OpToRel(<, Nat))
  BY WFMin, NatLessThanWellFounded
<1>2. \A y \in S : ~(y < x)
  BY <1>1 DEF OpToRel
<1> QED  BY <1>2

\* Induction, for a property that is a set of numbers.
LEMMA InductionOnSets ==
    ASSUME NEW S, 0 \in S, \A n \in Nat : n \in S => n + 1 \in S
    PROVE  \A n \in Nat : n \in S
<1> DEFINE bad == {n \in Nat : n \notin S}
<1>1. ASSUME bad # {}  PROVE FALSE
  <2>1. PICK x \in bad : \A y \in bad : x <= y
    BY <1>1, HasLeast
  <2>2. x # 0 /\ x - 1 \in Nat /\ x - 1 \notin bad
    BY <2>1
  <2>3. (x - 1) + 1 \in S
    BY <2>2
  <2> QED  BY <2>1, <2>3
<1> QED  BY <1>1

\* A nonempty set of numbers up to n has a greatest one.
LEMMA HasGreatest ==
    ASSUME NEW n \in Nat, NEW S, S \subseteq 0..n, S # {}
    PROVE  \E x \in S : \A y \in S : y <= x
<1> DEFINE gaps == {n - x : x \in S}
<1>1. gaps \subseteq Nat /\ gaps # {}
  <2>1. \A x \in S : x \in 0..n /\ n - x \in Nat
    OBVIOUS
  <2> QED  BY <2>1
<1>2. PICK d \in gaps : \A e \in gaps : d <= e
  BY <1>1, HasLeast
<1>3. PICK x \in S : d = n - x
  OBVIOUS
<1>4. \A y \in S : n - y \in gaps
  OBVIOUS
<1>5. \A y \in S : y <= x
  <2> HIDE DEF gaps
  <2> QED  BY <1>2, <1>3, <1>4
<1> QED  BY <1>5

\* The powers of two double.  They count the subsets of a set, which is all that the
\* library says of them.
LEMMA PowersDouble ==
    ASSUME NEW n \in Nat
    PROVE  2^n \in Nat \ {0} /\ 2^(n + 1) = 2 * 2^n
<1> DEFINE A == SUBSET (1..n)
           B == {x \cup {n + 1} : x \in A}
           f == [x \in A |-> x \cup {n + 1}]
<1>1. IsFiniteSet(1..n) /\ Cardinality(1..n) = n
  BY FS_Interval
<1>2. IsFiniteSet(A) /\ Cardinality(A) = 2^n
  BY <1>1, FS_SUBSET
<1>3. IsFiniteSet(1..(n + 1)) /\ Cardinality(1..(n + 1)) = n + 1
  BY FS_Interval
<1>4. Cardinality(SUBSET (1..(n + 1))) = 2^(n + 1)
  BY <1>3, FS_SUBSET
<1>5. \A x \in A : n + 1 \notin x
  OBVIOUS
<1>6. f \in Bijection(A, B)
  <2>1. \A x, y \in A : f[x] = f[y] => x = y
    BY <1>5
  <2>2. f \in [A -> B] /\ \A y \in B : \E x \in A : f[x] = y
    OBVIOUS
  <2> HIDE DEF A, B, f
  <2> QED  BY <2>1, <2>2, Fun_IsBij
<1>7. IsFiniteSet(B) /\ Cardinality(B) = 2^n
  BY <1>2, <1>6, FS_Bijection DEF ExistsBijection
<1>8. SUBSET (1..(n + 1)) = A \cup B
  <2>1. ASSUME NEW x \in SUBSET (1..(n + 1)), n + 1 \in x  PROVE x \in B
    <3>1. x \ {n + 1} \in A /\ x = (x \ {n + 1}) \cup {n + 1}
      BY <2>1
    <3> QED  BY <3>1
  <2>2. ASSUME NEW x \in SUBSET (1..(n + 1)), n + 1 \notin x  PROVE x \in A
    BY <2>2
  <2>3. ASSUME NEW x \in A  PROVE x \in SUBSET (1..(n + 1)) /\ x \cup {n + 1} \in SUBSET (1..(n + 1))
    OBVIOUS
  <2>4. A \subseteq SUBSET (1..(n + 1)) /\ B \subseteq SUBSET (1..(n + 1))
    <3> DEFINE T == SUBSET (1..(n + 1))
    <3>1. \A x \in A : x \in T /\ x \cup {n + 1} \in T
      BY <2>3
    <3> HIDE DEF A, T
    <3>2. A \subseteq T /\ B \subseteq T
      BY <3>1
    <3> QED  BY <3>2 DEF T
  <2>5. SUBSET (1..(n + 1)) \subseteq A \cup B
    <3> HIDE DEF A, B
    <3> QED  BY <2>1, <2>2
  <2> HIDE DEF A, B
  <2> QED  BY <2>4, <2>5
<1>9. A \cap B = {}
  BY <1>5
<1>10. 2^n \in Nat
  BY <1>2, FS_CardinalityType
<1>11. Cardinality(A \cup B) = 2^n + 2^n
  <2> HIDE DEF A, B
  <2>1. Cardinality(A \cup B) = Cardinality(A) + Cardinality(B) - Cardinality(A \cap B)
    BY <1>2, <1>7, FS_Union
  <2> QED  BY <2>1, <1>2, <1>7, <1>9, <1>10, FS_EmptySet
<1>12. 2^n # 0
  <2>1. {} \in A
    OBVIOUS
  <2> HIDE DEF A
  <2> QED  BY <2>1, <1>2, FS_EmptySet
<1>13. 2^(n + 1) = 2^n + 2^n
  BY <1>4, <1>8, <1>11
<1> HIDE DEF A, B, f
<1> QED  BY <1>10, <1>12, <1>13

\* The first of them.
LEMMA PowerOfZero == 2^0 = 1
OBVIOUS

\* A power of two is a multiple of every smaller one.
LEMMA PowersDivide ==
    ASSUME NEW p \in Nat, NEW q \in Nat
    PROVE  \E k \in Nat : 2^(p + q) = k * 2^q
<1> DEFINE S == {n \in Nat : \E k \in Nat : 2^(n + q) = k * 2^q}
<1>1. 0 \in S
  <2>1. 2^(0 + q) = 1 * 2^q
    BY PowersDouble
  <2> QED  BY <2>1
<1>2. ASSUME NEW n \in Nat, n \in S  PROVE n + 1 \in S
  <2>1. PICK k \in Nat : 2^(n + q) = k * 2^q
    BY <1>2
  <2>2. 2^((n + q) + 1) = 2 * 2^(n + q)
    BY PowersDouble
  <2>3. 2^((n + 1) + q) = 2 * (k * 2^q) /\ 2^q \in Nat
    BY <2>1, <2>2, PowersDouble
  <2>4. 2 * (k * 2^q) = (2 * k) * 2^q /\ 2 * k \in Nat
    BY <2>3
  <2>5. \E l \in Nat : 2^((n + 1) + q) = l * 2^q
    BY <2>3, <2>4
  <2> QED  BY <2>5
<1>3. \A n \in Nat : n \in S
  <2> HIDE DEF S
  <2> QED  BY <1>1, <1>2, InductionOnSets
<1> QED  BY <1>3

-----------------------------------------------------------------------------
(* Blocks of addresses *)

\* Products of naturals.
LEMMA Products ==
    ASSUME NEW m \in Nat \ {0}, NEW q \in Int, NEW k \in Int
    PROVE  /\ q < k => q * m + m <= k * m
           /\ q * m < k * m => q < k
           /\ q \in Nat => q * m \in Nat
<1>1. ASSUME q < k  PROVE q * m + m <= k * m
  <2>1. (k - q - 1) \in Nat
    BY <1>1
  <2>2. (k - q - 1) * m >= 0
    BY <2>1
  <2>3. (k - q - 1) * m = k * m - q * m - m
    OBVIOUS
  <2> QED  BY <2>2, <2>3
<1>2. ASSUME q * m < k * m, ~(q < k)  PROVE FALSE
  <2>1. (q - k) \in Nat
    BY <1>2
  <2>2. (q - k) * m >= 0
    BY <2>1
  <2>3. (q - k) * m = q * m - k * m
    OBVIOUS
  <2> QED  BY <1>2, <2>2, <2>3
<1>3. q \in Nat => q * m \in Nat
  OBVIOUS
<1> QED  BY <1>1, <1>2, <1>3

\* Division with remainder.
LEMMA Division ==
    ASSUME NEW m \in Nat \ {0}, NEW a \in Nat
    PROVE  /\ a % m \in 0..(m - 1) /\ a \div m \in Nat
           /\ a = (a \div m) * m + (a % m)
OBVIOUS

\* The remainder is the only number that is one.
LEMMA RemainderIs ==
    ASSUME NEW m \in Nat \ {0}, NEW q \in Nat, NEW r \in 0..(m - 1)
    PROVE  (q * m + r) % m = r
<1> DEFINE a == q * m + r
           d == a \div m
           e == a % m
<1>1. a \in Nat
  BY Products
<1>2. e \in 0..(m - 1) /\ d \in Nat /\ a = d * m + e
  BY <1>1, Division
<1>3. a = q * m + r
  OBVIOUS
<1> HIDE DEF a, d, e
<1>4. d * m \in Int /\ q * m \in Int
  BY <1>2
<1>5. ~(d < q)
  <2>1. ASSUME d < q  PROVE FALSE
    <3>1. d * m + m <= q * m
      BY <2>1, <1>2, Products
    <3> QED  BY <3>1, <1>2, <1>3, <1>4
  <2> QED  BY <2>1
<1>6. ~(q < d)
  <2>1. ASSUME q < d  PROVE FALSE
    <3>1. q * m + m <= d * m
      BY <2>1, <1>2, Products
    <3> QED  BY <3>1, <1>2, <1>3, <1>4
  <2> QED  BY <2>1
<1>7. d = q
  BY <1>2, <1>5, <1>6
<1>8. e = r
  BY <1>2, <1>3, <1>4, <1>7
<1> QED  BY <1>8 DEF e, a

\* The block an address is in, of blocks of m addresses.
LEMMA InBlock ==
    ASSUME NEW m \in Nat \ {0}, NEW a \in Nat
    PROVE  LET s == a - (a % m) IN s \in Nat /\ s % m = 0 /\ a \in s..(s + m - 1)
<1> DEFINE q == a \div m
           r == a % m
<1>1. r \in 0..(m - 1) /\ q \in Nat /\ a = q * m + r /\ q * m \in Nat
  <2>1. r \in 0..(m - 1) /\ q \in Nat /\ a = q * m + r
    BY Division
  <2> HIDE DEF q, r
  <2> QED  BY <2>1, Products
<1>2. a - (a % m) = q * m
  <2>1. a % m = r
    OBVIOUS
  <2> HIDE DEF q, r
  <2> QED  BY <2>1, <1>1
<1>3. (q * m + 0) % m = 0
  <2> HIDE DEF q
  <2> QED  BY <1>1, RemainderIs
<1> HIDE DEF q, r
<1>4. q * m + 0 = q * m
  BY <1>1
<1>5. (q * m) % m = 0
  BY <1>3, <1>4
<1>6. a \in (q * m)..(q * m + m - 1)
  BY <1>1
<1> QED  BY <1>1, <1>2, <1>5, <1>6

\* It is in no other.
LEMMA BlockOf ==
    ASSUME NEW m \in Nat \ {0}, NEW a \in Nat, NEW s \in Nat, s % m = 0
    PROVE  a - (a % m) = s <=> a \in s..(s + m - 1)
<1>1. ASSUME a - (a % m) = s  PROVE a \in s..(s + m - 1)
  BY <1>1, InBlock
<1>2. ASSUME a \in s..(s + m - 1)  PROVE a - (a % m) = s
  <2> DEFINE q == s \div m
             r == a - s
  <2>1. q \in Nat /\ s = q * m
    BY Division
  <2>2. r \in 0..(m - 1) /\ a = s + r
    BY <1>2
  <2> HIDE DEF q, r
  <2>3. a = q * m + r
    BY <2>1, <2>2
  <2>4. a % m = r
    BY <2>1, <2>2, <2>3, RemainderIs
  <2> QED  BY <2>2, <2>4
<1> QED  BY <1>1, <1>2

\* A block that begins before a multiple of its size ends before it.
LEMMA BlockWithin ==
    ASSUME NEW m \in Nat \ {0}, NEW s \in Nat, s % m = 0, NEW k \in Nat, s < k * m
    PROVE  s + m <= k * m
<1> DEFINE q == s \div m
<1>1. q \in Nat /\ s = q * m
  BY Division
<1> HIDE DEF q
<1>2. q < k
  BY <1>1, Products
<1>3. q * m + m <= k * m
  BY <1>1, <1>2, Products
<1> QED  BY <1>1, <1>3

\* The number of addresses in a block.
BlockSize(prefix) == 2^(Bits - prefix)
LEMMA BlockSizes ==
    ASSUME NEW p \in 0..Bits
    PROVE  /\ BlockSize(p) \in Nat \ {0} /\ 2^Bits \in Nat \ {0}
           /\ \E k \in Nat : 2^Bits = k * BlockSize(p)
<1>1. p \in Nat /\ Bits \in Nat /\ Bits - p \in Nat /\ p + (Bits - p) = Bits
  BY BitsAssumption
<1>2. BlockSize(p) \in Nat \ {0} /\ 2^Bits \in Nat \ {0}
  BY <1>1, PowersDouble DEF BlockSize
<1>3. \E k \in Nat : 2^(p + (Bits - p)) = k * 2^(Bits - p)
  BY <1>1, PowersDivide
<1> QED  BY <1>1, <1>2, <1>3 DEF BlockSize

\* The block that begins at an aligned address.
LEMMA AlignedBlock ==
    ASSUME NEW p \in 0..Bits, NEW s \in Address, Aligned(s, p)
    PROVE  /\ BlockStart(s, p) = s /\ BlockEnd(s, p) \in Address /\ s <= BlockEnd(s, p)
           /\ \A a \in Address : BlockStart(a, p) = s <=> a \in s..BlockEnd(s, p)
<1> DEFINE m == BlockSize(p)
<1>1. m \in Nat \ {0} /\ 2^Bits \in Nat \ {0} /\ \E k \in Nat : 2^Bits = k * m
  BY BlockSizes
<1>2. \A a \in Address : a \in Nat /\ a < 2^Bits
  BY <1>1 DEF Address
<1>3. /\ s % m = 0 /\ BlockEnd(s, p) = s + m - 1
      /\ \A a \in Address : BlockStart(a, p) = a - (a % m)
  BY DEF Aligned, BlockEnd, BlockStart, BlockSize
<1> HIDE DEF m
<1>4. PICK k \in Nat : 2^Bits = k * m
  BY <1>1
<1>5. s + m <= 2^Bits
  BY <1>1, <1>2, <1>3, <1>4, BlockWithin
<1>6. BlockEnd(s, p) \in Address /\ s <= BlockEnd(s, p)
  BY <1>1, <1>2, <1>3, <1>5 DEF Address
<1>7. ASSUME NEW a \in Address  PROVE BlockStart(a, p) = s <=> a \in s..BlockEnd(s, p)
  <2>1. a - (a % m) = s <=> a \in s..(s + m - 1)
    BY <1>1, <1>2, <1>3, BlockOf
  <2> QED  BY <2>1, <1>3
<1>8. s \in s..BlockEnd(s, p)
  BY <1>2, <1>6 DEF Address
<1> QED  BY <1>6, <1>7, <1>8

\* The block an address is in, by the length of the prefix.
LEMMA BlockFacts ==
    ASSUME NEW p \in 0..Bits, NEW a \in Address
    PROVE  BlockStart(a, p) \in Address /\ Aligned(BlockStart(a, p), p)
<1> DEFINE m == BlockSize(p)
           s == a - (a % m)
<1>1. m \in Nat \ {0} /\ 2^Bits \in Nat \ {0}
  BY BlockSizes
<1>2. a \in Nat /\ a < 2^Bits
  BY <1>1 DEF Address
<1>3. s \in Nat /\ s % m = 0 /\ a \in s..(s + m - 1)
  <2> HIDE DEF m
  <2> QED  BY <1>1, <1>2, InBlock
<1>4. BlockStart(a, p) = s
  BY DEF BlockStart, BlockSize
<1>5. Aligned(s, p)
  BY <1>3 DEF Aligned, BlockSize
<1> HIDE DEF s, m
<1>6. s \in Address
  BY <1>1, <1>2, <1>3 DEF Address
<1> QED  BY <1>4, <1>5, <1>6

-----------------------------------------------------------------------------
(* Sorting *)

AddrRange == [start : Address, end : Address, country : Nat]

\* Addresses are naturals.
LEMMA AddressIsNat == Address \subseteq Nat /\ 2^Bits \in Nat \ {0}
BY BitsAssumption, PowersDouble DEF Address

\* The order of ranges is total.
LEMMA BeforeIsOrder ==
    ASSUME NEW r \in AddrRange, NEW s \in AddrRange, NEW t \in AddrRange
    PROVE  /\ ~Before(r, r)
           /\ Before(r, s) /\ Before(s, t) => Before(r, t)
           /\ r = s \/ Before(r, s) \/ Before(s, r)
           /\ Before(r, s) => r.start <= s.start
<1>1. \A x \in AddrRange : /\ x.start \in Nat /\ x.end \in Nat /\ x.country \in Nat
                           /\ x = [start |-> x.start, end |-> x.end, country |-> x.country]
  <2> SUFFICES ASSUME NEW x \in AddrRange
               PROVE  /\ x.start \in Nat /\ x.end \in Nat /\ x.country \in Nat
                      /\ x = [start |-> x.start, end |-> x.end, country |-> x.country]
    OBVIOUS
  <2>1. x.start \in Address /\ x.end \in Address /\ x.country \in Nat
    BY DEF AddrRange
  <2>2. x = [start |-> x.start, end |-> x.end, country |-> x.country]
    BY DEF AddrRange
  <2> QED  BY <2>1, <2>2, AddressIsNat
<1>2. r = s \/ r.start # s.start \/ r.end # s.end \/ r.country # s.country
  BY <1>1
<1> QED  BY <1>1, <1>2 DEF Before

\* A finite set of ranges that is not empty has a last one.
LEMMA HasLast ==
    ASSUME NEW R \in SUBSET AddrRange, IsFiniteSet(R), R # {}
    PROVE  \E r \in R : \A q \in R : q = r \/ Before(q, r)
<1> DEFINE Has(Q) == \E r \in Q : \A q \in Q : q = r \/ Before(q, r)
           S == {n \in Nat : \A Q \in SUBSET AddrRange : IsFiniteSet(Q) /\ Q # {} /\ Cardinality(Q) = n => Has(Q)}
<1>1. 0 \in S
  BY FS_EmptySet
<1>2. ASSUME NEW n \in Nat, n \in S  PROVE n + 1 \in S
  <2> SUFFICES ASSUME NEW Q \in SUBSET AddrRange, IsFiniteSet(Q), Q # {}, Cardinality(Q) = n + 1
               PROVE  Has(Q)
    OBVIOUS
  <2>1. PICK x \in Q : TRUE
    OBVIOUS
  <2> DEFINE P == Q \ {x}
  <2>2. P \in SUBSET AddrRange /\ IsFiniteSet(P) /\ Cardinality(P) = n /\ x \in AddrRange
    <3>1. IsFiniteSet(P) /\ Cardinality(P) = Cardinality(Q) - 1
      BY <2>1, FS_RemoveElement
    <3> HIDE DEF P
    <3>2. Cardinality(P) = n
      BY <3>1
    <3> QED  BY <3>1, <3>2 DEF P
  <2>3. CASE P = {}
    <3>1. \A q \in Q : q = x
      BY <2>3
    <3> QED  BY <2>1, <3>1
  <2>4. CASE P # {}
    <3>1. Has(P)
      BY <1>2, <2>2, <2>4
    <3>2. PICK r \in P : \A q \in P : q = r \/ Before(q, r)
      BY <3>1
    <3>3. r \in Q /\ r \in AddrRange /\ \A q \in Q : q = x \/ q \in P
      OBVIOUS
    <3> HIDE DEF P, S
    <3>4. CASE Before(x, r)
      <4>1. \A q \in Q : q = r \/ Before(q, r)
        BY <3>2, <3>3, <3>4
      <4> QED  BY <3>3, <4>1
    <3>5. CASE ~Before(x, r)
      <4>1. x = r \/ Before(r, x)
        BY <2>2, <3>3, <3>5, BeforeIsOrder
      <4>2. ASSUME NEW q \in Q  PROVE q = x \/ Before(q, x)
        <5>1. q = x \/ q = r \/ Before(q, r)
          BY <3>2, <3>3
        <5>2. Before(q, r) /\ Before(r, x) => Before(q, x)
          BY <2>2, <3>3, BeforeIsOrder
        <5> QED  BY <4>1, <5>1, <5>2
      <4> QED  BY <2>1, <4>2
    <3> QED  BY <3>4, <3>5
  <2> QED  BY <2>3, <2>4
<1>3. \A n \in Nat : n \in S
  <2> HIDE DEF S
  <2> QED  BY <1>1, <1>2, InductionOnSets
<1>4. Cardinality(R) \in Nat
  BY FS_CardinalityType
<1> QED  BY <1>3, <1>4

\* A finite set of ranges can be sorted.
InOrder(s, n) == \A i, j \in 1..n : i < j => Before(s[i], s[j])
LEMMA CanBeSorted ==
    ASSUME NEW R \in SUBSET AddrRange, IsFiniteSet(R)
    PROVE  \E s \in [1..Cardinality(R) -> R] : InOrder(s, Cardinality(R))
<1> DEFINE Has(Q, n) == \E s \in [1..n -> Q] : InOrder(s, n)
           S == {n \in Nat : \A Q \in SUBSET AddrRange : IsFiniteSet(Q) /\ Cardinality(Q) = n => Has(Q, n)}
<1>1. 0 \in S
  <2> SUFFICES ASSUME NEW Q \in SUBSET AddrRange  PROVE Has(Q, 0)
    OBVIOUS
  <2>1. [i \in 1..0 |-> i] \in [1..0 -> Q] /\ InOrder([i \in 1..0 |-> i], 0)
    BY DEF InOrder
  <2> QED  BY <2>1
<1>2. ASSUME NEW n \in Nat, n \in S  PROVE n + 1 \in S
  <2> SUFFICES ASSUME NEW Q \in SUBSET AddrRange, IsFiniteSet(Q), Cardinality(Q) = n + 1
               PROVE  Has(Q, n + 1)
    OBVIOUS
  <2>1. Q # {}
    BY FS_EmptySet
  <2>2. PICK x \in Q : \A q \in Q : q = x \/ Before(q, x)
    BY <2>1, HasLast
  <2> DEFINE P == Q \ {x}
  <2>3. P \in SUBSET AddrRange /\ IsFiniteSet(P) /\ Cardinality(P) = n
    <3>1. IsFiniteSet(P) /\ Cardinality(P) = Cardinality(Q) - 1
      BY FS_RemoveElement
    <3> HIDE DEF P
    <3>2. Cardinality(P) = n
      BY <3>1
    <3> QED  BY <3>1, <3>2 DEF P
  <2>4. PICK t \in [1..n -> P] : InOrder(t, n)
    BY <1>2, <2>3
  <2> DEFINE s == [i \in 1..(n + 1) |-> IF i = n + 1 THEN x ELSE t[i]]
  <2>5. \A i \in 1..n : t[i] \in Q /\ t[i] # x
    OBVIOUS
  <2>6. \A i \in 1..(n + 1) : i = n + 1 \/ i \in 1..n
    OBVIOUS
  <2>7. s \in [1..(n + 1) -> Q]
    BY <2>5, <2>6
  <2>8. ASSUME NEW i \in 1..(n + 1), NEW j \in 1..(n + 1), i < j  PROVE Before(s[i], s[j])
    <3>1. i \in 1..n /\ s[i] = t[i]
      BY <2>8
    <3>2. CASE j = n + 1
      <4>1. s[j] = x
        BY <3>2
      <4>2. Before(t[i], x)
        BY <2>2, <2>5, <3>1
      <4> QED  BY <3>1, <4>1, <4>2
    <3>3. CASE j # n + 1
      <4>1. j \in 1..n /\ s[j] = t[j]
        BY <3>3
      <4>2. Before(t[i], t[j])
        BY <2>4, <2>8, <3>1, <4>1 DEF InOrder
      <4> QED  BY <3>1, <4>1, <4>2
    <3> QED  BY <3>2, <3>3
  <2>9. InOrder(s, n + 1)
    <3> HIDE DEF s
    <3> QED  BY <2>8 DEF InOrder
  <2> HIDE DEF s
  <2> QED  BY <2>7, <2>9
<1>3. \A n \in Nat : n \in S
  <2> HIDE DEF S
  <2> QED  BY <1>1, <1>2, InductionOnSets
<1>4. Cardinality(R) \in Nat
  BY FS_CardinalityType
<1>5. Has(R, Cardinality(R))
  BY <1>3, <1>4
<1> QED  BY <1>5

\* So Sorted lists all of the ranges, each once and by the start.
LEMMA SortedIs ==
    ASSUME NEW R \in SUBSET AddrRange, IsFiniteSet(R)
    PROVE  /\ Sorted(R) \in Seq(AddrRange)
           /\ \A i \in 1..Len(Sorted(R)) : Sorted(R)[i] \in R
           /\ \A r \in R : \E i \in 1..Len(Sorted(R)) : Sorted(R)[i] = r
           /\ \A i, j \in 1..Len(Sorted(R)) : i < j => Sorted(R)[i].start <= Sorted(R)[j].start
<1> DEFINE n == Cardinality(R)
           s == Sorted(R)
<1>1. n \in Nat
  BY FS_CardinalityType
<1>2. \E t \in [1..n -> R] : \A i, j \in DOMAIN t : i < j => Before(t[i], t[j])
  <2>1. PICK t \in [1..n -> R] : InOrder(t, n)
    BY CanBeSorted
  <2>2. DOMAIN t = 1..n
    OBVIOUS
  <2> QED  BY <2>1, <2>2 DEF InOrder
<1>3. s \in [1..n -> R] /\ \A i, j \in DOMAIN s : i < j => Before(s[i], s[j])
  BY <1>2, Zenon DEF Sorted
<1> HIDE DEF s
<1>4. DOMAIN s = 1..n /\ \A i \in 1..n : s[i] \in R /\ s[i] \in AddrRange
  BY <1>3
<1> HIDE DEF n
<1>5. s \in Seq(AddrRange) /\ Len(s) = n
  <2>1. s \in [1..n -> AddrRange]
    BY <1>3, <1>4
  <2> QED  BY <1>1, <2>1
<1>6. ASSUME NEW i \in 1..n, NEW j \in 1..n, s[i] = s[j]  PROVE i = j
  <2>1. ~Before(s[i], s[j]) /\ ~Before(s[j], s[i])
    BY <1>4, <1>6, BeforeIsOrder
  <2>2. ~(i < j) /\ ~(j < i)
    BY <1>3, <1>4, <2>1
  <2> QED  BY <1>1, <2>2
<1>7. s \in Injection(1..n, R)
  BY <1>3, <1>6, Fun_IsInj
<1>8. IsFiniteSet(1..n) /\ Cardinality(1..n) = Cardinality(R)
  BY <1>1, FS_Interval DEF n
<1>9. s \in Surjection(1..n, R)
  BY <1>7, <1>8, FS_Injection
<1>10. \A r \in R : \E i \in 1..n : s[i] = r
  BY <1>9 DEF Surjection
<1>11. \A i, j \in 1..n : i < j => s[i].start <= s[j].start
  BY <1>3, <1>4, BeforeIsOrder
<1> QED  BY <1>4, <1>5, <1>10, <1>11 DEF s

-----------------------------------------------------------------------------
(* Merging *)

\* A list has an address under a country.
Has(ranges, a, c) == \E i \in 1..Len(ranges) : ranges[i].country = c /\ a \in ranges[i].start..ranges[i].end
Nonempty(ranges) == \A i \in 1..Len(ranges) : ranges[i].start <= ranges[i].end
\* Neighbours do not even touch.
Apart(ranges) == \A i \in 1..(Len(ranges) - 1) : ranges[i].end + 1 < ranges[i + 1].start

\* One range more that begins no earlier than the last one.
LEMMA AbsorbAdds ==
    ASSUME NEW d \in Seq(AddrRange), Nonempty(d), NEW r \in AddrRange, r.start <= r.end,
           d # <<>> => d[Len(d)].start <= r.start
    PROVE  /\ Absorb(d, r) \in Seq(AddrRange) /\ Nonempty(Absorb(d, r))
           /\ \A i \in 1..Len(Absorb(d, r)) : \/ i \in 1..Len(d) /\ Absorb(d, r)[i].start = d[i].start
                                              \/ Absorb(d, r)[i].start = r.start
           /\ \A a \in Address, c \in Nat :
                Has(Absorb(d, r), a, c) <=> Has(d, a, c) \/ (r.country = c /\ a \in r.start..r.end)
           /\ Apart(d) /\ (\A i \in 1..Len(d) : d[i].country = r.country) =>
                Apart(Absorb(d, r)) /\ \A i \in 1..Len(Absorb(d, r)) : Absorb(d, r)[i].country = r.country
<1> DEFINE n == Len(d)
           e == Absorb(d, r)
<1>1. n \in Nat /\ \A i \in 1..n : d[i] \in AddrRange
  OBVIOUS
<1>2. \A x \in AddrRange : x.start \in Nat /\ x.end \in Nat /\ x.country \in Nat
  BY AddressIsNat DEF AddrRange
<1>3. CASE d # <<>> /\ Continues(d[n], r)
  <2>1. n \in 1..n
    BY <1>1, <1>3
  <2> DEFINE f == [d EXCEPT ![n].end = Larger(@, r.end)]
             x == [d[n] EXCEPT !.end = Larger(@, r.end)]
  <2>2. e = f
    BY <1>3 DEF Absorb
  <2>3. /\ x \in AddrRange /\ x.start = d[n].start /\ x.country = d[n].country
        /\ x.end = Larger(d[n].end, r.end)
    <3>1. d[n] \in AddrRange /\ r.end \in Address
      BY <1>1, <2>1 DEF AddrRange
    <3> QED  BY <3>1 DEF AddrRange, Larger
  <2>4. /\ f \in Seq(AddrRange) /\ Len(f) = n /\ f[n] = x
        /\ \A i \in 1..n : i # n => f[i] = d[i]
    BY <1>1, <2>1, <2>3
  <2> HIDE DEF f, x
  <2>5. d[n].country = r.country /\ r.start <= d[n].end + 1 /\ d[n].start <= r.start
    BY <1>3 DEF Continues
  <2>6. x.end \in Nat /\ d[n].end <= x.end /\ r.end <= x.end /\ (x.end = d[n].end \/ x.end = r.end)
    BY <1>1, <1>2, <2>1, <2>3 DEF Larger
  <2>7. Nonempty(f)
    <3>1. x.start <= x.end
      BY <1>1, <1>2, <2>1, <2>3, <2>6 DEF Nonempty
    <3> QED  BY <2>4, <3>1 DEF Nonempty
  <2>8. \A i \in 1..Len(f) : i \in 1..n /\ f[i].start = d[i].start /\ f[i].country = d[i].country
    BY <2>3, <2>4
  <2>9. ASSUME NEW a \in Address
        PROVE  a \in x.start..x.end <=> a \in d[n].start..d[n].end \/ a \in r.start..r.end
    BY <1>1, <1>2, <2>1, <2>3, <2>5, <2>6, AddressIsNat
  <2>10. ASSUME NEW a \in Address, NEW c \in Nat
         PROVE  Has(f, a, c) <=> Has(d, a, c) \/ (r.country = c /\ a \in r.start..r.end)
    <3>1. ASSUME Has(f, a, c)  PROVE Has(d, a, c) \/ (r.country = c /\ a \in r.start..r.end)
      <4>1. PICK i \in 1..n : f[i].country = c /\ a \in f[i].start..f[i].end
        BY <3>1, <2>4 DEF Has
      <4>2. CASE i = n
        BY <4>1, <4>2, <2>1, <2>3, <2>4, <2>5, <2>9 DEF Has
      <4>3. CASE i # n
        BY <4>1, <4>3, <2>4 DEF Has
      <4> QED  BY <4>2, <4>3
    <3>2. ASSUME Has(d, a, c)  PROVE Has(f, a, c)
      <4>1. PICK i \in 1..n : d[i].country = c /\ a \in d[i].start..d[i].end
        BY <3>2 DEF Has
      <4>2. CASE i = n
        BY <4>1, <4>2, <2>1, <2>3, <2>4, <2>9 DEF Has
      <4>3. CASE i # n
        BY <4>1, <4>3, <2>4 DEF Has
      <4> QED  BY <4>2, <4>3
    <3>3. ASSUME r.country = c, a \in r.start..r.end  PROVE Has(f, a, c)
      BY <3>3, <2>1, <2>3, <2>4, <2>5, <2>9 DEF Has
    <3> QED  BY <3>1, <3>2, <3>3
  <2>11. ASSUME Apart(d)  PROVE Apart(f)
    <3> SUFFICES ASSUME NEW i \in 1..(n - 1)  PROVE f[i].end + 1 < f[i + 1].start
      BY <2>4 DEF Apart
    <3>1. i \in 1..n /\ i # n /\ i + 1 \in 1..n
      BY <1>1
    <3>2. f[i].end = d[i].end /\ f[i + 1].start = d[i + 1].start
      BY <2>4, <2>8, <3>1
    <3> QED  BY <2>11, <3>2 DEF Apart
  <2> QED  BY <2>2, <2>4, <2>7, <2>8, <2>10, <2>11
<1>4. CASE ~(d # <<>> /\ Continues(d[n], r))
  <2> DEFINE f == Append(d, r)
  <2>1. e = f
    BY <1>4 DEF Absorb
  <2>2. f \in Seq(AddrRange) /\ Len(f) = n + 1 /\ f[n + 1] = r /\ \A i \in 1..n : f[i] = d[i]
    OBVIOUS
  <2> HIDE DEF f
  <2>3. \A i \in 1..Len(f) : i \in 1..n \/ i = n + 1
    BY <1>1, <2>2
  <2>4. Nonempty(f)
    BY <2>2, <2>3 DEF Nonempty
  <2>5. ASSUME NEW a \in Address, NEW c \in Nat
        PROVE  Has(f, a, c) <=> Has(d, a, c) \/ (r.country = c /\ a \in r.start..r.end)
    <3>1. ASSUME Has(f, a, c)  PROVE Has(d, a, c) \/ (r.country = c /\ a \in r.start..r.end)
      BY <3>1, <2>2, <2>3 DEF Has
    <3>2. ASSUME Has(d, a, c)  PROVE Has(f, a, c)
      <4>1. PICK i \in 1..n : d[i].country = c /\ a \in d[i].start..d[i].end
        BY <3>2 DEF Has
      <4>2. i \in 1..Len(f) /\ f[i] = d[i]
        BY <1>1, <2>2
      <4> QED  BY <4>1, <4>2 DEF Has
    <3>3. ASSUME r.country = c, a \in r.start..r.end  PROVE Has(f, a, c)
      <4>1. n + 1 \in 1..Len(f)
        BY <1>1, <2>2
      <4> QED  BY <3>3, <2>2, <4>1 DEF Has
    <3> QED  BY <3>1, <3>2, <3>3
  <2>6. ASSUME Apart(d), \A i \in 1..n : d[i].country = r.country  PROVE Apart(f)
    <3> SUFFICES ASSUME NEW i \in 1..n  PROVE f[i].end + 1 < f[i + 1].start
      BY <1>1, <2>2 DEF Apart
    <3>1. CASE i = n
      <4>1. d # <<>> /\ d[n].country = r.country
        BY <1>1, <2>6, <3>1
      <4>2. ~(r.start <= d[n].end + 1)
        BY <1>4, <4>1 DEF Continues
      <4>3. d[n].end \in Nat /\ r.start \in Nat /\ f[i] = d[n] /\ f[i + 1] = r
        BY <1>1, <1>2, <2>2, <3>1
      <4> QED  BY <4>2, <4>3
    <3>2. CASE i # n
      <4>1. i \in 1..(n - 1) /\ i + 1 \in 1..n
        BY <1>1, <3>2
      <4> QED  BY <2>2, <2>6, <4>1 DEF Apart
    <3> QED  BY <3>1, <3>2
  <2> QED  BY <2>1, <2>2, <2>3, <2>4, <2>5, <2>6
<1> QED  BY <1>3, <1>4

\* The loop is defined by what each turn of it does.
LEMMA MergedSteps ==
    ASSUME NEW s \in Seq(AddrRange)
    PROVE  \E m : /\ m[0] = <<>> /\ Merged(s) = m[Len(s)]
                  /\ \A n \in 1..Len(s) : m[n] = Absorb(m[n - 1], s[n])
<1> DEFINE L == Len(s)
           Turn(m, n) == IF n = 0 THEN <<>> ELSE Absorb(m[n - 1], s[n])
           S == {k \in Nat : \E m : /\ m = [n \in 0..L |-> m[n]]
                                    /\ \A n \in 0..L : n <= k => m[n] = Turn(m, n)}
<1>0. L \in Nat
  OBVIOUS
<1>1. 0 \in S
  <2> DEFINE m == [n \in 0..L |-> <<>>]
  <2>1. m = [n \in 0..L |-> m[n]]
    OBVIOUS
  <2>2. \A n \in 0..L : n <= 0 => m[n] = Turn(m, n)
    OBVIOUS
  <2> HIDE DEF m
  <2> QED  BY <2>1, <2>2
<1>2. ASSUME NEW k \in Nat, k \in S  PROVE k + 1 \in S
  <2>1. PICK m : /\ m = [n \in 0..L |-> m[n]]
                 /\ \A n \in 0..L : n <= k => m[n] = Turn(m, n)
    BY <1>2
  <2> DEFINE w == [n \in 0..L |-> IF n <= k THEN m[n] ELSE Turn(m, n)]
  <2>2. w = [n \in 0..L |-> w[n]]
    OBVIOUS
  <2>3. ASSUME NEW n \in 0..L, n <= k + 1  PROVE w[n] = Turn(w, n)
    <3>1. w[n] = Turn(m, n)
      BY <2>1
    <3>2. n # 0 => n - 1 \in 0..L /\ n - 1 <= k
      BY <1>0, <2>3
    <3>3. n # 0 => w[n - 1] = m[n - 1]
      BY <3>2
    <3> QED  BY <3>1, <3>3
  <2> HIDE DEF w
  <2>4. \A n \in 0..L : n <= k + 1 => w[n] = Turn(w, n)
    BY <2>3
  <2> HIDE DEF Turn
  <2> QED  BY <2>2, <2>4
<1>3. L \in S
  <2> HIDE DEF S
  <2>1. \A k \in Nat : k \in S
    BY <1>1, <1>2, InductionOnSets
  <2> QED  BY <1>0, <2>1
<1>4. PICK m : m = [n \in 0..L |-> m[n]] /\ \A n \in 0..L : m[n] = Turn(m, n)
  BY <1>0, <1>3
<1>5. m = [n \in 0..L |-> Turn(m, n)]
  <2> HIDE DEF Turn
  <2> QED  BY <1>4
<1>6. \E g : g = [n \in 0..Len(s) |-> IF n = 0 THEN <<>> ELSE Absorb(g[n - 1], s[n])]
  BY <1>5, Zenon
<1>7. PICK g : /\ g = [n \in 0..Len(s) |-> IF n = 0 THEN <<>> ELSE Absorb(g[n - 1], s[n])]
               /\ Merged(s) = g[Len(s)]
  BY <1>6, Zenon DEF Merged
<1>8. g[0] = <<>> /\ \A n \in 1..Len(s) : g[n] = Absorb(g[n - 1], s[n])
  BY <1>0, <1>7
<1> QED  BY <1>7, <1>8

\* Merging keeps every address with its country and adds none.
LEMMA NormalizeKeeps ==
    ASSUME NEW R \in SUBSET AddrRange, IsFiniteSet(R), \A r \in R : r.start <= r.end
    PROVE  /\ Normalize(R) \in Seq(AddrRange) /\ Nonempty(Normalize(R))
           /\ \A a \in Address, c \in Nat :
                Has(Normalize(R), a, c) <=> \E r \in R : r.country = c /\ a \in r.start..r.end
           /\ (\A r, q \in R : r.country = q.country) => Apart(Normalize(R))
<1> DEFINE s == Sorted(R)
           L == Len(s)
           OneCountry == \A r, q \in R : r.country = q.country
<1>1. /\ s \in Seq(AddrRange) /\ \A i \in 1..L : s[i] \in R
      /\ \A r \in R : \E i \in 1..L : s[i] = r
      /\ \A i, j \in 1..L : i < j => s[i].start <= s[j].start
  BY SortedIs
<1> HIDE DEF s
<1>2. L \in Nat /\ \A i \in 1..L : s[i] \in AddrRange /\ s[i].start <= s[i].end
  BY <1>1
<1>3. PICK m : /\ m[0] = <<>> /\ Merged(s) = m[L]
               /\ \A n \in 1..L : m[n] = Absorb(m[n - 1], s[n])
  BY <1>1, MergedSteps
<1> HIDE DEF L
<1> DEFINE Good(d, n) ==
             /\ d \in Seq(AddrRange) /\ Nonempty(d)
             /\ \A i \in 1..Len(d) : \E k \in 1..n : d[i].start = s[k].start
             /\ \A a \in Address, c \in Nat :
                  Has(d, a, c) <=> \E k \in 1..n : s[k].country = c /\ a \in s[k].start..s[k].end
             /\ OneCountry => Apart(d) /\ \A i \in 1..Len(d) : \A r \in R : d[i].country = r.country
           S == {n \in Nat : n <= L => Good(m[n], n)}
<1>4. 0 \in S
  <2>1. Good(<<>>, 0)
    BY DEF Nonempty, Has, Apart
  <2> HIDE DEF Good
  <2> QED  BY <1>3, <2>1
<1>5. ASSUME NEW n \in Nat, n \in S  PROVE n + 1 \in S
  <2> SUFFICES ASSUME n + 1 <= L  PROVE Good(m[n + 1], n + 1)
    OBVIOUS
  <2> DEFINE d == m[n]
             r == s[n + 1]
             e == Absorb(d, r)
  <2>1. Good(d, n)
    BY <1>2, <1>5
  <2>2. n + 1 \in 1..L /\ (n + 1) - 1 = n /\ \A k \in 1..n : k \in 1..L /\ k < n + 1
    BY <1>2
  <2>3. m[n + 1] = e
    BY <1>3, <2>2
  <2>4. r \in AddrRange /\ r \in R /\ r.start <= r.end
    BY <1>1, <1>2, <2>2 DEF L
  <2> HIDE DEF r, d, S
  <2>5. d # <<>> => d[Len(d)].start <= r.start
    <3> SUFFICES ASSUME d # <<>>  PROVE d[Len(d)].start <= r.start
      OBVIOUS
    <3>1. Len(d) \in 1..Len(d)
      BY <2>1
    <3>2. PICK k \in 1..n : d[Len(d)].start = s[k].start
      BY <2>1, <3>1
    <3> QED  BY <1>1, <2>2, <3>2 DEF r, L
  <2>6. /\ e \in Seq(AddrRange) /\ Nonempty(e)
        /\ \A i \in 1..Len(e) : \/ i \in 1..Len(d) /\ e[i].start = d[i].start
                                \/ e[i].start = r.start
        /\ \A a \in Address, c \in Nat : Has(e, a, c) <=> Has(d, a, c) \/ (r.country = c /\ a \in r.start..r.end)
        /\ Apart(d) /\ (\A i \in 1..Len(d) : d[i].country = r.country) =>
             Apart(e) /\ \A i \in 1..Len(e) : e[i].country = r.country
    BY <2>1, <2>4, <2>5, AbsorbAdds
  <2> HIDE DEF e
  <2>7. ASSUME NEW i \in 1..Len(e)  PROVE \E k \in 1..(n + 1) : e[i].start = s[k].start
    <3>1. CASE i \in 1..Len(d) /\ e[i].start = d[i].start
      BY <2>1, <3>1
    <3>2. CASE e[i].start = r.start
      BY <3>2 DEF r
    <3> QED  BY <2>6, <3>1, <3>2
  <2>8. ASSUME NEW a \in Address, NEW c \in Nat
        PROVE  Has(e, a, c) <=> \E k \in 1..(n + 1) : s[k].country = c /\ a \in s[k].start..s[k].end
    <3>1. Has(e, a, c) <=> (\E k \in 1..n : s[k].country = c /\ a \in s[k].start..s[k].end)
                              \/ (r.country = c /\ a \in r.start..r.end)
      BY <2>1, <2>6
    <3>2. \A k : k \in 1..(n + 1) <=> k \in 1..n \/ k = n + 1
      OBVIOUS
    <3> QED  BY <3>1, <3>2 DEF r
  <2>9. ASSUME OneCountry
        PROVE  Apart(e) /\ \A i \in 1..Len(e) : \A q \in R : e[i].country = q.country
    <3>1. Apart(d) /\ \A i \in 1..Len(d) : d[i].country = r.country
      BY <2>1, <2>4, <2>9
    <3>2. Apart(e) /\ \A i \in 1..Len(e) : e[i].country = r.country
      BY <2>6, <3>1
    <3>3. \A q \in R : q.country = r.country
      BY <2>4, <2>9
    <3> QED  BY <3>2, <3>3
  <2>10. Good(e, n + 1)
    <3> HIDE DEF OneCountry
    <3> QED  BY <2>6, <2>7, <2>8, <2>9
  <2> HIDE DEF Good
  <2> QED  BY <2>3, <2>10
<1>6. Good(m[L], L)
  <2>1. \A n \in Nat : n \in S
    <3> HIDE DEF S
    <3> QED  BY <1>4, <1>5, InductionOnSets
  <2> HIDE DEF Good
  <2> QED  BY <1>2, <2>1
<1>7. Normalize(R) = m[L]
  BY <1>3 DEF Normalize, s
<1>8. ASSUME NEW a \in Address, NEW c \in Nat
      PROVE  (\E k \in 1..L : s[k].country = c /\ a \in s[k].start..s[k].end)
               <=> \E r \in R : r.country = c /\ a \in r.start..r.end
  <2>1. (\A i \in 1..L : s[i] \in R) /\ \A r \in R : \E i \in 1..L : s[i] = r
    BY <1>1 DEF L
  <2> QED  BY <2>1
<1> QED  BY <1>6, <1>7, <1>8

\* Ranges of which no two neighbours overlap are in order.
LEMMA NeighboursSuffice ==
    ASSUME NEW d \in Seq(AddrRange), Nonempty(d), ~Overlapping(d),
           NEW i \in 1..Len(d), NEW j \in 1..Len(d), i < j
    PROVE  d[i].end < d[j].start
<1> DEFINE S == {n \in Nat : i + 1 + n <= Len(d) => d[i].end < d[i + 1 + n].start}
<1>1. Len(d) \in Nat /\ \A k \in 1..Len(d) : d[k].start \in Nat /\ d[k].end \in Nat /\ d[k].start <= d[k].end
  <2>1. \A x \in AddrRange : x.start \in Nat /\ x.end \in Nat
    BY AddressIsNat DEF AddrRange
  <2> QED  BY <2>1 DEF Nonempty
<1>2. \A k \in 1..(Len(d) - 1) : d[k].end < d[k + 1].start
  <2> SUFFICES ASSUME NEW k \in 1..(Len(d) - 1)  PROVE d[k].end < d[k + 1].start
    OBVIOUS
  <2>1. ~(d[k].end >= d[k + 1].start)
    BY DEF Overlapping
  <2>2. k \in 1..Len(d) /\ k + 1 \in 1..Len(d)
    BY <1>1
  <2> QED  BY <1>1, <2>1, <2>2
<1>3. 0 \in S
  BY <1>1, <1>2
<1>4. ASSUME NEW n \in Nat, n \in S  PROVE n + 1 \in S
  <2> SUFFICES ASSUME i + 1 + (n + 1) <= Len(d)  PROVE d[i].end < d[i + 1 + (n + 1)].start
    OBVIOUS
  <2> DEFINE k == i + 1 + n
  <2>1. k \in 1..(Len(d) - 1) /\ k \in 1..Len(d) /\ k + 1 \in 1..Len(d) /\ i + 1 + (n + 1) = k + 1 /\ k <= Len(d)
    BY <1>1
  <2>2. d[i].end < d[k].start
    BY <1>4, <2>1
  <2> HIDE DEF k, S
  <2>3. d[k].end < d[k + 1].start
    BY <1>2, <2>1
  <2> QED  BY <1>1, <2>1, <2>2, <2>3
<1>5. \A n \in Nat : n \in S
  <2> HIDE DEF S
  <2> QED  BY <1>3, <1>4, InductionOnSets
<1> DEFINE n == j - i - 1
<1>6. n \in Nat /\ i + 1 + n = j /\ j <= Len(d)
  BY <1>1
<1>7. i + 1 + n <= Len(d) => d[i].end < d[i + 1 + n].start
  <2> HIDE DEF n
  <2> QED  BY <1>5, <1>6
<1> HIDE DEF n
<1> QED  BY <1>6, <1>7

-----------------------------------------------------------------------------
(* Bisection *)

\* The search is defined by its steps: it narrows the window.
LEMMA BisectSteps ==
    ASSUME NEW d \in Seq(AddrRange), NEW a \in Address
    PROVE  \E f : /\ Bisect(d, a) = f[<<0, Len(d)>>]
                  /\ \A low, high \in 0..Len(d) :
                       LET mid == low + (high - low) \div 2 IN
                       f[<<low, high>>] = IF low >= high THEN NoCountry
                                          ELSE IF a < d[mid + 1].start THEN f[<<low, mid>>]
                                          ELSE IF a > d[mid + 1].end THEN f[<<mid + 1, high>>]
                                          ELSE d[mid + 1].country
<1> DEFINE L == Len(d)
           D == (0..L) \X (0..L)
           Mid(w) == w[1] + (w[2] - w[1]) \div 2
           Turn(f, w) == IF w[1] >= w[2] THEN NoCountry
                         ELSE IF a < d[Mid(w) + 1].start THEN f[<<w[1], Mid(w)>>]
                         ELSE IF a > d[Mid(w) + 1].end THEN f[<<Mid(w) + 1, w[2]>>]
                         ELSE d[Mid(w) + 1].country
           S == {k \in Nat : \E f : /\ f = [w \in D |-> f[w]]
                                    /\ \A w \in D : w[2] - w[1] <= k => f[w] = Turn(f, w)}
<1>0. L \in Nat
  OBVIOUS
<1>1. \A w \in D : /\ w[1] \in 0..L /\ w[2] \in 0..L /\ w = <<w[1], w[2]>>
  OBVIOUS
<1>2. ASSUME NEW w \in D, ~(w[1] >= w[2])
      PROVE  /\ Mid(w) \in 0..L /\ Mid(w) + 1 \in 0..L /\ w[1] <= Mid(w) /\ Mid(w) < w[2]
             /\ <<w[1], Mid(w)>> \in D /\ <<Mid(w) + 1, w[2]>> \in D
  <2> DEFINE h == (w[2] - w[1]) \div 2
  <2>1. h \in Nat /\ h < w[2] - w[1]
    BY <1>0, <1>1, <1>2
  <2>2. Mid(w) = w[1] + h
    OBVIOUS
  <2> HIDE DEF h, Mid
  <2>3. Mid(w) \in 0..L /\ Mid(w) + 1 \in 0..L /\ w[1] <= Mid(w) /\ Mid(w) < w[2]
    BY <1>0, <1>1, <1>2, <2>1, <2>2
  <2> QED  BY <1>1, <2>3
<1>3. 0 \in S
  <2> DEFINE f == [w \in D |-> NoCountry]
  <2>1. f = [w \in D |-> f[w]]
    OBVIOUS
  <2>2. \A w \in D : w[2] - w[1] <= 0 => f[w] = Turn(f, w)
    BY <1>1
  <2> HIDE DEF f, Turn, D
  <2> QED  BY <2>1, <2>2
<1>4. ASSUME NEW k \in Nat, k \in S  PROVE k + 1 \in S
  <2>1. PICK f : /\ f = [w \in D |-> f[w]]
                 /\ \A w \in D : w[2] - w[1] <= k => f[w] = Turn(f, w)
    BY <1>4
  <2> DEFINE g == [w \in D |-> IF w[2] - w[1] <= k THEN f[w] ELSE Turn(f, w)]
  <2>2. g = [w \in D |-> g[w]]
    OBVIOUS
  <2>3. ASSUME NEW w \in D, w[2] - w[1] <= k + 1  PROVE g[w] = Turn(g, w)
    <3>1. g[w] = Turn(f, w)
      <4> HIDE DEF Turn, D
      <4> QED  BY <2>1
    <3>2. CASE w[1] >= w[2]
      BY <3>1, <3>2
    <3>3. CASE ~(w[1] >= w[2])
      <4> DEFINE m == Mid(w)
      <4>1. /\ m \in 0..L /\ w[1] <= m /\ m < w[2]
            /\ <<w[1], m>> \in D /\ <<m + 1, w[2]>> \in D
        BY <1>2, <3>3
      <4> HIDE DEF m, Mid
      <4>2. m - w[1] <= k /\ w[2] - (m + 1) <= k
        BY <1>0, <1>1, <2>3, <4>1
      <4>3. g[<<w[1], m>>] = f[<<w[1], m>>] /\ g[<<m + 1, w[2]>>] = f[<<m + 1, w[2]>>]
        <5> HIDE DEF Turn, D
        <5> QED  BY <4>1, <4>2
      <4>4. Turn(g, w) = Turn(f, w)
        <5> HIDE DEF g
        <5> QED  BY <4>3 DEF m
      <4> QED  BY <3>1, <4>4
    <3> QED  BY <3>2, <3>3
  <2> HIDE DEF g
  <2>4. \A w \in D : w[2] - w[1] <= k + 1 => g[w] = Turn(g, w)
    BY <2>3
  <2> HIDE DEF Turn, D
  <2> QED  BY <2>2, <2>4
<1>5. L \in S
  <2> HIDE DEF S
  <2>1. \A k \in Nat : k \in S
    BY <1>3, <1>4, InductionOnSets
  <2> QED  BY <1>0, <2>1
<1>6. PICK f : f = [w \in D |-> f[w]] /\ \A w \in D : f[w] = Turn(f, w)
  <2>1. PICK f : f = [w \in D |-> f[w]] /\ \A w \in D : w[2] - w[1] <= L => f[w] = Turn(f, w)
    BY <1>5
  <2>2. \A w \in D : w[2] - w[1] <= L
    BY <1>0, <1>1
  <2> HIDE DEF Turn, D
  <2> QED  BY <2>1, <2>2
<1>7. f = [w \in D |-> Turn(f, w)]
  <2> HIDE DEF Turn, D
  <2> QED  BY <1>6
<1>8. \E g : g = [w \in (0..Len(d)) \X (0..Len(d)) |->
                    LET low == w[1]  high == w[2]  mid == low + (high - low) \div 2 IN
                    IF low >= high THEN NoCountry
                    ELSE IF a < d[mid + 1].start THEN g[<<low, mid>>]
                    ELSE IF a > d[mid + 1].end THEN g[<<mid + 1, high>>]
                    ELSE d[mid + 1].country]
  BY <1>7, Zenon
<1>9. PICK g : /\ g = [w \in (0..Len(d)) \X (0..Len(d)) |->
                         LET low == w[1]  high == w[2]  mid == low + (high - low) \div 2 IN
                         IF low >= high THEN NoCountry
                         ELSE IF a < d[mid + 1].start THEN g[<<low, mid>>]
                         ELSE IF a > d[mid + 1].end THEN g[<<mid + 1, high>>]
                         ELSE d[mid + 1].country]
               /\ Bisect(d, a) = g[<<0, Len(d)>>]
  BY <1>8, Zenon DEF Bisect
<1>10. ASSUME NEW low \in 0..Len(d), NEW high \in 0..Len(d)
       PROVE  LET mid == low + (high - low) \div 2 IN
              g[<<low, high>>] = IF low >= high THEN NoCountry
                                 ELSE IF a < d[mid + 1].start THEN g[<<low, mid>>]
                                 ELSE IF a > d[mid + 1].end THEN g[<<mid + 1, high>>]
                                 ELSE d[mid + 1].country
  BY <1>9
<1> QED  BY <1>9, <1>10

\* Bisection finds the range an address is in, and nothing when it is in none.
LEMMA BisectFinds ==
    ASSUME NEW d \in Seq(AddrRange), Nonempty(d), ~Overlapping(d), NEW a \in Address
    PROVE  \/ \E i \in 1..Len(d) : a \in d[i].start..d[i].end /\ Bisect(d, a) = d[i].country
           \/ (\A i \in 1..Len(d) : a \notin d[i].start..d[i].end) /\ Bisect(d, a) = NoCountry
<1> DEFINE L == Len(d)
           In(i) == a \in d[i].start..d[i].end
<1>1. PICK f : /\ Bisect(d, a) = f[<<0, L>>]
               /\ \A low, high \in 0..L :
                    LET mid == low + (high - low) \div 2 IN
                    f[<<low, high>>] = IF low >= high THEN NoCountry
                                       ELSE IF a < d[mid + 1].start THEN f[<<low, mid>>]
                                       ELSE IF a > d[mid + 1].end THEN f[<<mid + 1, high>>]
                                       ELSE d[mid + 1].country
  BY BisectSteps
<1>2. /\ L \in Nat /\ a \in Nat
      /\ \A i \in 1..L : d[i].start \in Nat /\ d[i].end \in Nat /\ d[i].start <= d[i].end
  <2>1. \A x \in AddrRange : x.start \in Nat /\ x.end \in Nat
    BY AddressIsNat DEF AddrRange
  <2> QED  BY <2>1, AddressIsNat DEF Nonempty
<1>3. \A i, j \in 1..L : i < j => d[i].end < d[j].start
  BY NeighboursSuffice
<1> HIDE DEF L
<1> DEFINE Found(low, high) ==
             \/ \E i \in 1..L : In(i) /\ f[<<low, high>>] = d[i].country
             \/ (\A i \in 1..L : ~In(i)) /\ f[<<low, high>>] = NoCountry
           Window(low, high) == \A i \in 1..L : In(i) => low < i /\ i <= high
           S == {k \in Nat : \A low, high \in 0..L : high - low <= k /\ Window(low, high) => Found(low, high)}
<1>4. ASSUME NEW low \in 0..L, NEW high \in 0..L, low >= high, Window(low, high)  PROVE Found(low, high)
  <2>1. \A i \in 1..L : ~In(i)
    <3> HIDE DEF In
    <3> QED  BY <1>2, <1>4
  <2>2. f[<<low, high>>] = NoCountry
    BY <1>1, <1>4
  <2> QED  BY <2>1, <2>2
<1>5. 0 \in S
  <2>1. \A low, high \in 0..L : high - low <= 0 => low >= high
    BY <1>2
  <2> HIDE DEF Found, Window
  <2> QED  BY <1>4, <2>1
<1>6. ASSUME NEW k \in Nat, k \in S  PROVE k + 1 \in S
  <2> SUFFICES ASSUME NEW low \in 0..L, NEW high \in 0..L, high - low <= k + 1, Window(low, high)
               PROVE  Found(low, high)
    <3> HIDE DEF Found, Window
    <3> QED  OBVIOUS
  <2>1. CASE low >= high
    <3> HIDE DEF Found, Window
    <3> QED  BY <1>4, <2>1
  <2>2. CASE ~(low >= high)
    <3> DEFINE half == (high - low) \div 2
               mid == low + half
               r == d[mid + 1]
    <3>1. half \in Nat /\ half < high - low
      BY <1>2, <2>2
    <3>2. f[<<low, high>>] = IF a < r.start THEN f[<<low, mid>>]
                             ELSE IF a > r.end THEN f[<<mid + 1, high>>]
                             ELSE r.country
      BY <1>1, <2>2
    <3> HIDE DEF half
    <3>3. /\ mid \in 0..L /\ mid + 1 \in 0..L /\ mid + 1 \in 1..L /\ mid < high /\ low <= mid
          /\ mid - low <= k /\ high - (mid + 1) <= k
      BY <1>2, <2>2, <3>1
    <3> HIDE DEF mid
    <3>4. r.start \in Nat /\ r.end \in Nat /\ r.start <= r.end
      BY <1>2, <3>3
    <3>5. CASE a < r.start
      <4>1. ASSUME NEW i \in 1..L, In(i)  PROVE low < i /\ i <= mid
        <5>1. low < i
          BY <4>1
        <5>2. ~(mid + 1 < i)
          BY <1>2, <1>3, <3>3, <3>4, <3>5, <4>1
        <5>3. i # mid + 1
          BY <1>2, <3>4, <3>5, <4>1
        <5> QED  BY <1>2, <3>3, <5>1, <5>2, <5>3
      <4>2. Window(low, mid)
        <5> HIDE DEF In
        <5> QED  BY <4>1
      <4>3. Found(low, mid)
        <5> HIDE DEF Found, Window
        <5> QED  BY <1>6, <3>3, <4>2
      <4>4. f[<<low, high>>] = f[<<low, mid>>]
        BY <3>2, <3>5
      <4> HIDE DEF In
      <4> QED  BY <4>3, <4>4
    <3>6. CASE ~(a < r.start) /\ a > r.end
      <4>1. ASSUME NEW i \in 1..L, In(i)  PROVE mid + 1 < i /\ i <= high
        <5>1. i <= high
          BY <4>1
        <5>2. ~(i < mid + 1)
          <6>1. ASSUME i < mid + 1  PROVE FALSE
            <7>1. d[i].end < r.start
              BY <1>3, <3>3, <6>1
            <7> QED  BY <1>2, <3>4, <3>6, <4>1, <7>1
          <6> QED  BY <6>1
        <5>3. i # mid + 1
          BY <1>2, <3>4, <3>6, <4>1
        <5> QED  BY <1>2, <3>3, <5>1, <5>2, <5>3
      <4>2. Window(mid + 1, high)
        <5> HIDE DEF In
        <5> QED  BY <4>1
      <4>3. Found(mid + 1, high)
        <5> HIDE DEF Found, Window
        <5> QED  BY <1>6, <3>3, <4>2
      <4>4. f[<<low, high>>] = f[<<mid + 1, high>>]
        BY <3>2, <3>6
      <4> HIDE DEF In
      <4> QED  BY <4>3, <4>4
    <3>7. CASE ~(a < r.start) /\ ~(a > r.end)
      <4>1. In(mid + 1)
        BY <1>2, <3>4, <3>7
      <4>2. f[<<low, high>>] = d[mid + 1].country
        BY <3>2, <3>7
      <4> HIDE DEF In
      <4> QED  BY <3>3, <4>1, <4>2
    <3> QED  BY <3>5, <3>6, <3>7
  <2> QED  BY <2>1, <2>2
<1>7. L \in S
  <2>1. \A k \in Nat : k \in S
    <3> HIDE DEF S
    <3> QED  BY <1>5, <1>6, InductionOnSets
  <2> QED  BY <1>2, <2>1
<1>8. Window(0, L) /\ 0 \in 0..L /\ L \in 0..L /\ L - 0 <= L
  <2> HIDE DEF In
  <2> QED  BY <1>2
<1>9. Found(0, L)
  <2> HIDE DEF Found, Window
  <2> QED  BY <1>7, <1>8
<1> QED  BY <1>1, <1>9 DEF L

-----------------------------------------------------------------------------
(* Prefixes for the kernel *)

\* At every address of a range there is a largest aligned block that fits.
LEMMA ShortestFits ==
    ASSUME NEW x \in Address, NEW end \in Address, x <= end
    PROVE  /\ ShortestFit(x, end) \in 0..Bits /\ Aligned(x, ShortestFit(x, end))
           /\ BlockEnd(x, ShortestFit(x, end)) \in x..end
<1> DEFINE F == {p \in 0..Bits : Fits(x, end, p)}
<1>1. Bits \in F
  <2>1. Bits \in 0..Bits /\ Bits - Bits = 0
    BY BitsAssumption
  <2>2. 2^(Bits - Bits) = 1
    BY <2>1, PowerOfZero
  <2>3. x % 1 = 0 /\ x + 1 - 1 = x
    BY AddressIsNat
  <2>4. Fits(x, end, Bits)
    BY <2>2, <2>3 DEF Fits, Aligned, BlockEnd
  <2> QED  BY <2>1, <2>4
<1>2. F \subseteq Nat
  BY BitsAssumption
<1>3. PICK p \in F : \A q \in F : p <= q
  BY <1>1, <1>2, HasLeast
<1>4. \A q \in 0..(p - 1) : ~Fits(x, end, q)
  <2> SUFFICES ASSUME NEW q \in 0..(p - 1), Fits(x, end, q)  PROVE FALSE
    OBVIOUS
  <2>1. p \in 0..Bits /\ q \in 0..Bits /\ ~(p <= q)
    BY <1>3, BitsAssumption
  <2> QED  BY <1>3, <2>1
<1>5. \E q \in 0..Bits : Fits(x, end, q) /\ \A z \in 0..(q - 1) : ~Fits(x, end, z)
  BY <1>3, <1>4
<1> DEFINE s == ShortestFit(x, end)
<1>6. s \in 0..Bits /\ Fits(x, end, s)
  BY <1>5, Zenon DEF ShortestFit
<1> HIDE DEF s
<1>7. Aligned(x, s) /\ BlockEnd(x, s) <= end
  BY <1>6 DEF Fits
<1>8. BlockEnd(x, s) \in Address /\ x <= BlockEnd(x, s)
  BY <1>6, <1>7, AlignedBlock
<1>9. BlockEnd(x, s) \in x..end
  <2>1. BlockEnd(x, s) \in Nat /\ x \in Nat /\ end \in Nat
    BY <1>8, AddressIsNat
  <2> QED  BY <1>7, <1>8, <2>1
<1> QED  BY <1>6, <1>7, <1>9 DEF s

\* The loop is defined by its steps: it goes from block to block.
LEMMA RangePrefixesSteps ==
    ASSUME NEW r \in AddrRange
    PROVE  \E f : /\ RangePrefixes(r) = f[r.start]
                  /\ \A x \in 0..2^Bits :
                       LET p == ShortestFit(x, r.end) IN
                       f[x] = IF x > r.end THEN {}
                              ELSE {[addr |-> x, prefix |-> p, country |-> r.country]} \cup f[BlockEnd(x, p) + 1]
<1> DEFINE N == 2^Bits
           D == 0..N
           Fit(x) == ShortestFit(x, r.end)
           Turn(f, x) == IF x > r.end THEN {}
                         ELSE {[addr |-> x, prefix |-> Fit(x), country |-> r.country]}
                              \cup f[BlockEnd(x, Fit(x)) + 1]
           S == {k \in Nat : \E f : /\ f = [x \in D |-> f[x]]
                                    /\ \A x \in D : N - x <= k => f[x] = Turn(f, x)}
<1>0. N \in Nat /\ r.end \in Nat /\ r.end < N /\ r.end \in Address
  BY AddressIsNat DEF Address, AddrRange
<1>1. ASSUME NEW x \in D, ~(x > r.end)
      PROVE  BlockEnd(x, Fit(x)) + 1 \in D /\ x < BlockEnd(x, Fit(x)) + 1
  <2>1. x \in Address /\ x <= r.end
    BY <1>0, <1>1 DEF Address
  <2>2. BlockEnd(x, Fit(x)) \in x..r.end
    BY <1>0, <2>1, ShortestFits
  <2> HIDE DEF Fit, N
  <2> QED  BY <1>0, <2>2
<1> HIDE DEF N
<1>2. 0 \in S
  <2> DEFINE f == [x \in D |-> {}]
  <2>1. f = [x \in D |-> f[x]]
    OBVIOUS
  <2>2. \A x \in D : N - x <= 0 => f[x] = Turn(f, x)
    <3> SUFFICES ASSUME NEW x \in D, N - x <= 0  PROVE f[x] = Turn(f, x)
      OBVIOUS
    <3>1. x > r.end
      BY <1>0
    <3> QED  BY <3>1
  <2> HIDE DEF f, Turn, D
  <2> QED  BY <2>1, <2>2
<1>3. ASSUME NEW k \in Nat, k \in S  PROVE k + 1 \in S
  <2>1. PICK f : /\ f = [x \in D |-> f[x]]
                 /\ \A x \in D : N - x <= k => f[x] = Turn(f, x)
    BY <1>3
  <2> DEFINE g == [x \in D |-> IF N - x <= k THEN f[x] ELSE Turn(f, x)]
  <2>2. g = [x \in D |-> g[x]]
    OBVIOUS
  <2>3. ASSUME NEW x \in D, N - x <= k + 1  PROVE g[x] = Turn(g, x)
    <3>1. g[x] = Turn(f, x)
      <4> HIDE DEF Turn, D
      <4> QED  BY <2>1
    <3>2. CASE x > r.end
      BY <3>1, <3>2
    <3>3. CASE ~(x > r.end)
      <4> DEFINE y == BlockEnd(x, Fit(x)) + 1
      <4>1. y \in D /\ x < y
        BY <1>1, <3>3
      <4> HIDE DEF y, Fit
      <4>2. N - y <= k
        BY <1>0, <2>3, <4>1
      <4>3. g[y] = f[y]
        <5> HIDE DEF Turn, D
        <5> QED  BY <4>1, <4>2
      <4>4. Turn(g, x) = Turn(f, x)
        <5> HIDE DEF g
        <5> QED  BY <4>3 DEF y
      <4> QED  BY <3>1, <4>4
    <3> QED  BY <3>2, <3>3
  <2> HIDE DEF g
  <2>4. \A x \in D : N - x <= k + 1 => g[x] = Turn(g, x)
    BY <2>3
  <2> HIDE DEF Turn, D
  <2> QED  BY <2>2, <2>4
<1>4. N \in S
  <2> HIDE DEF S
  <2>1. \A k \in Nat : k \in S
    BY <1>2, <1>3, InductionOnSets
  <2> QED  BY <1>0, <2>1
<1>5. PICK f : f = [x \in D |-> f[x]] /\ \A x \in D : f[x] = Turn(f, x)
  <2>1. PICK f : f = [x \in D |-> f[x]] /\ \A x \in D : N - x <= N => f[x] = Turn(f, x)
    BY <1>4
  <2>2. \A x \in D : N - x <= N
    BY <1>0
  <2> HIDE DEF Turn, D
  <2> QED  BY <2>1, <2>2
<1>6. f = [x \in D |-> Turn(f, x)]
  <2> HIDE DEF Turn, D
  <2> QED  BY <1>5
<1>7. \E g : g = [x \in 0..2^Bits |->
                    IF x > r.end THEN {}
                    ELSE LET p == ShortestFit(x, r.end) IN
                         {[addr |-> x, prefix |-> p, country |-> r.country]} \cup g[BlockEnd(x, p) + 1]]
  BY <1>6, Zenon DEF N
<1>8. PICK g : /\ g = [x \in 0..2^Bits |->
                         IF x > r.end THEN {}
                         ELSE LET p == ShortestFit(x, r.end) IN
                              {[addr |-> x, prefix |-> p, country |-> r.country]} \cup g[BlockEnd(x, p) + 1]]
               /\ RangePrefixes(r) = g[r.start]
  BY <1>7, Zenon DEF RangePrefixes
<1>9. ASSUME NEW x \in 0..2^Bits
      PROVE  LET p == ShortestFit(x, r.end) IN
             g[x] = IF x > r.end THEN {}
                    ELSE {[addr |-> x, prefix |-> p, country |-> r.country]} \cup g[BlockEnd(x, p) + 1]
  BY <1>8, Zenon
<1> QED  BY <1>8, <1>9

\* The prefixes of a range are blocks that make up just the range, with its country.
Block == {e \in [addr : Address, prefix : 0..Bits, country : Nat] : Aligned(e.addr, e.prefix)}
LEMMA RangePrefixesCover ==
    ASSUME NEW r \in AddrRange
    PROVE  /\ RangePrefixes(r) \subseteq Block /\ IsFiniteSet(RangePrefixes(r))
           /\ \A e \in RangePrefixes(r) : e.country = r.country
           /\ \A a \in Address : (\E e \in RangePrefixes(r) : Matches(e, a)) <=> a \in r.start..r.end
<1> DEFINE N == 2^Bits
<1>1. PICK f : /\ RangePrefixes(r) = f[r.start]
               /\ \A x \in 0..N :
                    LET p == ShortestFit(x, r.end) IN
                    f[x] = IF x > r.end THEN {}
                           ELSE {[addr |-> x, prefix |-> p, country |-> r.country]} \cup f[BlockEnd(x, p) + 1]
  BY RangePrefixesSteps
<1>2. /\ N \in Nat /\ r.start \in Nat /\ r.end \in Nat /\ r.country \in Nat /\ r.end < N /\ r.start <= N
      /\ r.end \in Address /\ Address = 0..(N - 1)
  BY AddressIsNat DEF Address, AddrRange
<1> HIDE DEF N
<1> DEFINE Good(E, x) ==
             /\ E \subseteq Block /\ IsFiniteSet(E)
             /\ \A e \in E : e.country = r.country
             /\ \A a \in Address : (\E e \in E : Matches(e, a)) <=> a \in x..r.end
           S == {k \in Nat : \A x \in 0..N : N - x <= k => Good(f[x], x)}
<1>3. ASSUME NEW x \in 0..N, x > r.end  PROVE Good(f[x], x)
  <2>1. f[x] = {}
    BY <1>1, <1>3
  <2>2. \A a \in Address : a \notin x..r.end
    BY <1>2, <1>3
  <2> QED  BY <2>1, <2>2, FS_EmptySet
<1>4. 0 \in S
  <2>1. \A x \in 0..N : N - x <= 0 => x > r.end
    BY <1>2
  <2> HIDE DEF Good
  <2> QED  BY <1>3, <2>1
<1>5. ASSUME NEW k \in Nat, k \in S  PROVE k + 1 \in S
  <2> SUFFICES ASSUME NEW x \in 0..N, N - x <= k + 1, ~(x > r.end)  PROVE Good(f[x], x)
    <3> HIDE DEF Good
    <3> QED  BY <1>3
  <2> DEFINE p == ShortestFit(x, r.end)
             y == BlockEnd(x, p) + 1
             e0 == [addr |-> x, prefix |-> p, country |-> r.country]
  <2>1. f[x] = {e0} \cup f[y]
    BY <1>1
  <2>2. x \in Address /\ x <= r.end
    BY <1>2
  <2>3. p \in 0..Bits /\ Aligned(x, p) /\ BlockEnd(x, p) \in x..r.end
    BY <1>2, <2>2, ShortestFits
  <2> HIDE DEF p, S
  <2>4. \A a \in Address : BlockStart(a, p) = x <=> a \in x..BlockEnd(x, p)
    BY <2>2, <2>3, AlignedBlock
  <2>5. y \in 0..N /\ N - y <= k /\ BlockEnd(x, p) = y - 1 /\ x < y /\ y - 1 <= r.end /\ y \in Nat /\ x \in Nat
    <3> DEFINE b == BlockEnd(x, p)
    <3>1. x \in Nat /\ b \in Nat /\ x <= b /\ b <= r.end
      BY <1>2, <2>3
    <3>2. y = b + 1
      OBVIOUS
    <3> HIDE DEF b, y
    <3>3. y \in 0..N /\ N - y <= k /\ b = y - 1 /\ x < y /\ y - 1 <= r.end /\ y \in Nat
      BY <1>2, <3>1, <3>2
    <3> QED  BY <3>1, <3>3 DEF b
  <2> HIDE DEF y
  <2>6. Good(f[y], y)
    <3> HIDE DEF Good
    <3> QED  BY <1>5, <2>5 DEF S
  <2>7. e0 \in Block /\ e0.country = r.country
    BY <1>2, <2>2, <2>3 DEF Block
  <2>8. \A a \in Address : Matches(e0, a) <=> a \in x..(y - 1)
    BY <2>4, <2>5 DEF Matches
  <2> HIDE DEF e0
  <2>9. IsFiniteSet(f[x])
    <3>1. IsFiniteSet(f[y])
      BY <2>6
    <3>2. IsFiniteSet(f[y] \cup {e0})
      BY <3>1, FS_AddElement
    <3>3. f[x] = f[y] \cup {e0}
      BY <2>1
    <3> QED  BY <3>2, <3>3
  <2>10. ASSUME NEW a \in Address  PROVE (\E e \in f[x] : Matches(e, a)) <=> a \in x..r.end
    <3>1. (\E e \in f[x] : Matches(e, a)) <=> Matches(e0, a) \/ \E e \in f[y] : Matches(e, a)
      BY <2>1
    <3>2. (\E e \in f[x] : Matches(e, a)) <=> a \in x..(y - 1) \/ a \in y..r.end
      BY <2>6, <2>8, <3>1
    <3>3. a \in Nat
      BY AddressIsNat
    <3> QED  BY <1>2, <2>5, <3>2, <3>3
  <2>11. f[x] \subseteq Block /\ \A e \in f[x] : e.country = r.country
    BY <2>1, <2>6, <2>7
  <2> QED  BY <2>9, <2>10, <2>11
<1>6. N \in S
  <2>1. \A k \in Nat : k \in S
    <3> HIDE DEF S
    <3> QED  BY <1>4, <1>5, InductionOnSets
  <2> QED  BY <1>2, <2>1
<1>7. Good(f[r.start], r.start)
  <2>1. r.start \in 0..N /\ N - r.start <= N
    BY <1>2
  <2> HIDE DEF Good
  <2> QED  BY <1>6, <2>1
<1> QED  BY <1>1, <1>7

\* The image of a finite set is finite.
LEMMA ImageIsFinite ==
    ASSUME NEW T, IsFiniteSet(T), NEW g
    PROVE  IsFiniteSet({g[x] : x \in T})
<1> DEFINE U == {g[x] : x \in T}
           f == [x \in T |-> g[x]]
<1>1. f \in [T -> U] /\ \A y \in U : \E x \in T : f[x] = y
  OBVIOUS
<1>2. f \in Surjection(T, U)
  BY <1>1, Zenon DEF Surjection
<1> HIDE DEF f, U
<1>3. IsFiniteSet(U)
  BY <1>2, FS_Surjection
<1> QED  BY <1>3 DEF U

\* The prefixes of a list have the addresses of the list, with their countries.
LEMMA XdpPrefixesCover ==
    ASSUME NEW d \in Seq(AddrRange)
    PROVE  /\ XdpPrefixes(d) \subseteq Block /\ IsFiniteSet(XdpPrefixes(d))
           /\ \A e \in XdpPrefixes(d) : \E i \in 1..Len(d) : e.country = d[i].country
           /\ \A a \in Address, c \in Nat :
                (\E e \in XdpPrefixes(d) : e.country = c /\ Matches(e, a)) <=> Has(d, a, c)
<1> DEFINE X == {RangePrefixes(d[i]) : i \in 1..Len(d)}
<1>1. \A i \in 1..Len(d) : d[i] \in AddrRange
  OBVIOUS
<1>2. ASSUME NEW i \in 1..Len(d)
      PROVE  /\ RangePrefixes(d[i]) \subseteq Block /\ IsFiniteSet(RangePrefixes(d[i]))
             /\ \A e \in RangePrefixes(d[i]) : e.country = d[i].country
             /\ \A a \in Address :
                  (\E e \in RangePrefixes(d[i]) : Matches(e, a)) <=> a \in d[i].start..d[i].end
  BY <1>1, RangePrefixesCover
<1>3. XdpPrefixes(d) = UNION X
  BY DEF XdpPrefixes
<1>4. \A e : e \in XdpPrefixes(d) <=> \E i \in 1..Len(d) : e \in RangePrefixes(d[i])
  BY DEF XdpPrefixes
<1>5. IsFiniteSet(UNION X)
  <2> DEFINE g == [i \in 1..Len(d) |-> RangePrefixes(d[i])]
  <2>1. IsFiniteSet(1..Len(d))
    BY FS_Interval
  <2>2. IsFiniteSet({g[i] : i \in 1..Len(d)}) /\ X = {g[i] : i \in 1..Len(d)}
    BY <2>1, ImageIsFinite
  <2>3. \A x \in X : IsFiniteSet(x)
    BY <1>2
  <2> HIDE DEF X
  <2> QED  BY <2>2, <2>3, FS_UNION
<1>6. ASSUME NEW a \in Address, NEW c \in Nat
      PROVE  (\E e \in XdpPrefixes(d) : e.country = c /\ Matches(e, a)) <=> Has(d, a, c)
  <2>1. ASSUME NEW e \in XdpPrefixes(d), e.country = c, Matches(e, a)  PROVE Has(d, a, c)
    <3>1. PICK i \in 1..Len(d) : e \in RangePrefixes(d[i])
      BY <1>4
    <3>2. e.country = d[i].country /\ a \in d[i].start..d[i].end
      BY <1>2, <2>1, <3>1
    <3> QED  BY <2>1, <3>2 DEF Has
  <2>2. ASSUME Has(d, a, c)  PROVE \E e \in XdpPrefixes(d) : e.country = c /\ Matches(e, a)
    <3>1. PICK i \in 1..Len(d) : d[i].country = c /\ a \in d[i].start..d[i].end
      BY <2>2 DEF Has
    <3>2. PICK e \in RangePrefixes(d[i]) : Matches(e, a)
      BY <1>2, <3>1
    <3>3. e.country = c
      BY <1>2, <3>1
    <3> QED  BY <1>4, <3>2, <3>3
  <2> QED  BY <2>1, <2>2
<1>7. XdpPrefixes(d) \subseteq Block /\ \A e \in XdpPrefixes(d) : \E i \in 1..Len(d) : e.country = d[i].country
  BY <1>2, <1>4
<1> QED  BY <1>3, <1>5, <1>6, <1>7

\* When all of the entries an address matches have one country, the longest has it.
LEMMA LongestMatchIs ==
    ASSUME NEW E, NEW a, \A e \in E : e.prefix \in 0..Bits
    PROVE  \/ (\A e \in E : ~Matches(e, a)) /\ LongestMatch(E, a) = NoCountry
           \/ \E e \in E : Matches(e, a) /\ LongestMatch(E, a) = e.country
<1> DEFINE hits == {e \in E : Matches(e, a)}
<1>1. CASE hits = {}
  BY <1>1 DEF LongestMatch
<1>2. CASE hits # {}
  <2> DEFINE P == {e.prefix : e \in hits}
  <2>1. P \subseteq 0..Bits /\ P # {}
    BY <1>2
  <2>2. PICK n \in P : \A q \in P : q <= n
    <3> HIDE DEF P
    <3> QED  BY <2>1, BitsAssumption, HasGreatest
  <2>3. \E e \in hits : \A f \in hits : f.prefix <= e.prefix
    BY <2>2
  <2> DEFINE m == CHOOSE e \in hits : \A f \in hits : f.prefix <= e.prefix
  <2>4. m \in hits
    BY <2>3, Zenon
  <2>5. LongestMatch(E, a) = m.country
    BY <1>2, Zenon DEF LongestMatch
  <2> HIDE DEF m
  <2> QED  BY <2>4, <2>5
<1> QED  BY <1>1, <1>2

-----------------------------------------------------------------------------
(* Constants *)

\* encode_country makes a number of its own of every pair of letters, and so does
\* the bit of a country.
LEMMA CountryFacts ==
    /\ Source \subseteq Nat \ {0} /\ IsFiniteSet(Source)
    /\ \A c, d \in Source : CountryBit(c) = CountryBit(d) => c = d
<1>1. 2^8 = 256
  OBVIOUS
<1>2. \A f, s \in 65..90 : EncodeCountry(f, s) = f * 256 + s
  BY <1>1 DEF EncodeCountry
<1>3. Source \subseteq {EncodeCountry(first, second) : first, second \in 65..90}
  BY ListAssumption
<1>4. \A c \in Source : \E f, s \in 65..90 : c = f * 256 + s
  BY <1>2, <1>3
<1> DEFINE top == 90 * 256 + 90
<1>5. top \in Nat /\ \A c \in Source : c \in Nat /\ c # 0 /\ c <= top
  BY <1>4
<1> HIDE DEF top
<1>6. IsFiniteSet(Source)
  <2>1. Source \in SUBSET Nat
    BY <1>5
  <2> QED  BY <1>5, <2>1, FS_BoundedSetOfNaturals
<1>7. ASSUME NEW c \in Source  PROVE CountryBit(c) = ((c \div 256) - 65) * 26 + ((c % 256) - 65)
  BY <1>1 DEF CountryBit
<1>8. ASSUME NEW f \in 65..90, NEW s \in 65..90
      PROVE  (f * 256 + s) \div 256 = f /\ (f * 256 + s) % 256 = s
  OBVIOUS
<1>9. ASSUME NEW c \in Source, NEW d \in Source, CountryBit(c) = CountryBit(d)  PROVE c = d
  <2>1. PICK f, s \in 65..90 : c = f * 256 + s
    BY <1>4
  <2>2. PICK g, t \in 65..90 : d = g * 256 + t
    BY <1>4
  <2>3. CountryBit(c) = (f - 65) * 26 + (s - 65) /\ CountryBit(d) = (g - 65) * 26 + (t - 65)
    <3>1. c \div 256 = f /\ c % 256 = s
      BY <1>8, <2>1
    <3>2. d \div 256 = g /\ d % 256 = t
      BY <1>8, <2>2
    <3> QED  BY <1>7, <3>1, <3>2
  <2>4. (f - 65) * 26 + (s - 65) = (g - 65) * 26 + (t - 65)
    BY <1>9, <2>3
  <2>5. f = g /\ s = t
    BY <2>4
  <2> QED  BY <2>1, <2>2, <2>5
<1>10. Source \subseteq Nat \ {0}
  BY <1>5
<1> QED  BY <1>6, <1>9, <1>10

\* There are finitely many prefixes.
LEMMA PrefixesAreFinite == IsFiniteSet(Prefix)
<1> DEFINE W == Address \X (0..Bits)
           g == [w \in W |-> [addr |-> w[1], prefix |-> w[2]]]
<1>1. IsFiniteSet(Address) /\ IsFiniteSet(0..Bits)
  BY FS_Interval, AddressIsNat, BitsAssumption DEF Address
<1>2. IsFiniteSet(W)
  BY <1>1, FS_Product
<1>3. IsFiniteSet({g[w] : w \in W})
  <2> HIDE DEF W, g
  <2> QED  BY <1>2, ImageIsFinite
<1>4. ASSUME NEW p \in Prefix  PROVE p \in {g[w] : w \in W}
  <2> DEFINE w == <<p.addr, p.prefix>>
  <2>1. w \in W /\ p = [addr |-> p.addr, prefix |-> p.prefix]
    BY DEF Prefix
  <2>2. g[w] = p
    BY <2>1
  <2> HIDE DEF W, g, w
  <2> QED  BY <2>1, <2>2
<1>5. Prefix \subseteq {g[w] : w \in W}
  <2> HIDE DEF W, g
  <2> QED  BY <1>4
<1> HIDE DEF W, g
<1> QED  BY <1>3, <1>5, FS_Subset

\* Powers of two outgrow their exponents, so that every number is followed closely by
\* one.
LEMMA PowerOfTwoExists ==
    ASSUME NEW n \in Nat \ {0}
    PROVE  PowerOfTwoFrom(n) \in Nat
<1> DEFINE S == {k \in Nat : 2^k >= k}
           T == {k \in Nat : 2^k >= n}
<1>1. 0 \in S
  BY PowerOfZero
<1>2. ASSUME NEW k \in Nat, k \in S  PROVE k + 1 \in S
  <2>1. 2^k \in Nat \ {0} /\ 2^(k + 1) = 2 * 2^k /\ 2^k >= k
    BY <1>2, PowersDouble
  <2>2. 2^(k + 1) >= k + 1
    BY <2>1
  <2> QED  BY <2>2
<1>3. n \in T
  <2>1. \A k \in Nat : k \in S
    <3> HIDE DEF S
    <3> QED  BY <1>1, <1>2, InductionOnSets
  <2> QED  BY <2>1
<1>4. PICK i \in T : \A j \in T : i <= j
  <2>1. T \subseteq Nat /\ T # {}
    BY <1>3
  <2> HIDE DEF T
  <2> QED  BY <2>1, HasLeast
<1>5. i \in 0..n /\ 2^i >= n /\ 2^i \in Nat
  BY <1>3, <1>4, PowersDouble
<1>6. 2 * n > 2^i
  <2>1. CASE i = 0
    BY <2>1, PowerOfZero
  <2>2. CASE i # 0
    <3>1. i - 1 \in Nat /\ i - 1 \notin T
      BY <1>4, <2>2
    <3>2. ~(2^(i - 1) >= n) /\ 2^(i - 1) \in Nat /\ 2^((i - 1) + 1) = 2 * 2^(i - 1) /\ (i - 1) + 1 = i
      BY <3>1, PowersDouble
    <3>3. 2^i = 2 * 2^(i - 1)
      BY <3>2
    <3> QED  BY <3>2, <3>3
  <2> QED  BY <2>1, <2>2
<1>7. \E k \in {2^j : j \in 0..n} : k >= n /\ 2 * n > k
  BY <1>5, <1>6
<1>8. PowerOfTwoFrom(n) \in {2^j : j \in 0..n}
  BY <1>7, Zenon DEF PowerOfTwoFrom
<1>9. \A j \in 0..n : 2^j \in Nat
  BY PowersDouble
<1> QED  BY <1>8, <1>9

-----------------------------------------------------------------------------
(* Lists *)

Country(s, threat) == IF threat THEN 1 ELSE s

\* A list is true to its sources, by its ranges and by its prefixes.
SoundList(l, threat) ==
    /\ l.ranges \in Seq(AddrRange) /\ Nonempty(l.ranges) /\ ~Overlapping(l.ranges)
    /\ \A a \in Address, c \in Nat :
         Has(l.ranges, a, c) <=> \E s \in Source : Country(s, threat) = c /\ a \in l.truth[s]
    /\ l.prefixes \subseteq Prefix /\ \A p \in l.prefixes : Aligned(p.addr, p.prefix)
    /\ \A a \in Address :
         (\E p \in l.prefixes : BlockStart(a, p.prefix) = p.addr) <=> \E s \in Source : a \in l.truth[s]

\* The embedded list is empty, as what stands for a damaged file is.
LEMMA EmbeddedIsSound ==
    ASSUME NEW threat \in BOOLEAN
    PROVE  /\ SoundList(Embedded, threat) /\ Embedded.num = 0
           /\ SoundList(Damaged, threat) /\ Damaged.num = -1
<1>1. Embedded.num = 0 /\ Damaged.num = -1
  BY DEF Embedded, Damaged
<1>2. ASSUME NEW l, l.ranges = <<>>, l.prefixes = {}, l.truth = [s \in Source |-> {}]
      PROVE  SoundList(l, threat)
  <2>1. <<>> \in Seq(AddrRange) /\ Len(<<>>) = 0
    OBVIOUS
  <2>2. \A i : i \notin 1..0 /\ i \notin 1..(0 - 1)
    OBVIOUS
  <2>3. Nonempty(<<>>) /\ ~Overlapping(<<>>) /\ \A a, c : ~Has(<<>>, a, c)
    BY <2>1, <2>2 DEF Nonempty, Overlapping, Has
  <2>4. \A s \in Source : \A a : a \notin l.truth[s]
    BY <1>2
  <2> QED  BY <1>2, <2>1, <2>3, <2>4 DEF SoundList
<1>3. Embedded.ranges = <<>> /\ Embedded.prefixes = {} /\ Embedded.truth = [s \in Source |-> {}]
  BY DEF Embedded
<1>4. Damaged.ranges = <<>> /\ Damaged.prefixes = {} /\ Damaged.truth = [s \in Source |-> {}]
  BY DEF Embedded, Damaged
<1> QED  BY <1>1, <1>2, <1>3, <1>4

\* Lookups in such a list find the country that served an address, and only then.
LEMMA LookupFinds ==
    ASSUME NEW threat \in BOOLEAN, NEW l, SoundList(l, threat), NEW a \in Address
    PROVE  LET c == Bisect(l.ranges, a) IN
           \/ c \in Nat \ {0} /\ Has(l.ranges, a, c) /\ \E s \in Source : Country(s, threat) = c /\ a \in l.truth[s]
           \/ c = NoCountry /\ \A s \in Source : a \notin l.truth[s]
<1> DEFINE d == l.ranges
           c == Bisect(d, a)
<1>1. /\ d \in Seq(AddrRange) /\ Nonempty(d) /\ ~Overlapping(d)
      /\ \A b \in Address, k \in Nat :
           Has(d, b, k) <=> \E s \in Source : Country(s, threat) = k /\ b \in l.truth[s]
  BY DEF SoundList
<1>2. \A s \in Source : Country(s, threat) \in Nat \ {0}
  BY CountryFacts DEF Country
<1>3. \A i \in 1..Len(d) : d[i].country \in Nat
  <2>1. \A x \in AddrRange : x.country \in Nat
    BY DEF AddrRange
  <2> HIDE DEF d
  <2> QED  BY <1>1, <2>1
<1>4. \/ \E i \in 1..Len(d) : a \in d[i].start..d[i].end /\ c = d[i].country
      \/ (\A i \in 1..Len(d) : a \notin d[i].start..d[i].end) /\ c = NoCountry
  BY <1>1, BisectFinds
<1> HIDE DEF d, c
<1>5. CASE \E i \in 1..Len(d) : a \in d[i].start..d[i].end /\ c = d[i].country
  <2>1. c \in Nat /\ Has(d, a, c)
    BY <1>3, <1>5 DEF Has
  <2>2. PICK s \in Source : Country(s, threat) = c /\ a \in l.truth[s]
    BY <1>1, <2>1
  <2> QED  BY <1>2, <2>1, <2>2 DEF c, d
<1>6. CASE (\A i \in 1..Len(d) : a \notin d[i].start..d[i].end) /\ c = NoCountry
  <2>1. ASSUME NEW s \in Source, a \in l.truth[s]  PROVE FALSE
    <3>1. Has(d, a, Country(s, threat))
      BY <1>1, <1>2, <2>1
    <3> QED  BY <1>6, <3>1 DEF Has
  <2> QED  BY <1>6, <2>1 DEF c, d
<1> QED  BY <1>4, <1>5, <1>6

\* An address has at most one country.
LEMMA HasOne ==
    ASSUME NEW d \in Seq(AddrRange), Nonempty(d), ~Overlapping(d), NEW a \in Address,
           NEW b, NEW c, Has(d, a, b), Has(d, a, c)
    PROVE  b = c
<1>1. PICK i \in 1..Len(d) : d[i].country = b /\ a \in d[i].start..d[i].end
  BY DEF Has
<1>2. PICK j \in 1..Len(d) : d[j].country = c /\ a \in d[j].start..d[j].end
  BY DEF Has
<1>3. a \in Nat /\ d[i].end \in Nat /\ d[j].end \in Nat /\ d[i].start \in Nat /\ d[j].start \in Nat
  <2>1. \A x \in AddrRange : x.start \in Nat /\ x.end \in Nat
    BY AddressIsNat DEF AddrRange
  <2> QED  BY <2>1, AddressIsNat
<1>4. ~(i < j)
  <2>1. ASSUME i < j  PROVE FALSE
    <3>1. d[i].end < d[j].start
      BY <2>1, NeighboursSuffice
    <3> QED  BY <1>1, <1>2, <1>3, <3>1
  <2> QED  BY <2>1
<1>5. ~(j < i)
  <2>1. ASSUME j < i  PROVE FALSE
    <3>1. d[j].end < d[i].start
      BY <2>1, NeighboursSuffice
    <3> QED  BY <1>1, <1>2, <1>3, <3>1
  <2> QED  BY <2>1
<1>6. i = j
  BY <1>4, <1>5
<1> QED  BY <1>1, <1>2, <1>6

\* The block of a prefix as a range.
LEMMA RangeFacts ==
    ASSUME NEW p \in Prefix, NEW c \in Nat
    PROVE  LET r == RangeOf(p.addr, p.prefix, c) IN
           /\ r \in AddrRange /\ r.start <= r.end /\ r.country = c
           /\ r.start = BlockStart(p.addr, p.prefix)
           /\ \A a \in Address : a \in r.start..r.end <=> BlockStart(a, p.prefix) = r.start
<1>1. p.addr \in Address /\ p.prefix \in 0..Bits
  BY DEF Prefix
<1> DEFINE s == BlockStart(p.addr, p.prefix)
           e == BlockEnd(s, p.prefix)
<1>2. s \in Address /\ Aligned(s, p.prefix)
  BY <1>1, BlockFacts
<1>3. RangeOf(p.addr, p.prefix, c) = [start |-> s, end |-> e, country |-> c]
  BY DEF RangeOf
<1> HIDE DEF s
<1>4. e \in Address /\ s <= e /\ \A a \in Address : BlockStart(a, p.prefix) = s <=> a \in s..e
  BY <1>1, <1>2, AlignedBlock
<1> HIDE DEF e
<1> QED  BY <1>2, <1>3, <1>4 DEF AddrRange, s

\* What a refresh builds is true to what it was served.
LEMMA BuildIsSound ==
    ASSUME NEW got, NEW n, NEW l, conf.threat \in BOOLEAN, \A s \in Source : got[s].feed \subseteq Prefix,
           l = ListOf(got, n), Accepts(got, l)
    PROVE  SoundList(l, conf.threat) /\ l.num = n
<1>1. \A s \in Source : CountryOf(s) = Country(s, conf.threat) /\ CountryOf(s) \in Nat \ {0}
  <2>1. \A s \in Source : s \in Nat \ {0}
    BY CountryFacts
  <2>2. ASSUME NEW s \in Source, conf.threat  PROVE CountryOf(s) = 1 /\ Country(s, conf.threat) = 1
    BY <2>2 DEF CountryOf, Country, ThreatList
  <2>3. ASSUME NEW s \in Source, ~conf.threat  PROVE CountryOf(s) = s /\ Country(s, conf.threat) = s
    BY <2>3 DEF CountryOf, Country, ThreatList
  <2> QED  BY <2>1, <2>2, <2>3
<1>2. \A r : r \in Ranges(got) <=> \E s \in Source : \E p \in got[s].feed : r = RangeOf(p.addr, p.prefix, CountryOf(s))
  BY DEF Ranges
<1>3. \A r \in Ranges(got) : r \in AddrRange /\ r.start <= r.end
  BY <1>1, <1>2, RangeFacts
<1>4. IsFiniteSet(Ranges(got))
  <2> DEFINE W == Source \X Prefix
             g == [w \in W |-> RangeOf(w[2].addr, w[2].prefix, CountryOf(w[1]))]
  <2>1. IsFiniteSet(W)
    BY CountryFacts, PrefixesAreFinite, FS_Product
  <2>2. IsFiniteSet({g[w] : w \in W})
    <3> HIDE DEF W, g
    <3> QED  BY <2>1, ImageIsFinite
  <2>3. ASSUME NEW r \in Ranges(got)  PROVE r \in {g[w] : w \in W}
    <3>0. PICK s \in Source : \E p \in got[s].feed : r = RangeOf(p.addr, p.prefix, CountryOf(s))
      BY <1>2
    <3>1. PICK p \in got[s].feed : r = RangeOf(p.addr, p.prefix, CountryOf(s))
      BY <3>0
    <3> DEFINE w == <<s, p>>
    <3>2. w \in W
      OBVIOUS
    <3>3. g[w] = r
      BY <3>1, <3>2
    <3> HIDE DEF W, g, w
    <3> QED  BY <3>2, <3>3
  <2>4. Ranges(got) \subseteq {g[w] : w \in W}
    <3> HIDE DEF W, g
    <3> QED  BY <2>3
  <2> HIDE DEF W, g
  <2> QED  BY <2>2, <2>4, FS_Subset
<1> DEFINE d == Normalize(Ranges(got))
<1>5. /\ d \in Seq(AddrRange) /\ Nonempty(d)
      /\ \A a \in Address, c \in Nat : Has(d, a, c) <=> \E r \in Ranges(got) : r.country = c /\ a \in r.start..r.end
      /\ (\A r, q \in Ranges(got) : r.country = q.country) => Apart(d)
  <2>1. Ranges(got) \in SUBSET AddrRange
    BY <1>3
  <2> QED  BY <1>3, <1>4, <2>1, NormalizeKeeps
<1> HIDE DEF d
<1>6. /\ l.ranges = d /\ l.prefixes = Blocks(got)
      /\ \A s \in Source : l.truth[s] = Covered(got[s].feed)
      /\ l.num = n
  BY DEF d, ListOf
<1>7. ~Overlapping(d)
  <2>1. CASE conf.threat
    <3>1. \A r \in Ranges(got) : r.country = 1
      BY <1>1, <1>2, <2>1, RangeFacts DEF CountryOf, ThreatList
    <3>2. Apart(d)
      BY <1>5, <3>1
    <3>3. \A i \in 1..Len(d) : d[i].start \in Nat /\ d[i].end \in Nat
      <4>1. \A x \in AddrRange : x.start \in Nat /\ x.end \in Nat
        BY AddressIsNat DEF AddrRange
      <4> QED  BY <1>5, <4>1
    <3>4. ASSUME NEW i \in 1..(Len(d) - 1), d[i].end >= d[i + 1].start  PROVE FALSE
      <4>1. i \in 1..Len(d) /\ i + 1 \in 1..Len(d)
        BY <1>5
      <4>2. d[i].end + 1 < d[i + 1].start
        BY <3>2 DEF Apart
      <4> QED  BY <3>3, <3>4, <4>1, <4>2
    <3> QED  BY <3>4 DEF Overlapping
  <2>2. CASE ~conf.threat
    BY <1>6, <2>2 DEF Accepts, ThreatList
  <2> QED  BY <2>1, <2>2
<1>8. ASSUME NEW s \in Source, NEW a \in Address
      PROVE  /\ a \in l.truth[s] <=> \E p \in got[s].feed : BlockStart(a, p.prefix) = BlockStart(p.addr, p.prefix)
             /\ a \in l.truth[s] <=> \E p \in got[s].feed : LET r == RangeOf(p.addr, p.prefix, CountryOf(s)) IN
                                                          a \in r.start..r.end
  <2>1. a \in l.truth[s] <=> \E p \in got[s].feed : LET r == RangeOf(p.addr, p.prefix, 1) IN a \in r.start..r.end
    BY <1>6 DEF Covered
  <2>2. ASSUME NEW p \in got[s].feed, NEW c \in Nat
        PROVE  LET r == RangeOf(p.addr, p.prefix, c) IN
               a \in r.start..r.end <=> BlockStart(a, p.prefix) = BlockStart(p.addr, p.prefix)
    <3>1. p \in Prefix
      OBVIOUS
    <3> QED  BY <3>1, RangeFacts
  <2> QED  BY <1>1, <2>1, <2>2
<1>9. ASSUME NEW a \in Address, NEW c \in Nat
      PROVE  Has(d, a, c) <=> \E s \in Source : Country(s, conf.threat) = c /\ a \in l.truth[s]
  <2>1. Has(d, a, c) <=> \E r \in Ranges(got) : r.country = c /\ a \in r.start..r.end
    BY <1>5
  <2>2. ASSUME NEW r \in Ranges(got), r.country = c, a \in r.start..r.end
        PROVE  \E s \in Source : Country(s, conf.threat) = c /\ a \in l.truth[s]
    <3>0. PICK s \in Source : \E p \in got[s].feed : r = RangeOf(p.addr, p.prefix, CountryOf(s))
      BY <1>2
    <3>1. PICK p \in got[s].feed : r = RangeOf(p.addr, p.prefix, CountryOf(s))
      BY <3>0
    <3>2. r.country = CountryOf(s)
      BY <1>1, <3>1, RangeFacts
    <3>3. a \in l.truth[s]
      BY <1>8, <2>2, <3>1
    <3> QED  BY <1>1, <2>2, <3>2, <3>3
  <2>3. ASSUME NEW s \in Source, Country(s, conf.threat) = c, a \in l.truth[s]
        PROVE  \E r \in Ranges(got) : r.country = c /\ a \in r.start..r.end
    <3>1. PICK p \in got[s].feed : LET r == RangeOf(p.addr, p.prefix, CountryOf(s)) IN a \in r.start..r.end
      BY <1>8, <2>3
    <3>2. RangeOf(p.addr, p.prefix, CountryOf(s)) \in Ranges(got)
      BY <1>2
    <3>3. RangeOf(p.addr, p.prefix, CountryOf(s)).country = c
      BY <1>1, <2>3, RangeFacts
    <3> QED  BY <3>1, <3>2, <3>3
  <2> QED  BY <2>1, <2>2, <2>3
<1>10. \A b : b \in Blocks(got) <=> \E s \in Source : \E p \in got[s].feed :
                                 b = [addr |-> BlockStart(p.addr, p.prefix), prefix |-> p.prefix]
  BY DEF Blocks
<1>11. ASSUME NEW b \in Blocks(got)  PROVE b \in Prefix /\ Aligned(b.addr, b.prefix)
  <2>0. PICK s \in Source : \E p \in got[s].feed : b = [addr |-> BlockStart(p.addr, p.prefix), prefix |-> p.prefix]
    BY <1>10
  <2>1. PICK p \in got[s].feed : b = [addr |-> BlockStart(p.addr, p.prefix), prefix |-> p.prefix]
    BY <2>0
  <2>2. p.addr \in Address /\ p.prefix \in 0..Bits
    BY DEF Prefix
  <2>3. BlockStart(p.addr, p.prefix) \in Address /\ Aligned(BlockStart(p.addr, p.prefix), p.prefix)
    BY <2>2, BlockFacts
  <2> QED  BY <2>1, <2>2, <2>3 DEF Prefix
<1>12. ASSUME NEW a \in Address
       PROVE  (\E p \in Blocks(got) : BlockStart(a, p.prefix) = p.addr) <=> \E s \in Source : a \in l.truth[s]
  <2>1. ASSUME NEW b \in Blocks(got), BlockStart(a, b.prefix) = b.addr  PROVE \E s \in Source : a \in l.truth[s]
    BY <1>8, <1>10, <2>1
  <2>2. ASSUME NEW s \in Source, a \in l.truth[s]  PROVE \E b \in Blocks(got) : BlockStart(a, b.prefix) = b.addr
    <3>1. PICK p \in got[s].feed : BlockStart(a, p.prefix) = BlockStart(p.addr, p.prefix)
      BY <1>8, <2>2
    <3> DEFINE b == [addr |-> BlockStart(p.addr, p.prefix), prefix |-> p.prefix]
    <3>2. b \in Blocks(got)
      BY <1>10
    <3>3. BlockStart(a, b.prefix) = b.addr
      BY <3>1
    <3> HIDE DEF b
    <3> QED  BY <3>2, <3>3
  <2> QED  BY <2>1, <2>2
<1>13. Blocks(got) \subseteq Prefix /\ \A p \in Blocks(got) : Aligned(p.addr, p.prefix)
  BY <1>11
<1> QED  BY <1>5, <1>6, <1>7, <1>9, <1>12, <1>13 DEF SoundList

-----------------------------------------------------------------------------
(* Entries of the kernel's maps *)

KernelEntry ==
    {e \in [map : Map, addr : Address, prefix : 0..Bits, country : Nat \ {0}] : Aligned(e.addr, e.prefix)}

RawEntry == [map : Map, addr : Address, prefix : 0..Bits, country : Nat \ {0}]

\* Entries as a sync plans them, with D those of configured prefixes: all others have no
\* host bits and, in the map of denied prefixes, are of a threat list that is synced (t).
Planned(D, t, E) ==
    /\ E \subseteq RawEntry /\ IsFiniteSet(E)
    /\ \A e \in E : e \in D \/ (Aligned(e.addr, e.prefix) /\ (e.map = "deny" => t))

\* What the kernel has of them, and what it has of those that no threat list shares.
Trie(E)     == {InTrie(e) : e \in E}
Solid(t, E) == {InTrie(e) : e \in {x \in E : ~(t /\ ~Aligned(x.addr, x.prefix))}}

\* The kernel's trie drops the bits below the prefix, so it has an aligned entry as it
\* is, and entries of one key in one place.
LEMMA TrieIs ==
    ASSUME NEW e \in RawEntry
    PROVE  /\ InTrie(e) \in KernelEntry
           /\ InTrie(e).map = e.map /\ InTrie(e).prefix = e.prefix /\ InTrie(e).country = e.country
           /\ InTrie(e).addr = BlockStart(e.addr, e.prefix)
           /\ Aligned(e.addr, e.prefix) => InTrie(e) = e
           /\ \A f \in RawEntry : SameKey(e, f) => SameKey(InTrie(e), InTrie(f))
<1>1. e.addr \in Address /\ e.prefix \in 0..Bits /\ e.map \in Map /\ e.country \in Nat \ {0}
  BY DEF RawEntry
<1> DEFINE b == BlockStart(e.addr, e.prefix)
<1>2. b \in Address /\ Aligned(b, e.prefix)
  BY <1>1, BlockFacts
<1>3. Aligned(e.addr, e.prefix) => b = e.addr
  BY <1>1, AlignedBlock
<1>4. \A f \in RawEntry : /\ InTrie(f).map = f.map /\ InTrie(f).prefix = f.prefix
                          /\ InTrie(f).addr = BlockStart(f.addr, f.prefix) /\ InTrie(f).country = f.country
  BY DEF InTrie, RawEntry
<1>5. \A f \in RawEntry : SameKey(e, f) => SameKey(InTrie(e), InTrie(f))
  BY <1>4 DEF SameKey
<1>6. InTrie(e) = [e EXCEPT !.addr = b]
  BY DEF InTrie
<1> HIDE DEF b
<1>7. InTrie(e) \in KernelEntry /\ (Aligned(e.addr, e.prefix) => InTrie(e) = e)
  BY <1>1, <1>2, <1>3, <1>6 DEF RawEntry, KernelEntry
<1> QED  BY <1>4, <1>5, <1>7

\* After entries were put into a map, it has entries only, and finitely many.
LEMMA PutFacts ==
    ASSUME NEW K, K \subseteq KernelEntry, IsFiniteSet(K), NEW E, E \subseteq RawEntry, IsFiniteSet(E)
    PROVE  Put(K, E) \subseteq KernelEntry /\ Trie(E) \subseteq Put(K, E) /\ IsFiniteSet(Put(K, E))
<1> DEFINE g == [e \in E |-> InTrie(e)]
<1>1. Put(K, E) = Without(K, E) \cup Trie(E)
  BY DEF Put, Trie
<1>2. Without(K, E) \subseteq K
  BY DEF Without
<1>3. IsFiniteSet(Without(K, E))
  BY <1>2, FS_Subset
<1>4. IsFiniteSet({g[e] : e \in E})
  <2> HIDE DEF g
  <2> QED  BY ImageIsFinite
<1>5. {g[e] : e \in E} = Trie(E)
  BY DEF Trie
<1> HIDE DEF g
<1>6. Trie(E) \subseteq KernelEntry
  BY TrieIs DEF Trie
<1>7. IsFiniteSet(Without(K, E) \cup Trie(E))
  BY <1>3, <1>4, <1>5, FS_Union
<1> QED  BY <1>1, <1>2, <1>6, <1>7

\* Stale entries are a list's.  Putting in the new entries and deleting the stale ones
\* leaves the new ones, but for those a stale one shares, and nothing else of the two.
LEMMA StaleGoes ==
    ASSUME NEW D, NEW t \in BOOLEAN, NEW old, Planned(D, t, old), NEW new, Planned(D, t, new),
           D \subseteq new, \A d \in D : d.map = "deny", NEW K, K \subseteq KernelEntry
    PROVE  LET gone == Stale(old, new) IN
           /\ Trie(new) \subseteq K => Solid(t, new) \subseteq Without(K, gone)
           /\ K \subseteq Trie(old) => Put(K, new) \subseteq Trie(new) \cup Trie(gone)
           /\ K \subseteq Trie(new) \cup Trie(gone) => Without(K, gone) \subseteq Trie(new)
<1> DEFINE gone == Stale(old, new)
<1>1. /\ \A e \in gone : e \in old /\ \A f \in new : ~SameKey(e, f)
      /\ \A e \in old : e \in gone \/ \E f \in new : SameKey(e, f)
  BY DEF Stale
<1>2. old \subseteq RawEntry /\ new \subseteq RawEntry
  BY DEF Planned
<1> HIDE DEF gone
<1>3. \A e : SameKey(e, e)
  BY DEF SameKey
<1>4. ASSUME NEW g \in gone  PROVE g \in RawEntry /\ Aligned(g.addr, g.prefix) /\ (g.map = "deny" => t) /\ InTrie(g) = g
  <2>1. g \in old /\ g \notin D
    BY <1>1, <1>3
  <2>2. g \in RawEntry /\ Aligned(g.addr, g.prefix) /\ (g.map = "deny" => t)
    BY <2>1 DEF Planned
  <2> QED  BY <2>2, TrieIs
<1>5. ASSUME Trie(new) \subseteq K, NEW y \in Solid(t, new)  PROVE y \in Without(K, gone)
  <2>1. PICK e \in new : ~(t /\ ~Aligned(e.addr, e.prefix)) /\ y = InTrie(e)
    BY DEF Solid
  <2>2. y \in K
    BY <1>5, <2>1 DEF Trie
  <2>3. ASSUME NEW g \in gone, SameKey(y, InTrie(g))  PROVE FALSE
    <3>1. InTrie(g) = g /\ (g.map = "deny" => t) /\ \A f \in new : ~SameKey(g, f)
      BY <1>1, <1>4
    <3>2. CASE Aligned(e.addr, e.prefix)
      <4>1. y = e
        BY <1>2, <2>1, <3>2, TrieIs
      <4> QED  BY <2>3, <3>1, <4>1 DEF SameKey
    <3>3. CASE ~Aligned(e.addr, e.prefix)
      <4>1. e \in D /\ ~t
        BY <2>1, <3>3 DEF Planned
      <4>2. y.map = "deny"
        BY <1>2, <2>1, <4>1, TrieIs
      <4> QED  BY <2>3, <3>1, <4>1, <4>2 DEF SameKey
    <3> QED  BY <3>2, <3>3
  <2> QED  BY <2>2, <2>3 DEF Without
<1>6. ASSUME K \subseteq Trie(old), NEW x \in Put(K, new)  PROVE x \in Trie(new) \cup Trie(gone)
  <2>1. CASE x \in Trie(new)
    BY <2>1
  <2>2. CASE x \notin Trie(new)
    <3>1. x \in K /\ \A f \in new : ~SameKey(x, InTrie(f))
      BY <1>6, <2>2 DEF Put, Without, Trie
    <3>2. PICK k \in old : x = InTrie(k)
      BY <1>6, <3>1 DEF Trie
    <3>3. \A f \in new : ~SameKey(k, f)
      BY <1>2, <3>1, <3>2, TrieIs
    <3>4. k \in gone
      BY <1>1, <3>3
    <3> QED  BY <3>2, <3>4 DEF Trie
  <2> QED  BY <2>1, <2>2
<1>7. ASSUME K \subseteq Trie(new) \cup Trie(gone), NEW x \in Without(K, gone)  PROVE x \in Trie(new)
  <2>1. x \in K /\ \A g \in gone : ~SameKey(x, InTrie(g))
    BY DEF Without
  <2>2. x \notin Trie(gone)
    BY <1>3, <2>1 DEF Trie
  <2> QED  BY <1>7, <2>1, <2>2
<1>8. Trie(new) \subseteq K => Solid(t, new) \subseteq Without(K, gone)
  BY <1>5
<1>9. K \subseteq Trie(old) => Put(K, new) \subseteq Trie(new) \cup Trie(gone)
  BY <1>6
<1>10. K \subseteq Trie(new) \cup Trie(gone) => Without(K, gone) \subseteq Trie(new)
  BY <1>7
<1> QED  BY <1>8, <1>9, <1>10 DEF gone

\* Fewer entries need no more room.
LEMMA RoomForFewer ==
    ASSUME NEW K, IsFiniteSet(K), NEW J, J \subseteq K, HasRoom(K), capacity \in [Map -> Nat]
    PROVE  HasRoom(J) /\ IsFiniteSet(J)
<1> SUFFICES ASSUME NEW m \in Map  PROVE Cardinality({e \in J : e.map = m}) <= capacity[m]
  BY FS_Subset DEF HasRoom
<1> DEFINE A == {e \in K : e.map = m}
           B == {e \in J : e.map = m}
<1>1. A \subseteq K /\ B \subseteq A
  OBVIOUS
<1>2. Cardinality(A) <= capacity[m]
  BY DEF HasRoom
<1> HIDE DEF A, B
<1>3. IsFiniteSet(A)
  BY <1>1, FS_Subset
<1>4. IsFiniteSet(B) /\ Cardinality(B) <= Cardinality(A)
  BY <1>1, <1>3, FS_Subset
<1>5. Cardinality(A) \in Nat /\ Cardinality(B) \in Nat /\ capacity[m] \in Nat
  BY <1>3, <1>4, FS_CardinalityType
<1>6. Cardinality(B) <= capacity[m]
  BY <1>2, <1>4, <1>5
<1> QED  BY <1>6 DEF B

\* The entries of a prefix and of a block.
LEMMA EntryIs ==
    ASSUME NEW m \in Map, NEW p, p.addr \in Address, p.prefix \in 0..Bits, NEW c \in Nat \ {0}
    PROVE  Entry(m, p, c) \in RawEntry
BY DEF Entry, RawEntry

\* What is known of a configuration, and what its switches leave for the kernel.
LEMMA ConfigFacts ==
    ASSUME conf \in Configs
    PROVE  /\ conf \in ConfigType /\ conf.threat \in BOOLEAN
           /\ conf.allow \subseteq Source /\ conf.deny \subseteq Source /\ conf.denied \subseteq Prefix
           /\ conf.cidrFilter \in BOOLEAN /\ conf.geoFilter \in BOOLEAN /\ conf.threatIntel \in BOOLEAN
           /\ KernelPolicy.denied \subseteq Prefix /\ KernelPolicy.threat \in BOOLEAN
<1>1. conf \in ConfigType
  BY ListAssumption
<1>2. /\ conf.threat \in BOOLEAN /\ conf.allow \subseteq Source /\ conf.deny \subseteq Source
      /\ conf.denied \subseteq Prefix
      /\ conf.cidrFilter \in BOOLEAN /\ conf.geoFilter \in BOOLEAN /\ conf.threatIntel \in BOOLEAN
  BY <1>1 DEF ConfigType
<1>3. KernelPolicy.denied = IfCidrs(conf.denied) /\ KernelPolicy.threat = (ThreatList /\ ListSwitch)
  BY DEF KernelPolicy
<1> QED  BY <1>1, <1>2, <1>3 DEF IfCidrs

LEMMA PolicyIs ==
    ASSUME conf \in Configs
    PROVE  /\ KernelPolicy.denied = IfCidrs(conf.denied) /\ KernelPolicy.allowed = IfCidrs(conf.allowed)
           /\ KernelPolicy.trusted = IfCidrs(conf.trusted)
           /\ KernelPolicy.threat <=> ThreatList /\ ListSwitch
           /\ KernelPolicy.geo <=> ~ThreatList /\ ListSwitch
<1>1. /\ KernelPolicy.denied = IfCidrs(conf.denied) /\ KernelPolicy.allowed = IfCidrs(conf.allowed)
      /\ KernelPolicy.trusted = IfCidrs(conf.trusted)
      /\ KernelPolicy.threat = (ThreatList /\ ListSwitch)
      /\ KernelPolicy.geo = (~ThreatList /\ ListSwitch)
  BY DEF KernelPolicy
<1> QED  BY <1>1

\* Which entries a list has.
LEMMA ListEntriesAre ==
    ASSUME NEW l, NEW e
    PROVE  e \in ListEntries(l) <=> \/ KernelPolicy.threat /\ \E p \in l.prefixes : e = Entry("deny", p, 1)
                                    \/ KernelPolicy.geo /\ \E p \in XdpPrefixes(l.ranges) : e = Entry("geo", p, p.country)
BY DEF ListEntries

\* The entries of a true list are planned so.
LEMMA EntriesAre ==
    ASSUME conf \in Configs, NEW l, SoundList(l, conf.threat)
    PROVE  /\ Planned(DeniedEntries, KernelPolicy.threat, Entries(l)) /\ DeniedEntries \subseteq Entries(l)
           /\ \A d \in DeniedEntries : d.map = "deny"
<1>1. conf.threat \in BOOLEAN /\ KernelPolicy.denied \subseteq Prefix
  BY ConfigFacts
<1>2. /\ l.ranges \in Seq(AddrRange) /\ l.prefixes \subseteq Prefix /\ Nonempty(l.ranges)
      /\ \A p \in l.prefixes : Aligned(p.addr, p.prefix)
      /\ \A a \in Address, c \in Nat :
           Has(l.ranges, a, c) <=> \E s \in Source : Country(s, conf.threat) = c /\ a \in l.truth[s]
  BY DEF SoundList
<1>3. \A p \in Prefix : p.addr \in Address /\ p.prefix \in 0..Bits
  BY DEF Prefix
<1>4. "deny" \in Map /\ "geo" \in Map /\ 1 \in Nat \ {0}
  BY DEF Map
<1>5. ASSUME NEW A, A \subseteq Prefix
      PROVE  {Entry("deny", p, 1) : p \in A} \subseteq RawEntry /\ IsFiniteSet({Entry("deny", p, 1) : p \in A})
  <2> DEFINE g == [p \in A |-> Entry("deny", p, 1)]
  <2>1. \A p \in A : Entry("deny", p, 1) \in RawEntry
    BY <1>3, <1>4, <1>5, EntryIs
  <2>2. IsFiniteSet(A)
    BY <1>5, PrefixesAreFinite, FS_Subset
  <2>3. IsFiniteSet({g[p] : p \in A})
    <3> HIDE DEF g
    <3> QED  BY <2>2, ImageIsFinite
  <2>4. {g[p] : p \in A} = {Entry("deny", p, 1) : p \in A}
    OBVIOUS
  <2> HIDE DEF g
  <2> QED  BY <2>1, <2>3, <2>4
<1> DEFINE G == {Entry("geo", p, p.country) : p \in XdpPrefixes(l.ranges)}
           T == {Entry("deny", p, 1) : p \in l.prefixes}
<1>6. G \subseteq RawEntry /\ IsFiniteSet(G) /\ \A e \in G : e.map = "geo" /\ Aligned(e.addr, e.prefix)
  <2> DEFINE A == XdpPrefixes(l.ranges)
             g == [p \in A |-> Entry("geo", p, p.country)]
  <2>1. /\ A \subseteq Block /\ IsFiniteSet(A)
        /\ \A e \in A : \E i \in 1..Len(l.ranges) : e.country = l.ranges[i].country
    BY <1>2, XdpPrefixesCover
  <2> HIDE DEF A
  <2>2. ASSUME NEW i \in 1..Len(l.ranges)  PROVE l.ranges[i].country \in Nat \ {0}
    <3> DEFINE r == l.ranges[i]
    <3>1. r \in AddrRange /\ r.start <= r.end
      BY <1>2 DEF Nonempty
    <3>2. Has(l.ranges, r.start, r.country)
      <4>1. r.start \in r.start..r.end
        <5>1. r.start \in Nat /\ r.end \in Nat
          BY <3>1, AddressIsNat DEF AddrRange
        <5> HIDE DEF r
        <5> QED  BY <3>1, <5>1
      <4> QED  BY <4>1 DEF Has
    <3>3. r.start \in Address /\ r.country \in Nat
      BY <3>1 DEF AddrRange
    <3> HIDE DEF r
    <3>4. PICK s \in Source : Country(s, conf.threat) = r.country
      BY <1>2, <3>2, <3>3
    <3>5. r.country # 0
      BY <3>4, CountryFacts DEF Country
    <3> QED  BY <3>3, <3>5 DEF r
  <2>3. ASSUME NEW p \in A
        PROVE  LET e == Entry("geo", p, p.country) IN e \in RawEntry /\ e.map = "geo" /\ Aligned(e.addr, e.prefix)
    <3>1. p \in Block
      BY <2>1
    <3>2. p.addr \in Address /\ p.prefix \in 0..Bits /\ Aligned(p.addr, p.prefix)
      BY <3>1 DEF Block
    <3>3. p.country \in Nat \ {0}
      BY <2>1, <2>2
    <3>4. Entry("geo", p, p.country) \in RawEntry
      BY <1>4, <3>2, <3>3, EntryIs
    <3> QED  BY <3>2, <3>4 DEF Entry
  <2>4. IsFiniteSet({g[p] : p \in A})
    <3> HIDE DEF g
    <3> QED  BY <2>1, ImageIsFinite
  <2>5. {g[p] : p \in A} = {Entry("geo", p, p.country) : p \in A}
    OBVIOUS
  <2> HIDE DEF g
  <2>6. \A e \in {Entry("geo", p, p.country) : p \in A} : e \in RawEntry /\ e.map = "geo" /\ Aligned(e.addr, e.prefix)
    BY <2>3
  <2> QED  BY <2>4, <2>5, <2>6 DEF A
<1>7. T \subseteq RawEntry /\ IsFiniteSet(T) /\ \A e \in T : e.map = "deny" /\ Aligned(e.addr, e.prefix)
  <2>1. \A e \in T : e.map = "deny" /\ Aligned(e.addr, e.prefix)
    BY <1>2 DEF Entry
  <2> QED  BY <1>2, <1>5, <2>1
<1> HIDE DEF G, T
<1>8. ListEntries(l) \subseteq G \cup T /\ \A e \in ListEntries(l) : e \in G \/ KernelPolicy.threat
  BY DEF ListEntries, G, T
<1>9. IsFiniteSet(ListEntries(l))
  <2>1. IsFiniteSet(G \cup T)
    BY <1>6, <1>7, FS_Union
  <2> QED  BY <1>8, <2>1, FS_Subset
<1>10. DeniedEntries \subseteq RawEntry /\ IsFiniteSet(DeniedEntries)
  BY <1>1, <1>5 DEF DeniedEntries
<1>11. \A d \in DeniedEntries : d.map = "deny"
  BY DEF DeniedEntries, Entry
<1>12. Entries(l) = DeniedEntries \cup ListEntries(l) /\ IsFiniteSet(DeniedEntries \cup ListEntries(l))
  BY <1>9, <1>10, FS_Union DEF Entries
<1>13. ASSUME NEW e \in ListEntries(l)
       PROVE  e \in RawEntry /\ Aligned(e.addr, e.prefix) /\ (e.map = "deny" => KernelPolicy.threat)
  BY <1>6, <1>7, <1>8
<1>14. Planned(DeniedEntries, KernelPolicy.threat, Entries(l))
  BY <1>10, <1>12, <1>13 DEF Planned
<1> QED  BY <1>11, <1>12, <1>14

\* The size of a map that is made anew.
LEMMA DesiredIs ==
    ASSUME conf \in Configs, NEW l, SoundList(l, conf.threat), NEW m \in Map
    PROVE  DesiredEntries(l, m) \in 0..MaxEntries
<1> DEFINE n == Required(l, m)
           roomy == PowerOfTwoFrom(2 * n)
<1>1. n \in Nat
  <2>1. IsFiniteSet(Entries(l)) /\ {e \in Entries(l) : e.map = m} \subseteq Entries(l)
    BY EntriesAre DEF Planned
  <2>2. IsFiniteSet({e \in Entries(l) : e.map = m})
    BY <2>1, FS_Subset
  <2> QED  BY <2>2, FS_CardinalityType DEF Required
<1>2. DefaultEntries \in Nat \ {0} /\ MaxEntries \in Nat /\ DefaultEntries <= MaxEntries
  BY ListAssumption
<1>3. ~(n <= DefaultEntries) => roomy \in Nat
  <2> HIDE DEF n
  <2>1. ~(n <= DefaultEntries) => 2 * n \in Nat \ {0}
    BY <1>1, <1>2
  <2> QED  BY <2>1, PowerOfTwoExists
<1>4. DesiredEntries(l, m) = IF n <= DefaultEntries THEN DefaultEntries
                             ELSE IF roomy < MaxEntries THEN roomy ELSE MaxEntries
  BY DEF DesiredEntries
<1> HIDE DEF n, roomy
<1> QED  BY <1>1, <1>2, <1>3, <1>4

-----------------------------------------------------------------------------
(* Verdicts *)

\* What the kernel finds of the entry of a prefix.
LEMMA EntryMatches ==
    ASSUME NEW m, NEW p, NEW c, NEW a
    PROVE  /\ Matches(InTrie(Entry(m, p, c)), a) <=> BlockStart(a, p.prefix) = BlockStart(p.addr, p.prefix)
           /\ Entry(m, p, c).map = m /\ InTrie(Entry(m, p, c)).map = m
           /\ Entry(m, p, c).addr = p.addr /\ Entry(m, p, c).prefix = p.prefix /\ Entry(m, p, c).country = c
BY DEF Matches, InTrie, Entry

\* The map of denied prefixes drops what one of its entries matches.
LEMMA DenyMatches ==
    ASSUME kernel \subseteq KernelEntry, NEW a \in Address
    PROVE  LongestMatch({e \in kernel : e.map = "deny"}, a) # NoCountry
             <=> \E e \in kernel : e.map = "deny" /\ Matches(e, a)
<1> DEFINE E == {e \in kernel : e.map = "deny"}
<1>1. \A e \in E : e.prefix \in 0..Bits /\ e.country # NoCountry
  BY DEF KernelEntry, NoCountry
<1>2. \A e : e \in E <=> e \in kernel /\ e.map = "deny"
  OBVIOUS
<1> HIDE DEF E
<1>3. \/ (\A e \in E : ~Matches(e, a)) /\ LongestMatch(E, a) = NoCountry
      \/ \E e \in E : Matches(e, a) /\ LongestMatch(E, a) = e.country
  BY <1>1, LongestMatchIs
<1>4. LongestMatch(E, a) # NoCountry <=> \E e \in E : Matches(e, a)
  BY <1>1, <1>3
<1> QED  BY <1>2, <1>4 DEF E

\* The prefixes of a true list have the addresses that its ranges have.
LEMMA PrefixesLikeRanges ==
    ASSUME conf \in Configs, NEW l, SoundList(l, conf.threat), NEW a \in Address
    PROVE  (\E p \in l.prefixes : BlockStart(a, p.prefix) = BlockStart(p.addr, p.prefix))
             <=> Bisect(l.ranges, a) # NoCountry
<1>1. conf.threat \in BOOLEAN
  BY ConfigFacts
<1>2. (\E p \in l.prefixes : BlockStart(a, p.prefix) = p.addr) <=> \E s \in Source : a \in l.truth[s]
  BY DEF SoundList
<1>3. ASSUME NEW p \in l.prefixes  PROVE BlockStart(p.addr, p.prefix) = p.addr
  <2>1. p.addr \in Address /\ p.prefix \in 0..Bits /\ Aligned(p.addr, p.prefix)
    BY DEF SoundList, Prefix
  <2> QED  BY <2>1, AlignedBlock
<1> DEFINE c == Bisect(l.ranges, a)
<1>4. \/ c \in Nat \ {0} /\ \E s \in Source : a \in l.truth[s]
      \/ c = NoCountry /\ \A s \in Source : a \notin l.truth[s]
  BY <1>1, LookupFinds
<1> HIDE DEF c
<1>5. c # NoCountry <=> \E s \in Source : a \in l.truth[s]
  BY <1>4 DEF NoCountry
<1> QED  BY <1>2, <1>3, <1>5 DEF c

\* With no other entries than a list's and the configuration's, the kernel's map of
\* denied prefixes drops addresses of these only.
LEMMA DenyOnly ==
    ASSUME conf \in Configs, SoundList(snapshot, conf.threat), kernel \subseteq Trie(Entries(snapshot)),
           NEW a \in Address, NEW e \in kernel, e.map = "deny", Matches(e, a)
    PROVE  InCidrs(a, KernelPolicy.denied) \/ (KernelPolicy.threat /\ Bisect(snapshot.ranges, a) # NoCountry)
<1>1. PICK x \in Entries(snapshot) : e = InTrie(x)
  BY DEF Trie
<1>2. CASE x \in DeniedEntries
  <2>1. PICK p \in KernelPolicy.denied : x = Entry("deny", p, 1)
    BY <1>2 DEF DeniedEntries
  <2> QED  BY <1>1, <2>1, EntryMatches DEF InCidrs
<1>3. CASE x \in ListEntries(snapshot)
  <2>1. CASE KernelPolicy.threat /\ \E p \in snapshot.prefixes : x = Entry("deny", p, 1)
    <3>1. PICK p \in snapshot.prefixes : x = Entry("deny", p, 1)
      BY <2>1
    <3>2. BlockStart(a, p.prefix) = BlockStart(p.addr, p.prefix)
      BY <1>1, <3>1, EntryMatches
    <3> QED  BY <2>1, <3>2, PrefixesLikeRanges
  <2>2. CASE \E p \in XdpPrefixes(snapshot.ranges) : x = Entry("geo", p, p.country)
    BY <1>1, <2>2, EntryMatches
  <2> QED  BY <1>3, <2>1, <2>2, ListEntriesAre
<1> QED  BY <1>2, <1>3 DEF Entries

\* With all of these but the shared ones, it drops every address of the others.
LEMMA DenyAll ==
    ASSUME conf \in Configs, SoundList(snapshot, conf.threat), NEW a \in Address,
           Solid(KernelPolicy.threat, Entries(snapshot)) \subseteq kernel,
           \/ InCidrs(a, {p \in KernelPolicy.denied : ~Shared(p)})
           \/ KernelPolicy.threat /\ Bisect(snapshot.ranges, a) # NoCountry
    PROVE  \E e \in kernel : e.map = "deny" /\ Matches(e, a)
<1> DEFINE t == KernelPolicy.threat
<1>1. ASSUME NEW p, Entry("deny", p, 1) \in Entries(snapshot), ~(t /\ ~Aligned(p.addr, p.prefix)),
             BlockStart(a, p.prefix) = BlockStart(p.addr, p.prefix)
      PROVE  \E e \in kernel : e.map = "deny" /\ Matches(e, a)
  <2> DEFINE x == Entry("deny", p, 1)
  <2>1. x.addr = p.addr /\ x.prefix = p.prefix /\ InTrie(x).map = "deny" /\ Matches(InTrie(x), a)
    BY <1>1, EntryMatches
  <2>2. x \in Entries(snapshot)
    BY <1>1
  <2> HIDE DEF x, t
  <2>3. InTrie(x) \in Solid(t, Entries(snapshot))
    BY <1>1, <2>1, <2>2 DEF Solid
  <2> QED  BY <2>1, <2>3 DEF t
<1>2. CASE InCidrs(a, {p \in KernelPolicy.denied : ~Shared(p)})
  <2>1. PICK p \in KernelPolicy.denied : ~Shared(p) /\ BlockStart(a, p.prefix) = BlockStart(p.addr, p.prefix)
    BY <1>2 DEF InCidrs
  <2>2. Entry("deny", p, 1) \in Entries(snapshot)
    BY DEF Entries, DeniedEntries
  <2> QED  BY <1>1, <2>1, <2>2 DEF Shared
<1>3. CASE t /\ Bisect(snapshot.ranges, a) # NoCountry
  <2>1. PICK p \in snapshot.prefixes : BlockStart(a, p.prefix) = BlockStart(p.addr, p.prefix)
    BY <1>3, PrefixesLikeRanges
  <2>2. Entry("deny", p, 1) \in Entries(snapshot)
    BY <1>3, ListEntriesAre DEF Entries
  <2>3. Aligned(p.addr, p.prefix)
    BY DEF SoundList
  <2> QED  BY <1>1, <2>1, <2>2, <2>3
<1> QED  BY <1>2, <1>3

\* The kernel's map of countries has the country that a lookup finds.
LEMMA GeoMap ==
    ASSUME conf \in Configs, SoundList(snapshot, conf.threat), NEW a \in Address,
           Solid(KernelPolicy.threat, Entries(snapshot)) \subseteq kernel,
           kernel \subseteq Trie(Entries(snapshot)), KernelPolicy.geo
    PROVE  /\ LongestMatch({e \in kernel : e.map = "geo"}, a) = Bisect(snapshot.ranges, a)
           /\ Bisect(snapshot.ranges, a) \in Source \cup {NoCountry}
<1> DEFINE E == {e \in kernel : e.map = "geo"}
           d == snapshot.ranges
           c == Bisect(d, a)
<1>1. conf.threat \in BOOLEAN /\ ~conf.threat
  BY ConfigFacts, PolicyIs DEF ThreatList
<1>2. /\ d \in Seq(AddrRange) /\ Nonempty(d) /\ ~Overlapping(d)
      /\ \A b \in Address, k \in Nat : Has(d, b, k) <=> \E s \in Source : Country(s, conf.threat) = k /\ b \in snapshot.truth[s]
  BY DEF SoundList
<1>3. \/ c \in Nat \ {0} /\ Has(d, a, c) /\ \E s \in Source : Country(s, conf.threat) = c
      \/ c = NoCountry /\ \A s \in Source : a \notin snapshot.truth[s]
  BY <1>1, LookupFinds
<1>4. c \in Source \cup {NoCountry}
  BY <1>1, <1>3 DEF Country
<1>5. Planned(DeniedEntries, KernelPolicy.threat, Entries(snapshot)) /\ \A x \in DeniedEntries : x.map = "deny"
  BY EntriesAre
<1>6. ASSUME NEW x \in Entries(snapshot), x.map = "geo"
      PROVE  x \in RawEntry /\ Aligned(x.addr, x.prefix) /\ InTrie(x) = x
  <2>1. x \in RawEntry /\ Aligned(x.addr, x.prefix)
    BY <1>5, <1>6 DEF Planned
  <2> QED  BY <2>1, TrieIs
<1>7. ASSUME NEW e  PROVE e \in E <=> e \in Entries(snapshot) /\ e.map = "geo"
  <2>1. ASSUME e \in E  PROVE e \in Entries(snapshot) /\ e.map = "geo"
    <3>1. PICK x \in Entries(snapshot) : e = InTrie(x)
      BY <2>1 DEF Trie
    <3>2. x \in RawEntry
      BY <1>5 DEF Planned
    <3>3. x.map = "geo"
      BY <2>1, <3>1, <3>2, TrieIs
    <3> QED  BY <1>6, <3>1, <3>3
  <2>2. ASSUME e \in Entries(snapshot), e.map = "geo"  PROVE e \in E
    <3>1. InTrie(e) = e /\ Aligned(e.addr, e.prefix)
      BY <1>6, <2>2
    <3>2. InTrie(e) \in Solid(KernelPolicy.threat, Entries(snapshot))
      BY <2>2, <3>1 DEF Solid
    <3> QED  BY <2>2, <3>1, <3>2
  <2> QED  BY <2>1, <2>2
<1>8. \A e : e \in E <=> \E p \in XdpPrefixes(d) : e = Entry("geo", p, p.country)
  <2>1. \A p, k : Entry("geo", p, k).map = "geo" /\ Entry("deny", p, k).map = "deny"
    BY DEF Entry
  <2>2. \A e \in DeniedEntries : e.map # "geo"
    BY <1>5
  <2>3. \A e : e \in Entries(snapshot) <=> e \in DeniedEntries \/ e \in ListEntries(snapshot)
    BY DEF Entries
  <2>4. \A e : e \in ListEntries(snapshot) /\ e.map = "geo" <=> \E p \in XdpPrefixes(d) : e = Entry("geo", p, p.country)
    BY <2>1, ListEntriesAre
  <2> HIDE DEF E, d
  <2> QED  BY <1>7, <2>2, <2>3, <2>4
<1>9. \A e \in E : e.prefix \in 0..Bits /\ e.country \in Nat
  BY <1>6, <1>7 DEF RawEntry
<1> HIDE DEF E, d, c
<1>10. \A p, k : (Matches(Entry("geo", p, k), a) <=> Matches(p, a)) /\ Entry("geo", p, k).country = k
  BY DEF Matches, Entry
<1>11. \A k \in Nat : (\E p \in XdpPrefixes(d) : p.country = k /\ Matches(p, a)) <=> Has(d, a, k)
  BY <1>2, XdpPrefixesCover
<1>12. \A k \in Nat : (\E e \in E : e.country = k /\ Matches(e, a)) <=> Has(d, a, k)
  BY <1>8, <1>10, <1>11
<1>13. CASE (\A e \in E : ~Matches(e, a)) /\ LongestMatch(E, a) = NoCountry
  <2>1. c = NoCountry
    BY <1>3, <1>12, <1>13
  <2> QED  BY <1>4, <1>13, <2>1 DEF E, c, d
<1>14. CASE \E e \in E : Matches(e, a) /\ LongestMatch(E, a) = e.country
  <2>1. PICK e \in E : Matches(e, a) /\ LongestMatch(E, a) = e.country
    BY <1>14
  <2>2. e.country \in Nat /\ Has(d, a, e.country)
    BY <1>9, <1>12, <2>1
  <2>3. \E s \in Source : a \in snapshot.truth[s]
    BY <1>2, <2>2
  <2>4. Has(d, a, c)
    BY <1>3, <2>3
  <2>5. e.country = c
    BY <1>2, <2>2, <2>4, HasOne
  <2> QED  BY <1>4, <2>1, <2>5 DEF E, c, d
<1>15. \/ (\A e \in E : ~Matches(e, a)) /\ LongestMatch(E, a) = NoCountry
       \/ \E e \in E : Matches(e, a) /\ LongestMatch(E, a) = e.country
  BY <1>9, LongestMatchIs
<1> QED  BY <1>13, <1>14, <1>15

\* What evaluate_packet comes to.
LEMMA EvaluateIs ==
    ASSUME conf \in Configs, kernel \subseteq KernelEntry, NEW a \in Address
    PROVE  LET g == LongestMatch({e \in kernel : e.map = "geo"}, a) IN
           EvaluatePacket(a) =
             IF \E e \in kernel : e.map = "deny" /\ Matches(e, a) THEN "drop"
             ELSE IF IfCidrs(conf.allowed) # {} /\ ~InCidrs(a, IfCidrs(conf.allowed)) THEN "drop"
             ELSE IF InCidrs(a, IfCidrs(conf.trusted)) \/ ~KernelPolicy.geo THEN "pass"
             ELSE IF g = NoCountry THEN IF conf.unknownAllows THEN "pass" ELSE "drop"
             ELSE IF CountryBit(g) \in {CountryBit(x) : x \in conf.deny}
                       \/ (conf.allow # {} /\ CountryBit(g) \notin {CountryBit(x) : x \in conf.allow})
                  THEN "drop" ELSE "pass"
<1> DEFINE g == LongestMatch({e \in kernel : e.map = "geo"}, a)
           deny == LongestMatch({e \in kernel : e.map = "deny"}, a) # NoCountry
<1>1. deny <=> \E e \in kernel : e.map = "deny" /\ Matches(e, a)
  BY DenyMatches
<1>2. /\ KernelPolicy.unknownAllow = conf.unknownAllows /\ KernelPolicy.hasAllow = (conf.allow # {})
      /\ KernelPolicy.denyBits = {CountryBit(x) : x \in conf.deny}
      /\ KernelPolicy.allowBits = {CountryBit(x) : x \in conf.allow}
      /\ KernelPolicy.allowed = IfCidrs(conf.allowed) /\ KernelPolicy.trusted = IfCidrs(conf.trusted)
  BY DEF KernelPolicy
<1>3. EvaluatePacket(a) =
        IF deny THEN "drop"
        ELSE IF KernelPolicy.allowed # {} /\ ~InCidrs(a, KernelPolicy.allowed) THEN "drop"
        ELSE IF InCidrs(a, KernelPolicy.trusted) \/ ~KernelPolicy.geo THEN "pass"
        ELSE IF g = NoCountry THEN IF KernelPolicy.unknownAllow THEN "pass" ELSE "drop"
        ELSE IF CountryBit(g) \in KernelPolicy.denyBits
                  \/ (KernelPolicy.hasAllow /\ CountryBit(g) \notin KernelPolicy.allowBits)
             THEN "drop" ELSE "pass"
  BY DEF EvaluatePacket
<1> HIDE DEF deny
<1> QED  BY <1>1, <1>2, <1>3

\* The kernel's bits of countries decide as user space does, if it finds the country.
LEMMA CountriesAgree ==
    ASSUME conf \in Configs, SoundList(snapshot, conf.threat), NEW a \in Address,
           kernel \subseteq KernelEntry,
           Solid(KernelPolicy.threat, Entries(snapshot)) \subseteq kernel,
           kernel \subseteq Trie(Entries(snapshot)), KernelPolicy.geo
    PROVE  EvaluatePacket(a) =
             IF \E e \in kernel : e.map = "deny" /\ Matches(e, a) THEN "drop"
             ELSE IF IfCidrs(conf.allowed) # {} /\ ~InCidrs(a, IfCidrs(conf.allowed)) THEN "drop"
             ELSE IF InCidrs(a, IfCidrs(conf.trusted)) THEN "pass" ELSE EvaluateGeoPolicy(a)
<1> DEFINE c == Bisect(snapshot.ranges, a)
           g == LongestMatch({e \in kernel : e.map = "geo"}, a)
           deny == \E e \in kernel : e.map = "deny" /\ Matches(e, a)
<1>1. g = c /\ c \in Source \cup {NoCountry}
  BY GeoMap
<1>2. conf.allow \subseteq Source /\ conf.deny \subseteq Source
  BY ConfigFacts
<1>3. ASSUME NEW C, C \subseteq Source, NEW k \in Source
      PROVE  CountryBit(k) \in {CountryBit(x) : x \in C} <=> k \in C
  BY <1>3, CountryFacts
<1>4. EvaluatePacket(a) =
        IF deny THEN "drop"
        ELSE IF IfCidrs(conf.allowed) # {} /\ ~InCidrs(a, IfCidrs(conf.allowed)) THEN "drop"
        ELSE IF InCidrs(a, IfCidrs(conf.trusted)) \/ ~KernelPolicy.geo THEN "pass"
        ELSE IF g = NoCountry THEN IF conf.unknownAllows THEN "pass" ELSE "drop"
        ELSE IF CountryBit(g) \in {CountryBit(x) : x \in conf.deny}
                  \/ (conf.allow # {} /\ CountryBit(g) \notin {CountryBit(x) : x \in conf.allow})
             THEN "drop" ELSE "pass"
  BY EvaluateIs
<1>5. EvaluateGeoPolicy(a) =
        IF c = NoCountry THEN IF conf.unknownAllows THEN "pass" ELSE "drop"
        ELSE IF c \in conf.deny \/ (conf.allow # {} /\ c \notin conf.allow) THEN "drop" ELSE "pass"
  BY DEF EvaluateGeoPolicy
<1> HIDE DEF c, g, deny
<1>6. ASSUME c # NoCountry
      PROVE  /\ CountryBit(g) \in {CountryBit(x) : x \in conf.deny} <=> c \in conf.deny
             /\ CountryBit(g) \in {CountryBit(x) : x \in conf.allow} <=> c \in conf.allow
  <2>1. g = c /\ c \in Source
    BY <1>1, <1>6
  <2> QED  BY <1>2, <1>3, <2>1
<1>7. EvaluatePacket(a) =
        IF deny THEN "drop"
        ELSE IF IfCidrs(conf.allowed) # {} /\ ~InCidrs(a, IfCidrs(conf.allowed)) THEN "drop"
        ELSE IF InCidrs(a, IfCidrs(conf.trusted)) THEN "pass" ELSE EvaluateGeoPolicy(a)
  BY <1>1, <1>4, <1>5, <1>6
<1> QED  BY <1>7 DEF deny

\* What the kernel drops, user space does, but for trusted addresses.
LEMMA DropsAreRight ==
    ASSUME conf \in Configs, SoundList(snapshot, conf.threat), NEW a \in Address,
           kernel \subseteq KernelEntry,
           Solid(KernelPolicy.threat, Entries(snapshot)) \subseteq kernel,
           kernel \subseteq Trie(Entries(snapshot)), EvaluatePacket(a) = "drop"
    PROVE  CheckPacket(a) = "drop" \/ (InCidrs(a, conf.trusted) /\ (ThreatList \/ ~conf.cidrFilter))
<1>1. /\ conf.cidrFilter \in BOOLEAN
      /\ KernelPolicy.denied = IfCidrs(conf.denied)
      /\ KernelPolicy.threat <=> ThreatList /\ ListSwitch
      /\ KernelPolicy.geo <=> ~ThreatList /\ ListSwitch
  BY ConfigFacts, PolicyIs
<1>2. \A C : InCidrs(a, IfCidrs(C)) <=> conf.cidrFilter /\ InCidrs(a, C)
  BY <1>1 DEF IfCidrs, InCidrs
<1>3. \A C : IfCidrs(C) # {} <=> conf.cidrFilter /\ C # {}
  BY <1>1 DEF IfCidrs
<1>4. CheckPacket(a) = "drop" <=> InCidrs(a, conf.denied) \/ NotAllowed(a) \/ ListDrops(a)
  BY DEF CheckPacket
<1>5. CASE \E e \in kernel : e.map = "deny" /\ Matches(e, a)
  <2>1. InCidrs(a, KernelPolicy.denied) \/ (KernelPolicy.threat /\ Bisect(snapshot.ranges, a) # NoCountry)
    BY <1>5, DenyOnly
  <2>2. CASE InCidrs(a, KernelPolicy.denied)
    BY <1>1, <1>2, <1>4, <2>2
  <2>3. CASE KernelPolicy.threat /\ Bisect(snapshot.ranges, a) # NoCountry
    BY <1>1, <1>4, <2>3 DEF ListDrops, EvaluateThreatPolicy
  <2> QED  BY <2>1, <2>2, <2>3
<1>6. CASE ~\E e \in kernel : e.map = "deny" /\ Matches(e, a)
  <2>1. CASE KernelPolicy.geo
    <3> DEFINE deny == \E e \in kernel : e.map = "deny" /\ Matches(e, a)
    <3>1. EvaluatePacket(a) =
            IF deny THEN "drop"
            ELSE IF IfCidrs(conf.allowed) # {} /\ ~InCidrs(a, IfCidrs(conf.allowed)) THEN "drop"
            ELSE IF InCidrs(a, IfCidrs(conf.trusted)) THEN "pass" ELSE EvaluateGeoPolicy(a)
      BY <2>1, CountriesAgree
    <3>2. ~deny
      BY <1>6
    <3> HIDE DEF deny
    <3>3. \/ IfCidrs(conf.allowed) # {} /\ ~InCidrs(a, IfCidrs(conf.allowed))
          \/ ~InCidrs(a, IfCidrs(conf.trusted)) /\ EvaluateGeoPolicy(a) = "drop"
      BY <3>1, <3>2
    <3>4. NotAllowed(a) \/ (~(conf.cidrFilter /\ InCidrs(a, conf.trusted)) /\ EvaluateGeoPolicy(a) = "drop")
      BY <1>2, <1>3, <3>3 DEF NotAllowed
    <3> QED  BY <1>1, <1>4, <2>1, <3>4 DEF ListDrops
  <2>2. CASE ~KernelPolicy.geo
    <3>1. IfCidrs(conf.allowed) # {} /\ ~InCidrs(a, IfCidrs(conf.allowed))
      BY <1>6, <2>2, EvaluateIs
    <3> QED  BY <1>2, <1>3, <1>4, <3>1 DEF NotAllowed
  <2> QED  BY <2>1, <2>2
<1> QED  BY <1>5, <1>6

\* What user space drops by a filter that the kernel has, the kernel drops.
LEMMA NotAllowedDrops ==
    ASSUME conf \in Configs, kernel \subseteq KernelEntry, NEW a \in Address, conf.cidrFilter, NotAllowed(a)
    PROVE  EvaluatePacket(a) = "drop"
<1>1. IfCidrs(conf.allowed) # {} /\ ~InCidrs(a, IfCidrs(conf.allowed))
  BY DEF NotAllowed, IfCidrs
<1> QED  BY <1>1, EvaluateIs

LEMMA DeniedDrops ==
    ASSUME conf \in Configs, SoundList(snapshot, conf.threat), NEW a \in Address, kernel \subseteq KernelEntry,
           Solid(KernelPolicy.threat, Entries(snapshot)) \subseteq kernel,
           conf.cidrFilter, InCidrs(a, {p \in conf.denied : ~Shared(p)})
    PROVE  EvaluatePacket(a) = "drop"
<1>1. KernelPolicy.denied = conf.denied
  BY PolicyIs DEF IfCidrs
<1>2. \E e \in kernel : e.map = "deny" /\ Matches(e, a)
  BY <1>1, DenyAll
<1> QED  BY <1>2, EvaluateIs

LEMMA ListedDrops ==
    ASSUME conf \in Configs, SoundList(snapshot, conf.threat), NEW a \in Address, kernel \subseteq KernelEntry,
           Solid(KernelPolicy.threat, Entries(snapshot)) \subseteq kernel,
           ThreatList \/ kernel \subseteq Trie(Entries(snapshot)), ListSwitch, ListDrops(a)
    PROVE  EvaluatePacket(a) = "drop"
<1>1. /\ KernelPolicy.threat <=> ThreatList /\ ListSwitch
      /\ KernelPolicy.geo <=> ~ThreatList /\ ListSwitch
  BY PolicyIs
<1>2. CASE ThreatList
  <2>1. KernelPolicy.threat /\ Bisect(snapshot.ranges, a) # NoCountry
    BY <1>1, <1>2 DEF ListDrops, EvaluateThreatPolicy
  <2>2. \E e \in kernel : e.map = "deny" /\ Matches(e, a)
    BY <2>1, DenyAll
  <2> QED  BY <2>2, EvaluateIs
<1>3. CASE ~ThreatList
  <2>1. KernelPolicy.geo /\ EvaluateGeoPolicy(a) = "drop" /\ ~InCidrs(a, conf.trusted)
    BY <1>1, <1>3 DEF ListDrops
  <2>2. ~InCidrs(a, IfCidrs(conf.trusted))
    BY <2>1 DEF IfCidrs, InCidrs
  <2> QED  BY <1>3, <2>1, <2>2, CountriesAgree
<1> QED  BY <1>2, <1>3

-----------------------------------------------------------------------------
(* The inductive invariant *)

Types ==
    /\ conf \in Configs /\ up \in BOOLEAN /\ filter \in {"off", "attaching", "on"}
    /\ refreshes \in 0..MaxRefresh /\ faults \in 0..MaxFaults
    /\ dirty \in BOOLEAN /\ failed \in BOOLEAN /\ fingerprint \in BOOLEAN
    /\ pc \in {"idle", "fetch", "write", "rename", "store"} /\ syncPc \in {"idle", "insert", "delete"}
    /\ fetched \in [Source -> [state : {"todo", "failed", "ok"}, feed : SUBSET Prefix]]
    /\ capacity \in [Map -> 0..MaxEntries]

\* Every list that is kept anywhere is true to its sources, and no refresh to come has
\* built it.
Lists ==
    /\ SoundList(snapshot, conf.threat) /\ snapshot.num \in -1..refreshes
    /\ SoundList(file, conf.threat) /\ file.num \in -1..refreshes
    /\ SoundList(built, conf.threat) /\ built.num \in -1..refreshes

\* What a refresh has built is the newest list, and it is in the file before it is used.
Cached ==
    /\ pc # "idle" => up /\ filter # "attaching"
    /\ pc \in {"write", "rename", "store"} => built.num = refreshes
    /\ pc = "store" => file = built
    /\ up /\ file # Damaged => file.num >= snapshot.num

\* The maps have the keys of the last full sync, but for those that a deletion since has
\* taken along, the plan of the one in progress, and nothing else until a sync fails.
Maps ==
    /\ ~up => filter = "off"
    /\ filter = "off" => syncPc = "idle"
    /\ failed => dirty
    /\ Planned(DeniedEntries, KernelPolicy.threat, keys)
    /\ Planned(DeniedEntries, KernelPolicy.threat, plan)
    /\ syncPc # "idle" => DeniedEntries \subseteq plan
    /\ kernel \subseteq KernelEntry /\ IsFiniteSet(kernel) /\ HasRoom(kernel)
    /\ syncPc = "delete" => Trie(plan) \subseteq kernel
    /\ up /\ fingerprint /\ ~failed /\ syncPc = "idle" => Solid(KernelPolicy.threat, keys) \subseteq kernel
    /\ filter # "off" /\ ~dirty =>
         kernel \subseteq IF syncPc = "delete" THEN Trie(plan) \cup Trie(Stale(keys, plan)) ELSE Trie(keys)

IInv == Types /\ Lists /\ Cached /\ Maps

\* It holds at the start.
LEMMA InitHolds == ASSUME Init PROVE IInv
<1> USE DEF Init
<1>1. conf.threat \in BOOLEAN /\ MaxRefresh \in Nat /\ MaxFaults \in Nat /\ MaxEntries \in Nat
  BY ConfigFacts, ListAssumption
<1>2. Types
  <2>1. fetched \in [Source -> [state : {"todo", "failed", "ok"}, feed : SUBSET Prefix]]
    BY DEF NotYet, Got
  <2>2. capacity \in [Map -> 0..MaxEntries]
    BY <1>1
  <2>3. up \in BOOLEAN /\ dirty \in BOOLEAN /\ failed \in BOOLEAN /\ fingerprint \in BOOLEAN
    OBVIOUS
  <2>4. refreshes \in 0..MaxRefresh /\ faults \in 0..MaxFaults
    BY <1>1
  <2> QED  BY <2>1, <2>2, <2>3, <2>4 DEF Types
<1>3. Lists
  BY <1>1, EmbeddedIsSound DEF Lists
<1>4. Cached
  BY DEF Cached
<1>5. HasRoom(kernel) /\ IsFiniteSet(kernel) /\ IsFiniteSet(plan)
  <2>1. ASSUME NEW m \in Map  PROVE Cardinality({e \in kernel : e.map = m}) <= capacity[m]
    <3>1. {e \in kernel : e.map = m} = {}
      OBVIOUS
    <3> QED  BY <3>1, FS_EmptySet
  <2> QED  BY <2>1, FS_EmptySet DEF HasRoom
<1>6. Maps
  <2>1. \A D, t : Planned(D, t, {})
    BY FS_EmptySet DEF Planned
  <2> QED  BY <1>5, <2>1 DEF Maps
<1> QED  BY <1>2, <1>3, <1>4, <1>6 DEF IInv

\* Sources, feeds and configurations stay as they are.
LEMMA ConfigKept == ASSUME [Next]_vars PROVE conf' = conf
BY DEF Next, vars, Start, Rebuild, BeginRefresh, Build, WriteTemporary, Rename, Store, FetchEnds, BeginSync,
       InsertEntries, InsertFails, DeleteStale, DeleteFails, Crash

\* What Start loads is true.
LEMMA LoadedIsSound ==
    ASSUME Types, Lists
    PROVE  SoundList(LoadCache, conf.threat) /\ LoadCache.num \in -1..refreshes
<1>1. conf.threat \in BOOLEAN
  BY ConfigFacts DEF Types
<1>2. refreshes \in Nat
  BY ListAssumption DEF Types
<1> QED  BY <1>1, <1>2, EmbeddedIsSound DEF Lists, LoadCache

\* What comes of a source are prefixes.
LEMMA OutcomesAre == Outcomes \subseteq [state : {"todo", "failed", "ok"}, feed : SUBSET Prefix]
<1>1. \A f \in Feed : f \subseteq Prefix
  BY ListAssumption
<1>2. \A f \in ReadBefore : f \subseteq Prefix
  BY <1>1 DEF ReadBefore
<1> QED  BY <1>1, <1>2 DEF Outcomes, Got

\* The types hold after every step.
LEMMA TypesKept ==
    ASSUME Types, Lists, [Next]_vars
    PROVE  Types'
<1>0. conf' = conf /\ MaxRefresh \in Nat /\ MaxFaults \in Nat /\ MaxEntries \in Nat
  BY ConfigKept, ListAssumption
<1> DEFINE F == [state : {"todo", "failed", "ok"}, feed : SUBSET Prefix]
<1>1. NotYet \in F /\ Outcomes \subseteq F
  BY OutcomesAre DEF NotYet, Got
<1>2. [s \in Source |-> NotYet] \in [Source -> F]
  BY <1>1
<1>3. GiveUp => fetched' \in [Source -> F] /\ pc' = "idle"
  BY <1>2 DEF GiveUp
<1>4. fetched \in [Source -> F]
  BY DEF Types
<1>5. conf \in ConfigType /\ conf.failOpen \in BOOLEAN
  BY ListAssumption DEF Types, ConfigType
<1> HIDE DEF F
<1>6. CASE Start
  <2>1. capacity' \in [Map -> 0..MaxEntries]
    <3>1. SoundList(LoadCache, conf.threat)
      BY LoadedIsSound
    <3>2. \A m \in Map : DesiredEntries(LoadCache, m) \in 0..MaxEntries
      BY <3>1, DesiredIs DEF Types
    <3>3. CASE CapacityFound(LoadCache)
      <4>1. capacity' = [m \in Map |-> IF m \in Undersized(LoadCache) THEN DesiredEntries(LoadCache, m)
                                                                      ELSE capacity[m]]
        BY <1>6, <3>3 DEF Start
      <4>2. \A m \in Map : capacity[m] \in 0..MaxEntries
        BY DEF Types
      <4> QED  BY <3>2, <4>1, <4>2
    <3>4. CASE ~CapacityFound(LoadCache)
      BY <1>6, <3>4 DEF Start, Types
    <3> QED  BY <3>3, <3>4
  <2>2. up' \in BOOLEAN /\ filter' \in {"off", "attaching", "on"} /\ dirty' \in BOOLEAN /\ syncPc' \in {"idle", "insert", "delete"}
    BY <1>5, <1>6 DEF Start, NoFilter, Types
  <2> QED  BY <1>0, <1>6, <2>1, <2>2 DEF Start, Types
<1>7. CASE Rebuild
  BY <1>0, <1>7 DEF Rebuild, Types, kernelVars
<1>8. CASE BeginRefresh
  BY <1>0, <1>2, <1>8 DEF BeginRefresh, Types, kernelVars, F
<1>9. CASE Build
  <2>1. fetched' \in [Source -> F] /\ pc' \in {"idle", "write"}
    BY <1>3, <1>4, <1>9 DEF Build
  <2> QED  BY <1>9, <2>1 DEF Build, Types, kernelVars, F
<1>10. CASE WriteTemporary
  <2>1. fetched' \in [Source -> F] /\ pc' \in {"idle", "rename"}
    BY <1>3, <1>4, <1>10 DEF WriteTemporary
  <2> QED  BY <1>10, <2>1 DEF WriteTemporary, Types, kernelVars, F
<1>11. CASE Rename
  BY <1>11 DEF Rename, Types, kernelVars
<1>12. CASE Store
  BY <1>3, <1>12 DEF Store, Types, kernelVars, F
<1>13. ASSUME NEW s \in Source, FetchEnds(s)  PROVE Types'
  <2>1. fetched' \in [Source -> F] /\ pc' \in {pc, "idle"}
    BY <1>1, <1>3, <1>4, <1>13 DEF FetchEnds
  <2> QED  BY <1>13, <2>1 DEF FetchEnds, Types, kernelVars, F
<1>14. CASE BeginSync
  BY <1>14 DEF BeginSync, Types, listVars
<1>15. CASE InsertEntries
  BY <1>15 DEF InsertEntries, Types, listVars
<1>16. CASE InsertFails
  <2>1. faults' \in 0..MaxFaults
    BY <1>0, <1>16 DEF InsertFails, Types
  <2>2. up' \in BOOLEAN /\ filter' \in {"off", "attaching", "on"} /\ syncPc' = "idle"
    BY <1>5, <1>16 DEF InsertFails, NoFilter, Types
  <2> QED  BY <1>16, <2>1, <2>2 DEF InsertFails, Types, listVars
<1>17. CASE DeleteStale
  BY <1>17 DEF DeleteStale, Types, listVars
<1>18. CASE DeleteFails
  <2>1. faults' \in 0..MaxFaults
    BY <1>0, <1>18 DEF DeleteFails, Types
  <2> QED  BY <1>18, <2>1 DEF DeleteFails, Types, listVars
<1>19. CASE Crash
  <2>1. fetched' \in [Source -> F] /\ pc' = "idle"
    BY <1>3, <1>19 DEF Crash
  <2>2. faults' \in 0..MaxFaults
    BY <1>0, <1>19 DEF Crash, Types
  <2> QED  BY <1>19, <2>1, <2>2 DEF Crash, Types, F
<1>20. CASE UNCHANGED vars
  BY <1>20 DEF vars, listVars, kernelVars, Types
<1> QED  BY <1>6, <1>7, <1>8, <1>9, <1>10, <1>11, <1>12, <1>13, <1>14, <1>15, <1>16, <1>17, <1>18, <1>19, <1>20 DEF Next

\* Lists stay true: they come from a refresh, from the file or from the program.
LEMMA ListsKept ==
    ASSUME Types, Lists, Cached, [Next]_vars
    PROVE  Lists'
<1>0. conf' = conf /\ conf.threat \in BOOLEAN /\ refreshes \in Nat
  BY ConfigKept, ConfigFacts, ListAssumption DEF Types
<1>1. CASE Start
  BY <1>0, <1>1, LoadedIsSound DEF Start, Lists
<1>2. CASE Rebuild
  <2>1. PICK got \in [Source -> Outcomes] :
          Accepts(got, ListOf(got, refreshes + 1)) /\ file' = ListOf(got, refreshes + 1)
    BY <1>2 DEF Rebuild
  <2>2. \A s \in Source : got[s].feed \subseteq Prefix
    BY OutcomesAre
  <2>3. SoundList(file', conf.threat) /\ file'.num = refreshes + 1
    BY <1>0, <2>1, <2>2, BuildIsSound
  <2>4. refreshes' = refreshes + 1 /\ snapshot' = snapshot /\ built' = built
    BY <1>2 DEF Rebuild
  <2> QED  BY <1>0, <2>3, <2>4 DEF Lists
<1>3. CASE BeginRefresh
  BY <1>0, <1>3 DEF BeginRefresh, Lists
<1>4. CASE Build
  <2> DEFINE l == ListOf(fetched, refreshes)
  <2>1. (built' = l /\ Accepts(fetched, l)) \/ built' = built
    BY <1>4, Zenon DEF Build, GiveUp
  <2>2. \A s \in Source : fetched[s].feed \subseteq Prefix
    BY DEF Types
  <2>3. Accepts(fetched, l) => SoundList(l, conf.threat) /\ l.num = refreshes
    BY <1>0, <2>2, BuildIsSound
  <2>5. snapshot' = snapshot /\ file' = file /\ refreshes' = refreshes
    BY <1>4 DEF Build
  <2> HIDE DEF l
  <2>6. SoundList(built', conf.threat) /\ built'.num \in -1..refreshes
    BY <1>0, <2>1, <2>3 DEF Lists
  <2> QED  BY <1>0, <2>5, <2>6 DEF Lists
<1>5. CASE WriteTemporary
  BY <1>0, <1>5 DEF WriteTemporary, GiveUp, Lists
<1>6. CASE Rename
  BY <1>0, <1>6 DEF Rename, Lists
<1>7. CASE Store
  BY <1>0, <1>7 DEF Store, GiveUp, Lists
<1>8. ASSUME NEW s \in Source, FetchEnds(s)  PROVE Lists'
  BY <1>0, <1>8 DEF FetchEnds, GiveUp, Lists
<1>9. CASE Crash
  BY <1>0, <1>9 DEF Crash, GiveUp, Lists
<1>10. CASE UNCHANGED listVars
  BY <1>0, <1>10 DEF Lists, listVars
<1>11. BeginSync \/ InsertEntries \/ InsertFails \/ DeleteStale \/ DeleteFails \/ UNCHANGED vars => UNCHANGED listVars
  BY DEF BeginSync, InsertEntries, InsertFails, DeleteStale, DeleteFails, vars
<1> QED  BY <1>1, <1>2, <1>3, <1>4, <1>5, <1>6, <1>7, <1>8, <1>9, <1>10, <1>11 DEF Next

\* A list is cached before it is used, whatever interrupts the refresh.
LEMMA CachedKept ==
    ASSUME Types, Lists, Cached, Maps, [Next]_vars
    PROVE  Cached'
<1>0. /\ refreshes \in Nat /\ snapshot.num \in Int /\ file.num \in Int /\ built.num \in Int
      /\ snapshot.num <= refreshes /\ file.num <= refreshes
  BY ListAssumption DEF Types, Lists
<1>1. CASE Start
  <2>1. pc = "idle" /\ pc' = "idle" /\ file' = file
    BY <1>1 DEF Start, Cached
  <2>2. file # Damaged => snapshot' = file
    BY <1>1 DEF Start, LoadCache, Decodes
  <2> QED  BY <1>0, <2>1, <2>2 DEF Cached
<1>2. CASE Rebuild
  BY <1>2 DEF Rebuild, Cached
<1>3. CASE BeginRefresh
  BY <1>0, <1>3 DEF BeginRefresh, RefreshDue, Cached, kernelVars
<1>4. CASE Build
  <2>1. \/ pc' = "write" /\ built'.num = refreshes
        \/ pc' = "idle"
    BY <1>4 DEF Build, GiveUp, ListOf
  <2> QED  BY <1>4, <2>1 DEF Build, Cached, kernelVars
<1>5. CASE WriteTemporary
  BY <1>5 DEF WriteTemporary, GiveUp, Cached, kernelVars
<1>6. CASE Rename
  BY <1>0, <1>6 DEF Rename, Cached, kernelVars
<1>7. CASE Store
  BY <1>0, <1>7 DEF Store, GiveUp, Cached, kernelVars
<1>8. ASSUME NEW s \in Source, FetchEnds(s)  PROVE Cached'
  BY <1>8 DEF FetchEnds, GiveUp, Cached, kernelVars
<1>9. CASE BeginSync \/ InsertEntries \/ DeleteStale \/ DeleteFails
  BY <1>9 DEF BeginSync, InsertEntries, DeleteStale, DeleteFails, Cached, listVars
<1>10. CASE InsertFails
  <2>1. UNCHANGED listVars /\ (up' => up) /\ (pc # "idle" => up' = up /\ filter' = filter)
    <3>1. filter = "attaching" => pc = "idle" /\ up
      BY DEF Cached, Maps
    <3> QED  BY <1>10, <3>1 DEF InsertFails, Cached
  <2> QED  BY <2>1 DEF Cached, listVars
<1>11. CASE Crash
  BY <1>11 DEF Crash, GiveUp, Cached
<1>12. CASE UNCHANGED vars
  BY <1>12 DEF Cached, vars, listVars, kernelVars
<1> QED  BY <1>1, <1>2, <1>3, <1>4, <1>5, <1>6, <1>7, <1>8, <1>9, <1>10, <1>11, <1>12 DEF Next

\* The maps keep what a full sync has put there, and have nothing else until one fails.
LEMMA MapsKept ==
    ASSUME Types, Lists, Cached, Maps, [Next]_vars
    PROVE  Maps'
<1>0. /\ conf' = conf /\ conf \in Configs /\ capacity \in [Map -> Nat]
      /\ \A m \in Map : capacity[m] \in Nat
  <2>1. conf' = conf /\ conf \in Configs /\ capacity \in [Map -> 0..MaxEntries] /\ MaxEntries \in Nat
    BY ConfigKept, ListAssumption DEF Types
  <2> QED  BY <2>1
<1> DEFINE D == DeniedEntries
           t == KernelPolicy.threat
<1>1. /\ Planned(D, t, keys) /\ Planned(D, t, plan) /\ plan \subseteq RawEntry /\ IsFiniteSet(plan)
      /\ kernel \subseteq KernelEntry /\ IsFiniteSet(kernel) /\ HasRoom(kernel)
  BY DEF Maps, Planned
<1>11. D' = D /\ t' = t
  BY <1>0 DEF DeniedEntries, KernelPolicy, IfCidrs, ListSwitch, ThreatList
<1>12. t \in BOOLEAN /\ \A d \in D : d.map = "deny"
  BY <1>0, ConfigFacts DEF DeniedEntries, Entry
<1>13. Planned(D, t, {})
  BY FS_EmptySet DEF Planned
<1> HIDE DEF D, t
<1>14. Maps' <=>
    /\ ~up' => filter' = "off"
    /\ filter' = "off" => syncPc' = "idle"
    /\ failed' => dirty'
    /\ Planned(D, t, keys') /\ Planned(D, t, plan')
    /\ syncPc' # "idle" => D \subseteq plan'
    /\ kernel' \subseteq KernelEntry /\ IsFiniteSet(kernel') /\ HasRoom(kernel)'
    /\ syncPc' = "delete" => Trie(plan') \subseteq kernel'
    /\ up' /\ fingerprint' /\ ~failed' /\ syncPc' = "idle" => Solid(t, keys') \subseteq kernel'
    /\ filter' # "off" /\ ~dirty' =>
         kernel' \subseteq IF syncPc' = "delete" THEN Trie(plan') \cup Trie(Stale(keys', plan')) ELSE Trie(keys')
  BY <1>11 DEF Maps, D, t
<1>15. Maps <=>
    /\ ~up => filter = "off"
    /\ filter = "off" => syncPc = "idle"
    /\ failed => dirty
    /\ Planned(D, t, keys) /\ Planned(D, t, plan)
    /\ syncPc # "idle" => D \subseteq plan
    /\ kernel \subseteq KernelEntry /\ IsFiniteSet(kernel) /\ HasRoom(kernel)
    /\ syncPc = "delete" => Trie(plan) \subseteq kernel
    /\ up /\ fingerprint /\ ~failed /\ syncPc = "idle" => Solid(t, keys) \subseteq kernel
    /\ filter # "off" /\ ~dirty =>
         kernel \subseteq IF syncPc = "delete" THEN Trie(plan) \cup Trie(Stale(keys, plan)) ELSE Trie(keys)
  BY DEF Maps, D, t
<1>2. CASE Start
  <2>1. /\ keys' = {} /\ fingerprint' = FALSE /\ failed' = FALSE /\ plan' = plan /\ syncPc = "idle" /\ syncPc' = "idle"
        /\ ~up' => filter' = "off"
    BY <1>2 DEF Start, NoFilter, Maps
  <2>2. CASE CapacityFound(LoadCache)
    <3> DEFINE small == Undersized(LoadCache)
    <3>1. /\ kernel' = {e \in kernel : e.map \notin small} /\ dirty' = (kernel' # {})
          /\ capacity' = [m \in Map |-> IF m \in small THEN DesiredEntries(LoadCache, m) ELSE capacity[m]]
      BY <1>2, <2>2 DEF Start
    <3>2. \A m \in small : DesiredEntries(LoadCache, m) \in Nat
      <4>1. SoundList(LoadCache, conf.threat) /\ MaxEntries \in Nat
        BY LoadedIsSound, ListAssumption
      <4>2. \A m \in Map : DesiredEntries(LoadCache, m) \in 0..MaxEntries
        BY <1>0, <4>1, DesiredIs
      <4>3. small \subseteq Map
        BY DEF Undersized
      <4> QED  BY <4>1, <4>2, <4>3
    <3> HIDE DEF small
    <3>3. kernel' \subseteq kernel
      BY <3>1
    <3>4. HasRoom(kernel') /\ IsFiniteSet(kernel')
      BY <1>0, <1>1, <3>3, RoomForFewer
    <3>5. ASSUME NEW m \in Map  PROVE Cardinality({e \in kernel' : e.map = m}) <= capacity'[m]
      <4>1. CASE m \in small
        <5>1. {e \in kernel' : e.map = m} = {}
          BY <3>1, <4>1
        <5>2. capacity'[m] \in Nat
          BY <3>1, <3>2, <4>1
        <5> QED  BY <5>1, <5>2, FS_EmptySet
      <4>2. CASE m \notin small
        <5>1. capacity'[m] = capacity[m]
          BY <3>1, <4>2
        <5> QED  BY <3>4, <5>1 DEF HasRoom
      <4> QED  BY <4>1, <4>2
    <3>6. HasRoom(kernel)'
      BY <3>5 DEF HasRoom
    <3>7. ~dirty' => kernel' \subseteq Trie(keys')
      BY <2>1, <3>1
    <3> QED  BY <1>1, <1>13, <1>14, <2>1, <3>3, <3>4, <3>6, <3>7
  <2>3. CASE ~CapacityFound(LoadCache)
    <3>1. kernel' = kernel /\ capacity' = capacity /\ filter' = "off"
      BY <1>2, <2>3 DEF Start, NoFilter
    <3>2. HasRoom(kernel)'
      BY <1>1, <3>1 DEF HasRoom
    <3> QED  BY <1>1, <1>13, <1>14, <2>1, <3>1, <3>2
  <2> QED  BY <2>2, <2>3
<1>3. CASE UNCHANGED kernelVars /\ up' = up
  <2>1. HasRoom(kernel)'
    BY <1>1, <1>3 DEF kernelVars, HasRoom
  <2> QED  BY <1>3, <1>14, <1>15, <2>1 DEF kernelVars
<1>4. CASE BeginSync
  <2>1. Planned(D, t, Entries(snapshot)) /\ D \subseteq Entries(snapshot)
    BY <1>0, EntriesAre DEF Lists, D, t
  <2>2. HasRoom(kernel)'
    BY <1>1, <1>4 DEF BeginSync, HasRoom
  <2> QED  BY <1>4, <1>14, <1>15, <2>1, <2>2 DEF BeginSync
<1>5. CASE InsertEntries
  <2>1. kernel' = Put(kernel, plan) /\ HasRoom(kernel') /\ capacity' = capacity /\ syncPc' = "delete" /\ plan' = plan
    BY <1>5 DEF InsertEntries
  <2>2. HasRoom(kernel)'
    BY <2>1 DEF HasRoom
  <2>3. kernel' \subseteq KernelEntry /\ IsFiniteSet(kernel') /\ Trie(plan) \subseteq kernel'
    BY <1>1, <2>1, PutFacts
  <2>4. D \subseteq plan
    BY <1>5, <1>15 DEF InsertEntries
  <2>5. filter # "off" /\ ~dirty => kernel' \subseteq Trie(plan) \cup Trie(Stale(keys, plan))
    <3>1. filter # "off" /\ ~dirty => kernel \subseteq Trie(keys)
      BY <1>5, <1>15 DEF InsertEntries
    <3>2. kernel \subseteq Trie(keys) => Put(kernel, plan) \subseteq Trie(plan) \cup Trie(Stale(keys, plan))
      BY <1>1, <1>12, <2>4, StaleGoes
    <3> QED  BY <2>1, <3>1, <3>2
  <2> QED  BY <1>5, <1>14, <1>15, <2>1, <2>2, <2>3, <2>4, <2>5 DEF InsertEntries
<1>6. CASE InsertFails
  <2>1. PICK some \in SUBSET plan : HasRoom(Put(kernel, some)) /\ kernel' = Put(kernel, some)
    BY <1>6 DEF InsertFails
  <2>2. some \subseteq RawEntry /\ IsFiniteSet(some)
    BY <1>1, FS_Subset
  <2>3. kernel' \subseteq KernelEntry /\ IsFiniteSet(kernel')
    BY <1>1, <2>1, <2>2, PutFacts
  <2>4. HasRoom(kernel)'
    BY <1>6, <2>1 DEF InsertFails, HasRoom
  <2>5. /\ dirty' = TRUE /\ failed' = TRUE /\ syncPc' = "idle" /\ keys' = keys /\ plan' = plan
        /\ ~up' => filter' = "off"
    BY <1>6 DEF InsertFails, NoFilter, Maps
  <2> QED  BY <1>1, <1>14, <2>3, <2>4, <2>5
<1>7. CASE DeleteStale
  <2> DEFINE gone == Stale(keys, plan)
  <2>1. /\ kernel' = Without(kernel, gone) /\ capacity' = capacity /\ syncPc = "delete" /\ syncPc' = "idle"
        /\ keys' = plan /\ plan' = plan /\ up' = up /\ filter' = "on" /\ dirty' = dirty
    BY <1>7 DEF DeleteStale
  <2>2. kernel' \subseteq kernel
    BY <2>1 DEF Without
  <2>3. HasRoom(kernel') /\ IsFiniteSet(kernel')
    BY <1>0, <1>1, <2>2, RoomForFewer
  <2>4. HasRoom(kernel)'
    BY <2>1, <2>3 DEF HasRoom
  <2>5. up /\ filter # "off" /\ D \subseteq plan /\ Trie(plan) \subseteq kernel /\ (failed' => dirty')
    BY <1>7, <1>15, <2>1 DEF DeleteStale
  <2>6. /\ Trie(plan) \subseteq kernel => Solid(t, plan) \subseteq Without(kernel, gone)
        /\ kernel \subseteq Trie(plan) \cup Trie(gone) => Without(kernel, gone) \subseteq Trie(plan)
    BY <1>1, <1>12, <2>5, StaleGoes
  <2>7. Solid(t, plan) \subseteq kernel'
    BY <2>1, <2>5, <2>6
  <2>8. ~dirty => kernel' \subseteq Trie(plan)
    <3>1. ~dirty => kernel \subseteq Trie(plan) \cup Trie(gone)
      BY <1>15, <2>1, <2>5
    <3> HIDE DEF gone
    <3> QED  BY <2>1, <2>6, <3>1
  <2> HIDE DEF gone
  <2> QED  BY <1>1, <1>14, <2>1, <2>2, <2>3, <2>4, <2>5, <2>7, <2>8
<1>8. CASE DeleteFails
  <2>1. PICK some \in SUBSET Stale(keys, plan) : kernel' = Without(kernel, some)
    BY <1>8 DEF DeleteFails
  <2>2. kernel' \subseteq kernel
    BY <2>1 DEF Without
  <2>3. HasRoom(kernel') /\ IsFiniteSet(kernel')
    BY <1>0, <1>1, <2>2, RoomForFewer
  <2>4. /\ capacity' = capacity /\ dirty' = TRUE /\ failed' = TRUE /\ syncPc' = "idle" /\ keys' = keys /\ plan' = plan
        /\ up' = up /\ filter' = filter
    BY <1>8 DEF DeleteFails
  <2>5. HasRoom(kernel)'
    BY <2>3, <2>4 DEF HasRoom
  <2> QED  BY <1>1, <1>14, <1>15, <2>2, <2>3, <2>4, <2>5
<1>9. CASE Crash
  <2>1. HasRoom(kernel)'
    BY <1>1, <1>9 DEF Crash, HasRoom
  <2> QED  BY <1>9, <1>14, <1>15, <2>1 DEF Crash
<1>10. Rebuild \/ BeginRefresh \/ Build \/ WriteTemporary \/ Rename \/ Store \/ (\E s \in Source : FetchEnds(s)) \/ UNCHANGED vars
         => UNCHANGED kernelVars /\ up' = up
  BY DEF Rebuild, BeginRefresh, Build, WriteTemporary, Rename, Store, FetchEnds, vars
<1> QED  BY <1>2, <1>3, <1>4, <1>5, <1>6, <1>7, <1>8, <1>9, <1>10 DEF Next

\* So it is an invariant.
LEMMA IInvHolds == Spec => []IInv
<1>1. Init => IInv
  BY InitHolds
<1>2. IInv /\ [Next]_vars => IInv'
  BY TypesKept, ListsKept, CachedKept, MapsKept DEF IInv
<1> QED  BY <1>1, <1>2, PTL DEF Spec

-----------------------------------------------------------------------------
(* Theorems *)

\* Types.  Of the algorithms: whatever the sources serve, merged ranges are ranges of
\* addresses; entries of the kernel are aligned and have a country; the size of a map
\* that is made anew is within its limit, which needs the power of two to exist.
THEOREM TypeCorrect == Spec => []TypeOK
<1>1. IInv => TypeOK
  <2> SUFFICES ASSUME IInv  PROVE TypeOK
    OBVIOUS
  <2> USE DEF IInv
  <2>1. /\ \A e \in kernel : Aligned(e.addr, e.prefix)
        /\ \A e \in kernel \cup keys : e.country # NoCountry
    BY DEF Maps, Planned, RawEntry, KernelEntry, NoCountry
  <2>2. ASSUME NEW l \in {snapshot, file, built}
        PROVE  /\ l.num \in -1..refreshes
               /\ \A i \in 1..Len(l.ranges) : l.ranges[i].start \in Address /\ l.ranges[i].end \in Address
    <3>1. SoundList(l, conf.threat) /\ l.num \in -1..refreshes
      BY DEF Lists
    <3>2. l.ranges \in Seq(AddrRange)
      BY <3>1 DEF SoundList
    <3>3. \A r \in AddrRange : r.start \in Address /\ r.end \in Address
      BY DEF AddrRange
    <3> QED  BY <3>1, <3>2, <3>3
  <2>3. {dirty, failed, fingerprint} \subseteq BOOLEAN
    BY DEF Types
  <2>4. \A m \in Map : capacity[m] \in 0..MaxEntries
    BY DEF Types
  <2> QED  BY <2>1, <2>2, <2>3, <2>4 DEF TypeOK, Types
<1> QED  BY <1>1, IInvHolds, PTL

\* What a lookup finds is what was read of the sources, whatever they serve, wherever a
\* line of them does not parse, and however long addresses are: sorting, merging and
\* bisection neither lose an address nor give it to another country.  The list in use is
\* one that was built so, in every state.
THEOREM LookupsAreTrue == Spec => []LookupIsTrue
<1>1. IInv => LookupIsTrue
  <2> SUFFICES ASSUME IInv, NEW a \in Address
               PROVE  LET hits == {CountryOf(s) : s \in {t \in Source : a \in snapshot.truth[t]}} IN
                      IF hits = {} THEN Bisect(snapshot.ranges, a) = NoCountry
                                   ELSE Bisect(snapshot.ranges, a) \in hits
    BY DEF LookupIsTrue
  <2> DEFINE c == Bisect(snapshot.ranges, a)
             hits == {CountryOf(s) : s \in {t \in Source : a \in snapshot.truth[t]}}
  <2>1. conf.threat \in BOOLEAN /\ SoundList(snapshot, conf.threat)
    BY ConfigFacts DEF IInv, Types, Lists
  <2>2. \/ \E s \in Source : Country(s, conf.threat) = c /\ a \in snapshot.truth[s]
        \/ c = NoCountry /\ \A s \in Source : a \notin snapshot.truth[s]
    BY <2>1, LookupFinds
  <2>3. \A s : CountryOf(s) = Country(s, conf.threat)
    BY DEF CountryOf, Country, ThreatList
  <2> HIDE DEF c
  <2>4. IF hits = {} THEN c = NoCountry ELSE c \in hits
    BY <2>2, <2>3
  <2> QED  BY <2>4 DEF c
<1> QED  BY <1>1, IInvHolds, PTL

\* A list in use is in the cache file, or the file has a newer one, through every
\* interruption of a refresh and every restart.
THEOREM ListsAreCached == Spec => []InUseIsCached
<1>1. IInv => InUseIsCached
  BY DEF IInv, Cached, InUseIsCached
<1> QED  BY <1>1, IInvHolds, PTL

\* After a full sync, for every address: the kernel drops only what user space drops,
\* but for trusted addresses, as long as no sync has failed midway and the maps were
\* empty at the start, and it drops all that user space drops by a filter whose switch is
\* on.  Cutting ranges into prefixes, the longest match and the bits of countries give
\* what the bisection of the ranges gives.
THEOREM KernelDecidesAlike == Spec => []KernelAgrees
<1>1. IInv => KernelAgrees
  <2> SUFFICES ASSUME IInv, Quiet, NEW a \in Address
               PROVE  /\ ~dirty /\ EvaluatePacket(a) = "drop" =>
                           CheckPacket(a) = "drop" \/ (InCidrs(a, conf.trusted) /\ (ThreatList \/ ~conf.cidrFilter))
                      /\ ~failed /\ conf.cidrFilter /\ InCidrs(a, {p \in conf.denied : ~Shared(p)})
                           => EvaluatePacket(a) = "drop"
                      /\ conf.cidrFilter /\ NotAllowed(a) => EvaluatePacket(a) = "drop"
                      /\ ~failed /\ (ThreatList \/ ~dirty) /\ ListSwitch /\ ListDrops(a) => EvaluatePacket(a) = "drop"
    BY DEF KernelAgrees
  <2>1. conf \in Configs /\ SoundList(snapshot, conf.threat)
    BY DEF IInv, Types, Lists
  <2>2. /\ kernel \subseteq KernelEntry /\ (failed => dirty)
        /\ ~failed => Solid(KernelPolicy.threat, Entries(snapshot)) \subseteq kernel
        /\ ~dirty => kernel \subseteq Trie(Entries(snapshot))
    BY DEF IInv, Maps, Quiet
  <2>3. ASSUME ~dirty, EvaluatePacket(a) = "drop"
        PROVE  CheckPacket(a) = "drop" \/ (InCidrs(a, conf.trusted) /\ (ThreatList \/ ~conf.cidrFilter))
    BY <2>1, <2>2, <2>3, DropsAreRight
  <2>4. ASSUME ~failed, conf.cidrFilter, InCidrs(a, {p \in conf.denied : ~Shared(p)})
        PROVE  EvaluatePacket(a) = "drop"
    BY <2>1, <2>2, <2>4, DeniedDrops
  <2>5. ASSUME conf.cidrFilter, NotAllowed(a)  PROVE EvaluatePacket(a) = "drop"
    BY <2>1, <2>2, <2>5, NotAllowedDrops
  <2>6. ASSUME ~failed, ThreatList \/ ~dirty, ListSwitch, ListDrops(a)  PROVE EvaluatePacket(a) = "drop"
    BY <2>1, <2>2, <2>6, ListedDrops
  <2> QED  BY <2>3, <2>4, <2>5, <2>6
<1> QED  BY <1>1, IInvHolds, PTL

\* Whatever has failed before it, after a full sync the kernel has every entry of the
\* list and of the configuration, but for configured prefixes with host bits that a
\* threat list may share, within the capacity of its maps.
THEOREM KernelHasEntries == Spec => []KernelCovers
<1>1. IInv => KernelCovers
  <2> SUFFICES ASSUME IInv, Quiet, ~failed
               PROVE  (\A e \in Entries(snapshot) : Shared(e) \/ InTrie(e) \in kernel) /\ HasRoom(kernel)
    BY DEF KernelCovers
  <2>1. Solid(KernelPolicy.threat, Entries(snapshot)) \subseteq kernel /\ HasRoom(kernel)
    BY DEF IInv, Maps, Quiet
  <2> QED  BY <2>1 DEF Solid, Shared
<1> QED  BY <1>1, IInvHolds, PTL
=============================================================================
