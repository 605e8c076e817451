-------------------------- MODULE ContainerProofs --------------------------
(***************************************************************************)
(* Proofs about Permutation and Optional: for permutations of any size and *)
(* any type of index, and for optionals of any elements that may throw.    *)
(* The two share no state.                                                 *)
(***************************************************************************)
EXTENDS Permutation, Optional, FiniteSetTheorems, SequenceTheorems, TLAPS

----------------------------------------------------------------------------
(* rotate_sequence.                                                        *)

\* h is f with k slots from dst on replaced by those of g from src on.
IsCopy(n, h, f, dst, g, src, k) ==
    \A i \in Indexes(n) :
        h[i] = IF dst <= i /\ i < dst + k THEN g[src + (i - dst)] ELSE f[i]

\* What CopyWithin leaves of a sequence.
LEMMA CopyWithinCopies ==
  ASSUME NEW n \in Nat, NEW S, NEW f \in [Indexes(n) -> S], NEW g \in [Indexes(n) -> S],
         NEW dst \in Nat, NEW src \in Nat, NEW k \in Nat, src + k <= n
  PROVE  /\ CopyWithin(f, dst, g, src, k) \in [Indexes(n) -> S]
         /\ IsCopy(n, CopyWithin(f, dst, g, src, k), f, dst, g, src, k)
<1>1. \A i \in Indexes(n) : dst <= i /\ i < dst + k => src + (i - dst) \in Indexes(n)
  BY DEF Indexes
<1>2. QED
  BY <1>1 DEF CopyWithin, IsCopy

LEMMA LeftSmallerRotates ==
  ASSUME NEW n \in Nat, NEW S, NEW f \in [Indexes(n) -> S],
         NEW b \in Nat, NEW m \in Nat, NEW e \in Nat,
         b < m, m < e, e <= n, m - b < e - m
  PROVE  /\ LeftSmaller(f, b, m, e) \in [Indexes(n) -> S]
         /\ IsRotation(f, LeftSmaller(f, b, m, e), b, m, e)
<1> DEFINE l == m - b
           r == e - m
           g == CopyWithin(f, e - l, f, b, l)
           h == CopyWithin(g, b, g, m, r - l)
           k == CopyWithin(h, b + r - l, f, e - l, l)
<1>1. l \in Nat /\ r \in Nat /\ r - l \in Nat /\ e - l \in Nat /\ b + r - l \in Nat
      /\ b + l <= n /\ m + (r - l) <= n /\ (e - l) + l <= n
  OBVIOUS
<1>2. l = m - b /\ r = e - m
  OBVIOUS
<1>3. k = LeftSmaller(f, b, m, e)
  BY DEF LeftSmaller
<1> HIDE DEF l, r, g, h, k
<1>4. g \in [Indexes(n) -> S] /\ IsCopy(n, g, f, e - l, f, b, l)
  BY <1>1, CopyWithinCopies DEF g
<1>5. h \in [Indexes(n) -> S] /\ IsCopy(n, h, g, b, g, m, r - l)
  BY <1>1, <1>4, CopyWithinCopies DEF h
<1>6. k \in [Indexes(n) -> S] /\ IsCopy(n, k, h, b + r - l, f, e - l, l)
  BY <1>1, <1>5, CopyWithinCopies DEF k
<1>7. ASSUME NEW i \in Indexes(n)
      PROVE  k[i] = IF i < b \/ e <= i THEN f[i]
                    ELSE IF i < b + (e - m) THEN f[m + (i - b)] ELSE f[i - (e - m)]
  <2>1. CASE i < b \/ e <= i
    <3>1. g[i] = f[i] /\ h[i] = g[i]
      BY <1>2, <1>4, <1>5, <2>1 DEF Indexes, IsCopy
    <3>2. QED
      BY <1>2, <1>6, <2>1, <3>1 DEF Indexes, IsCopy
  <2>2. CASE b <= i /\ i < b + (r - l)
    <3>1. m + (i - b) \in Indexes(n) /\ m + (i - b) < e - l
      BY <1>2, <2>2 DEF Indexes
    <3>2. h[i] = g[m + (i - b)] /\ g[m + (i - b)] = f[m + (i - b)]
      BY <1>2, <1>4, <1>5, <2>2, <3>1 DEF Indexes, IsCopy
    <3>3. QED
      BY <1>2, <1>6, <2>2, <3>2 DEF Indexes, IsCopy
  <2>3. CASE b + (r - l) <= i /\ i < b + r
    BY <1>2, <1>6, <2>3 DEF Indexes, IsCopy
  <2>4. CASE b + r <= i /\ i < e
    <3>1. g[i] = f[b + (i - (e - l))] /\ h[i] = g[i]
      BY <1>2, <1>4, <1>5, <2>4 DEF Indexes, IsCopy
    <3>2. b + (i - (e - l)) = i - (e - m)
      BY <1>2 DEF Indexes
    <3>3. QED
      BY <1>2, <1>6, <2>4, <3>1, <3>2 DEF Indexes, IsCopy
  <2>5. QED
    BY <1>2, <2>1, <2>2, <2>3, <2>4 DEF Indexes
<1>8. QED
  BY <1>3, <1>6, <1>7 DEF IsRotation

LEMMA RightSmallerRotates ==
  ASSUME NEW n \in Nat, NEW S, NEW f \in [Indexes(n) -> S],
         NEW b \in Nat, NEW m \in Nat, NEW e \in Nat,
         b < m, m < e, e <= n, m - b > e - m
  PROVE  /\ RightSmaller(f, b, m, e) \in [Indexes(n) -> S]
         /\ IsRotation(f, RightSmaller(f, b, m, e), b, m, e)
<1> DEFINE l == m - b
           r == e - m
           g == CopyWithin(f, b, f, m, r)
           h == CopyWithin(g, b + 2 * r, g, b + r, l - r)
           k == CopyWithin(h, b + r, f, b, r)
<1>1. l \in Nat /\ r \in Nat /\ l - r \in Nat /\ b + 2 * r \in Nat /\ b + r \in Nat
      /\ m + r <= n /\ (b + r) + (l - r) <= n /\ b + r <= n
  OBVIOUS
<1>2. l = m - b /\ r = e - m
  OBVIOUS
<1>3. k = RightSmaller(f, b, m, e)
  BY DEF RightSmaller
<1> HIDE DEF l, r, g, h, k
<1>4. g \in [Indexes(n) -> S] /\ IsCopy(n, g, f, b, f, m, r)
  BY <1>1, CopyWithinCopies DEF g
<1>5. h \in [Indexes(n) -> S] /\ IsCopy(n, h, g, b + 2 * r, g, b + r, l - r)
  BY <1>1, <1>4, CopyWithinCopies DEF h
<1>6. k \in [Indexes(n) -> S] /\ IsCopy(n, k, h, b + r, f, b, r)
  BY <1>1, <1>5, CopyWithinCopies DEF k
<1>7. ASSUME NEW i \in Indexes(n)
      PROVE  k[i] = IF i < b \/ e <= i THEN f[i]
                    ELSE IF i < b + (e - m) THEN f[m + (i - b)] ELSE f[i - (e - m)]
  <2>1. CASE i < b \/ e <= i
    <3>1. g[i] = f[i] /\ h[i] = g[i]
      BY <1>2, <1>4, <1>5, <2>1 DEF Indexes, IsCopy
    <3>2. QED
      BY <1>2, <1>6, <2>1, <3>1 DEF Indexes, IsCopy
  <2>2. CASE b <= i /\ i < b + r
    <3>1. g[i] = f[m + (i - b)] /\ h[i] = g[i]
      BY <1>2, <1>4, <1>5, <2>2 DEF Indexes, IsCopy
    <3>2. QED
      BY <1>2, <1>6, <2>2, <3>1 DEF Indexes, IsCopy
  <2>3. CASE b + r <= i /\ i < b + 2 * r
    <3>1. b + (i - (b + r)) = i - (e - m)
      BY <1>2 DEF Indexes
    <3>2. QED
      BY <1>2, <1>6, <2>3, <3>1 DEF Indexes, IsCopy
  <2>4. CASE b + 2 * r <= i /\ i < e
    <3>1. (b + r) + (i - (b + 2 * r)) = i - r /\ i - r \in Indexes(n) /\ b + r <= i - r
      BY <1>2, <2>4 DEF Indexes
    <3>2. h[i] = g[i - r] /\ g[i - r] = f[i - r]
      BY <1>2, <1>4, <1>5, <2>4, <3>1 DEF Indexes, IsCopy
    <3>3. QED
      BY <1>2, <1>6, <2>4, <3>2 DEF Indexes, IsCopy
  <2>5. QED
    BY <1>2, <2>1, <2>2, <2>3, <2>4 DEF Indexes
<1>8. QED
  BY <1>3, <1>6, <1>7 DEF IsRotation

\* rotate_sequence rotates, by each of its ways through temporary memory.
LEMMA SequenceRotates ==
  ASSUME NEW n \in Nat, NEW S, NEW f \in [Indexes(n) -> S],
         NEW b \in Nat, NEW m \in Nat, NEW e \in Nat, b <= m, m <= e, e <= n
  PROVE  /\ rotate_sequence(f, b, m, e) \in [Indexes(n) -> S]
         /\ IsRotation(f, rotate_sequence(f, b, m, e), b, m, e)
<1>1. CASE b = m \/ m = e
  <2>1. rotate_sequence(f, b, m, e) = f
    BY <1>1 DEF rotate_sequence
  <2>2. IsRotation(f, f, b, m, e)
    BY <1>1 DEF IsRotation, Indexes
  <2>3. QED
    BY <2>1, <2>2
<1>2. CASE b # m /\ m # e /\ m - b = e - m
  <2> DEFINE l == m - b
             g == CopyWithin(f, b, f, m, l)
             k == CopyWithin(g, m, f, b, l)
  <2>1. rotate_sequence(f, b, m, e) = k
    BY <1>2 DEF rotate_sequence
  <2>2. l \in Nat /\ l = m - b /\ m + l <= n /\ b + l <= n
    BY <1>2
  <2> HIDE DEF l, g, k
  <2>3. g \in [Indexes(n) -> S] /\ IsCopy(n, g, f, b, f, m, l)
    BY <2>2, CopyWithinCopies DEF g
  <2>4. k \in [Indexes(n) -> S] /\ IsCopy(n, k, g, m, f, b, l)
    BY <2>2, <2>3, CopyWithinCopies DEF k
  <2>5. ASSUME NEW i \in Indexes(n)
        PROVE  k[i] = IF i < b \/ e <= i THEN f[i]
                      ELSE IF i < b + (e - m) THEN f[m + (i - b)] ELSE f[i - (e - m)]
    <3>1. b + (i - m) = i - (e - m)
      BY <1>2 DEF Indexes, IsCopy
    <3>2. QED
      BY <1>2, <2>2, <2>3, <2>4, <3>1 DEF Indexes, IsCopy
  <2>6. QED
    BY <2>1, <2>4, <2>5 DEF IsRotation
<1>3. CASE b # m /\ m # e /\ m - b < e - m
  <2>1. rotate_sequence(f, b, m, e) = LeftSmaller(f, b, m, e)
    BY <1>3 DEF rotate_sequence
  <2>2. QED
    BY <1>3, <2>1, LeftSmallerRotates
<1>4. CASE b # m /\ m # e /\ m - b > e - m
  <2>1. rotate_sequence(f, b, m, e) = RightSmaller(f, b, m, e)
    BY <1>4 DEF rotate_sequence
  <2>2. b < m /\ m < e
    BY <1>4
  <2>3. QED
    <3>1. m - b > e - m /\ e <= n
      BY <1>4
    <3>2. /\ RightSmaller(f, b, m, e) \in [Indexes(n) -> S]
          /\ IsRotation(f, RightSmaller(f, b, m, e), b, m, e)
      BY <2>2, <3>1, RightSmallerRotates, ZenonT(20)
    <3>3. QED
      BY <2>1, <3>2
<1>5. QED
  BY <1>1, <1>2, <1>3, <1>4

----------------------------------------------------------------------------
(* What each operation makes of a permutation.                             *)

LEMMA ExtendedPermutes ==
  ASSUME PermutationAssumption, NEW p, IsPermutation(p), NEW n \in Nat
  PROVE  IsPermutation(Extended(p, n))
<1> DEFINE new == (p.size + n) % Modulus
           q == [size |-> new,
                 f |-> [i \in Indexes(new) |-> IF i < p.size THEN p.f[i] ELSE i],
                 r |-> [i \in Indexes(new) |-> IF i < p.size THEN p.r[i] ELSE i]]
<1>1. CASE new <= p.size
  BY <1>1 DEF Extended
<1>2. CASE ~(new <= p.size)
  <2>1. Extended(p, n) = q
    BY <1>2 DEF Extended
  <2>2. new \in Nat /\ p.size \in Nat /\ p.size < new
    <3>1. p.size + n \in Nat /\ Modulus \in Nat \ {0}
      BY DEF IsPermutation, PermutationAssumption
    <3>2. new \in Nat
      BY <3>1, SMT
    <3>3. QED
      BY <1>2, <3>2 DEF IsPermutation
  <2> HIDE DEF new
  <2>3. /\ q.f \in [Indexes(new) -> Indexes(new)] /\ q.r \in [Indexes(new) -> Indexes(new)]
    BY <2>2 DEF IsPermutation, Indexes
  <2>4. ASSUME NEW i \in Indexes(new) PROVE q.r[q.f[i]] = i /\ q.f[q.r[i]] = i
    BY <2>2 DEF IsPermutation, Indexes
  <2>5. QED
    BY <2>1, <2>2, <2>3, <2>4 DEF IsPermutation
<1>3. QED
  BY <1>1, <1>2

LEMMA IdentityPermutes == IsPermutation(Identity(0))
BY DEF IsPermutation, Identity, Indexes

LEMMA InvertedPermutes ==
  ASSUME NEW p, IsPermutation(p)
  PROVE  IsPermutation(Inverted(p))
BY DEF IsPermutation, Inverted

LEMMA SwappedPermutes ==
  ASSUME NEW p, IsPermutation(p), NEW a \in Indexes(p.size), NEW b \in Indexes(p.size)
  PROVE  IsPermutation(Swapped(p, a, b))
<1> DEFINE I == Indexes(p.size)
           f == [p.f EXCEPT ![a] = p.f[b], ![b] = p.f[a]]
           r == [p.r EXCEPT ![p.f[a]] = b, ![p.f[b]] = a]
<1>1. p.f \in [I -> I] /\ p.r \in [I -> I] /\ \A i \in I : p.r[p.f[i]] = i /\ p.f[p.r[i]] = i
  BY DEF IsPermutation
<1>2. Swapped(p, a, b) = [size |-> p.size, f |-> f, r |-> r]
  BY DEF Swapped
<1> HIDE DEF I
<1>3. f \in [I -> I] /\ r \in [I -> I] /\ a \in I /\ b \in I
  BY <1>1 DEF I
<1>4. /\ \A i \in I : f[i] = IF i = b THEN p.f[a] ELSE IF i = a THEN p.f[b] ELSE p.f[i]
      /\ \A j \in I : r[j] = IF j = p.f[b] THEN a ELSE IF j = p.f[a] THEN b ELSE p.r[j]
  BY <1>1, <1>3
<1> HIDE DEF f, r
<1>5. ASSUME NEW i \in I PROVE r[f[i]] = i /\ f[r[i]] = i
  BY <1>1, <1>3, <1>4
<1>6. QED
  BY <1>2, <1>3, <1>5 DEF IsPermutation, I

\* No two indexes below n are taken to the same one.
OneToOne(n, f) == \A i \in Indexes(n), k \in Indexes(n) : f[i] = f[k] => i = k

IsMapping(n, f) == f \in [Indexes(n) -> Indexes(n)]

\* What a mapping is after the indexes from lo on, below hi, are written back.
IsWrittenBack(w, n, r, f, lo, hi) ==
    /\ w \in [Indexes(n) -> Indexes(n)]
    /\ \A i \in Indexes(n) : lo <= i /\ i < hi => w[f[i]] = i
    /\ \A j \in Indexes(n) : (\A i \in lo..(hi - 1) : f[i] # j) => w[j] = r[j]

\* The loop that writes back does.
LEMMA WrittenBack ==
  ASSUME NEW n \in Nat, NEW f, IsMapping(n, f), NEW r, IsMapping(n, r),
         NEW lo \in Nat, NEW hi \in Nat, hi <= n, OneToOne(n, f)
  PROVE  IsWrittenBack(WriteBack(r, f, lo, hi), n, r, f, lo, hi)
<1> /\ f \in [Indexes(n) -> Indexes(n)] /\ r \in [Indexes(n) -> Indexes(n)]
  BY DEF IsMapping
<1>1. lo..(hi - 1) \subseteq Indexes(n)
  BY DEF Indexes
<1>2. ASSUME NEW j \in Indexes(n), NEW i \in lo..(hi - 1), f[i] = j
      PROVE  (CHOOSE k \in lo..(hi - 1) : f[k] = j) = i
  BY <1>1, <1>2 DEF OneToOne
<1>3. \A j \in Indexes(n) : WriteBack(r, f, lo, hi)[j] =
          IF \E i \in lo..(hi - 1) : f[i] = j
          THEN CHOOSE i \in lo..(hi - 1) : f[i] = j ELSE r[j]
  BY DEF WriteBack
<1>4. WriteBack(r, f, lo, hi) \in [Indexes(n) -> Indexes(n)]
  BY <1>1, <1>2 DEF WriteBack
<1>5. ASSUME NEW i \in Indexes(n), lo <= i, i < hi PROVE WriteBack(r, f, lo, hi)[f[i]] = i
  <2>1. i \in lo..(hi - 1) /\ f[i] \in Indexes(n)
    BY <1>5 DEF Indexes
  <2>2. QED
    BY <1>2, <1>3, <2>1
<1>6. ASSUME NEW j \in Indexes(n), \A i \in lo..(hi - 1) : f[i] # j
      PROVE  WriteBack(r, f, lo, hi)[j] = r[j]
  BY <1>3, <1>6
<1>7. QED
  BY <1>4, <1>5, <1>6 DEF IsWrittenBack

LEMMA RotatedPermutes ==
  ASSUME NEW p, IsPermutation(p), NEW b \in Nat, NEW m \in Nat, NEW e \in Nat,
         b <= m, m <= e, e <= p.size
  PROVE  IsPermutation(Rotated(p, b, m, e))
<1> DEFINE n == p.size
           I == Indexes(n)
           f == rotate_sequence(p.f, b, m, e)
           r == WriteBack(p.r, f, b, e)
           From(i) == IF i < b \/ e <= i THEN i
                      ELSE IF i < b + (e - m) THEN m + (i - b) ELSE i - (e - m)
           To(k) == IF k < b \/ e <= k THEN k
                    ELSE IF k < m THEN k + (e - m) ELSE k - (m - b)
<1>1. /\ n \in Nat /\ p.f \in [I -> I] /\ p.r \in [I -> I]
      /\ \A i \in I : p.r[p.f[i]] = i /\ p.f[p.r[i]] = i
  BY DEF IsPermutation
<1>2. Rotated(p, b, m, e) = [size |-> n, f |-> f, r |-> r]
  BY DEF Rotated
<1>3. /\ \A i \in I : From(i) \in I /\ To(i) \in I /\ From(To(i)) = i /\ To(From(i)) = i
      /\ \A i \in I : b <= i /\ i < e <=> b <= From(i) /\ From(i) < e
      /\ \A i \in I : i < b \/ e <= i => From(i) = i
  BY <1>1 DEF Indexes
<1>4. f \in [I -> I] /\ \A i \in I : f[i] = p.f[From(i)]
  <2>1. f \in [I -> I] /\ IsRotation(p.f, f, b, m, e)
    BY <1>1, SequenceRotates
  <2>2. DOMAIN p.f = I
    BY <1>1
  <2>3. QED
    BY <1>1, <2>1, <2>2 DEF IsRotation
<1> HIDE DEF n, I, f, r, From, To
<1>5. ASSUME NEW i \in I, NEW k \in I, f[i] = f[k] PROVE i = k
  <2>1. From(i) \in I /\ From(k) \in I /\ f[i] = p.f[From(i)] /\ f[k] = p.f[From(k)]
    BY <1>3, <1>4
  <2>2. From(i) = From(k)
    <3>1. p.r[p.f[From(i)]] = From(i) /\ p.r[p.f[From(k)]] = From(k)
      BY <1>1, <2>1
    <3>2. p.f[From(i)] = p.f[From(k)]
      BY <1>5, <2>1
    <3>3. QED
      BY <3>1, <3>2
  <2>3. QED
    BY <1>3, <2>2
<1>6. /\ r \in [I -> I]
      /\ \A i \in I : b <= i /\ i < e => r[f[i]] = i
      /\ \A j \in I : (\A i \in b..(e - 1) : f[i] # j) => r[j] = p.r[j]
  <2>1. OneToOne(n, f)
    BY <1>5 DEF OneToOne, I
  <2>2. IsMapping(n, f) /\ IsMapping(n, p.r)
    BY <1>1, <1>4 DEF I, IsMapping
  <2>3. e <= n
    BY DEF n
  <2>4. QED
    <3>1. IsWrittenBack(r, n, p.r, f, b, e)
      BY <1>1, <2>1, <2>2, <2>3, WrittenBack DEF r
    <3>2. QED
      BY <3>1 DEF I, IsWrittenBack
<1>7. ASSUME NEW i \in I PROVE r[f[i]] = i
  <2>1. CASE b <= i /\ i < e
    BY <1>6, <2>1
  <2>2. CASE ~(b <= i /\ i < e)
    <3>1. i \in Int
      BY <1>1 DEF I, Indexes
    <3>2. f[i] = p.f[i] /\ f[i] \in I
      BY <1>3, <1>4, <2>2, <3>1
    <3>3. \A k \in b..(e - 1) : f[k] # f[i]
      <4>1. \A k \in b..(e - 1) : k \in I /\ k # i
        BY <1>1, <2>2 DEF I, Indexes, n
      <4>2. QED
        BY <1>5, <4>1
    <3>4. QED
      BY <1>1, <1>6, <3>2, <3>3
  <2>3. QED
    BY <2>1, <2>2
<1>8. ASSUME NEW j \in I PROVE f[r[j]] = j
  <2>1. PICK i \in I : f[i] = j
    <3>1. p.r[j] \in I /\ p.f[p.r[j]] = j
      BY <1>1
    <3>2. To(p.r[j]) \in I /\ From(To(p.r[j])) = p.r[j]
      BY <1>3, <3>1
    <3>3. f[To(p.r[j])] = j
      BY <1>4, <3>1, <3>2
    <3>4. QED
      BY <3>2, <3>3
  <2>2. QED
    BY <1>7, <2>1
<1>9. QED
  BY <1>1, <1>2, <1>4, <1>6, <1>7, <1>8 DEF IsPermutation, I, n

LEMMA MultipliedPermutes ==
  ASSUME NEW p, NEW q, IsPermutation(p), IsPermutation(q), p.size = q.size
  PROVE  IsPermutation(Multiplied(p, q))
<1> DEFINE n == p.size
           I == Indexes(n)
           f == [i \in I |-> p.f[q.f[i]]]
           r == WriteBack(p.f, f, 0, n)
<1>1. /\ n \in Nat /\ p.f \in [I -> I] /\ p.r \in [I -> I]
      /\ \A i \in I : p.r[p.f[i]] = i /\ p.f[p.r[i]] = i
  BY DEF IsPermutation
<1>2. /\ q.f \in [I -> I] /\ q.r \in [I -> I]
      /\ \A i \in I : q.r[q.f[i]] = i /\ q.f[q.r[i]] = i
  BY DEF IsPermutation
<1>3. Multiplied(p, q) = [size |-> n, f |-> f, r |-> r]
  BY DEF Multiplied
<1>4. f \in [I -> I] /\ \A i \in I : f[i] = p.f[q.f[i]]
  BY <1>1, <1>2
<1> HIDE DEF n, I, f, r
<1>5. ASSUME NEW i \in I, NEW k \in I, f[i] = f[k] PROVE i = k
  <2>1. q.f[i] \in I /\ q.f[k] \in I /\ f[i] = p.f[q.f[i]] /\ f[k] = p.f[q.f[k]]
    BY <1>2, <1>4
  <2>2. q.f[i] = q.f[k]
    <3>1. p.r[p.f[q.f[i]]] = q.f[i] /\ p.r[p.f[q.f[k]]] = q.f[k]
      BY <1>1, <2>1
    <3>2. p.f[q.f[i]] = p.f[q.f[k]]
      BY <1>5, <2>1
    <3>3. QED
      BY <3>1, <3>2
  <2>3. QED
    BY <1>2, <2>2
<1>6. r \in [I -> I] /\ \A i \in I : 0 <= i /\ i < n => r[f[i]] = i
  <2>1. OneToOne(n, f)
    BY <1>5 DEF OneToOne, I
  <2>2. IsMapping(n, f) /\ IsMapping(n, p.f)
    BY <1>1, <1>4 DEF I, IsMapping
  <2>3. 0 \in Nat /\ n <= n
    BY <1>1
  <2>4. QED
    <3>1. IsWrittenBack(r, n, p.f, f, 0, n)
      BY <1>1, <2>1, <2>2, <2>3, WrittenBack DEF r
    <3>2. QED
      BY <3>1 DEF I, IsWrittenBack
<1>7. ASSUME NEW i \in I PROVE r[f[i]] = i
  BY <1>1, <1>6 DEF I, Indexes
<1>8. ASSUME NEW j \in I PROVE f[r[j]] = j
  <2>1. p.r[j] \in I /\ p.f[p.r[j]] = j
    BY <1>1
  <2>2. q.r[p.r[j]] \in I /\ q.f[q.r[p.r[j]]] = p.r[j]
    BY <1>2, <2>1
  <2>3. f[q.r[p.r[j]]] = j
    BY <1>4, <2>1, <2>2
  <2>4. QED
    BY <1>7, <2>2, <2>3
<1>9. QED
  BY <1>1, <1>3, <1>4, <1>6, <1>7, <1>8 DEF IsPermutation, I

LEMMA RemovedPermutes ==
  ASSUME NEW p, IsPermutation(p), NEW ix \in Indexes(p.size)
  PROVE  IsPermutation(Removed(p, ix))
<1> DEFINE n == p.size
           I == Indexes(n)
           J == Indexes(n - 1)
           v == p.f[ix]
           f == Without(p.f, n, ix, v)
           r == Without(p.r, n, v, ix)
           Up(i, x) == IF i < x THEN i ELSE i + 1
           Down(i, x) == IF x < i THEN i - 1 ELSE i
<1>1. /\ n \in Nat /\ n >= 1 /\ ix \in I /\ v \in I
      /\ p.f \in [I -> I] /\ p.r \in [I -> I] /\ p.r[v] = ix
      /\ \A i \in I : p.r[p.f[i]] = i /\ p.f[p.r[i]] = i
  BY DEF IsPermutation, Indexes
<1>2. Removed(p, ix) = [size |-> n - 1, f |-> f, r |-> r]
  BY DEF Removed
<1>3. /\ \A i \in J, x \in I : Up(i, x) \in I \ {x} /\ Down(Up(i, x), x) = i
      /\ \A x \in I : \A i \in I \ {x} : Down(i, x) \in J /\ Up(Down(i, x), x) = i
  BY <1>1 DEF Indexes
<1>4. /\ \A i \in J : f[i] = Down(p.f[Up(i, ix)], v)
      /\ \A j \in J : r[j] = Down(p.r[Up(j, v)], ix)
      /\ f = [i \in J |-> f[i]] /\ r = [j \in J |-> r[j]]
  BY DEF Without
<1> HIDE DEF n, I, J, v, f, r, Up, Down
<1>5. /\ \A k \in I \ {ix} : p.f[k] \in I \ {v}
      /\ \A k \in I \ {v} : p.r[k] \in I \ {ix}
  BY <1>1 DEF v
<1>6. f \in [J -> J] /\ r \in [J -> J]
  BY <1>1, <1>3, <1>4, <1>5
<1>7. ASSUME NEW i \in J PROVE r[f[i]] = i
  <2> DEFINE k == Up(i, ix)
  <2>1. k \in I \ {ix} /\ Down(k, ix) = i
    BY <1>1, <1>3
  <2> HIDE DEF k
  <2>2. f[i] = Down(p.f[k], v) /\ p.f[k] \in I \ {v}
    BY <1>4, <1>5, <2>1 DEF k
  <2>3. f[i] \in J /\ Up(f[i], v) = p.f[k]
    BY <1>1, <1>3, <2>2
  <2>4. r[f[i]] = Down(p.r[p.f[k]], ix)
    BY <1>4, <2>3
  <2>5. QED
    BY <1>1, <2>1, <2>4
<1>8. ASSUME NEW j \in J PROVE f[r[j]] = j
  <2> DEFINE k == Up(j, v)
  <2>1. k \in I \ {v} /\ Down(k, v) = j
    BY <1>1, <1>3
  <2> HIDE DEF k
  <2>2. r[j] = Down(p.r[k], ix) /\ p.r[k] \in I \ {ix}
    BY <1>4, <1>5, <2>1 DEF k
  <2>3. r[j] \in J /\ Up(r[j], ix) = p.r[k]
    BY <1>1, <1>3, <2>2
  <2>4. f[r[j]] = Down(p.f[p.r[k]], v)
    BY <1>4, <2>3
  <2>5. QED
    BY <1>1, <2>1, <2>4
<1>9. n - 1 \in Nat
  BY <1>1
<1>10. QED
  BY <1>2, <1>6, <1>7, <1>8, <1>9 DEF IsPermutation, J

----------------------------------------------------------------------------
(* Theorems.                                                               *)

\* The permutations that no exception has torn are permutations.
PermInv == DOMAIN perm = Perms /\ MutuallyInverse

\* Every operation leaves the permutations as they were, or makes x one, or tears it.
LEMMA OneChanges ==
  ASSUME PermInv, NEW x \in Perms, NEW q, perm' = [perm EXCEPT ![x] = q],
         torn' \in {torn, torn \ {x}, torn \cup {x}},
         x \notin torn' => IsPermutation(q)
  PROVE  PermInv'
<1>1. DOMAIN perm' = Perms /\ perm'[x] = q /\ \A y \in Perms \ {x} : perm'[y] = perm[y]
  BY DEF PermInv
<1>2. ASSUME NEW y \in Perms \ torn' PROVE IsPermutation(perm'[y])
  BY <1>1, <1>2 DEF PermInv, MutuallyInverse
<1>3. QED
  BY <1>1, <1>2 DEF PermInv, MutuallyInverse

LEMMA PermStep ==
  ASSUME PermutationAssumption, PermInv, [PermNext]_permVars
  PROVE  PermInv'
<1> DEFINE Good(x) == IsPermutation(perm[x])
<1>1. \A x \in Perms : Whole(x) => Good(x)
  BY DEF PermInv, MutuallyInverse, Whole
<1>2. ASSUME NEW x \in Perms, NEW n \in Nat, reset(x, n) PROVE PermInv'
  <2>1. IsPermutation(Extended(Identity(0), n))
    BY IdentityPermutes, ExtendedPermutes
  <2>2. perm' = [perm EXCEPT ![x] = Extended(Identity(0), n)] /\ torn' = torn \ {x}
    BY <1>2 DEF reset
  <2>3. QED
    BY <2>1, <2>2, OneChanges
<1>3. ASSUME NEW x \in Perms, ResetThrows(x) \/ set_identity(x) PROVE PermInv'
  <2>1. CASE ResetThrows(x)
    BY <1>2, <2>1 DEF ResetThrows
  <2>2. CASE set_identity(x)
    <3>1. perm[x].size \in Nat
      BY <1>1, <2>2 DEF set_identity, IsPermutation
    <3>2. QED
      BY <1>2, <2>2, <3>1 DEF set_identity
  <2>3. QED
    BY <1>3, <2>1, <2>2
<1>4. ASSUME NEW x \in Perms, invert(x) PROVE PermInv'
  BY <1>1, <1>4, InvertedPermutes, OneChanges DEF invert, Become
<1>5. ASSUME NEW x \in Perms, NEW n \in 0..(Modulus - 1), extend(x, n) PROVE PermInv'
  <2>1. n \in Nat
    BY DEF PermutationAssumption
  <2>2. /\ perm' = [perm EXCEPT ![x] = Extended(perm[x], n)] /\ torn' = torn
        /\ Good(x)
    BY <1>1, <1>5 DEF extend, Become
  <2>3. IsPermutation(Extended(perm[x], n))
    BY <2>1, <2>2, ExtendedPermutes
  <2>4. QED
    BY <2>2, <2>3, OneChanges
<1>6. ASSUME NEW x \in Perms, NEW a, NEW b, swap_two(x, a, b) PROVE PermInv'
  BY <1>1, <1>6, SwappedPermutes, OneChanges DEF swap_two, Become
<1>7. ASSUME NEW x \in Perms, NEW b \in Nat, NEW m \in Nat, NEW e \in Nat, rotate(x, b, m, e)
      PROVE  PermInv'
  BY <1>1, <1>7, RotatedPermutes, OneChanges DEF rotate, Become
<1>8. ASSUME NEW x \in Perms, NEW ix \in Indexes(MaxIndex), remove(x, ix) PROVE PermInv'
  <2>1. ix \in Indexes(perm[x].size)
    <3>1. ix < perm[x].size /\ perm[x].size \in Nat
      BY <1>1, <1>8 DEF remove, IsPermutation
    <3>2. ix \in Nat
      BY DEF Indexes, PermutationAssumption
    <3>3. QED
      BY <3>1, <3>2 DEF Indexes
  <2>2. QED
    BY <1>1, <1>8, <2>1, RemovedPermutes, OneChanges DEF remove, Become
<1>9. ASSUME NEW x \in Perms, NEW y \in Perms, Multiply(x, y) PROVE PermInv'
  BY <1>1, <1>9, MultipliedPermutes, OneChanges DEF Multiply, Become
<1>10. ASSUME NEW x \in Perms, NEW y \in Perms, AssignPerm(x, y) PROVE PermInv'
  BY <1>1, <1>10, OneChanges DEF AssignPerm
<1>11. ASSUME NEW x \in Perms, NEW y \in Perms, AssignThrows(x, y) PROVE PermInv'
  BY <1>11, OneChanges DEF AssignThrows
<1>12. ASSUME NEW x \in Perms, NEW y \in Perms, Move(x, y) PROVE PermInv'
  <2>1. /\ DOMAIN perm' = Perms
        /\ perm'[x] = perm[y] /\ perm'[y] = Identity(0)
        /\ \A z \in Perms \ {x, y} : perm'[z] = perm[z]
        /\ torn' = torn \ {x}
    BY <1>12 DEF Move, PermInv
  <2>2. Good(y)
    BY <1>1, <1>12 DEF Move
  <2>3. \A z \in Perms \ torn' : IsPermutation(perm'[z])
    BY <2>1, <2>2, IdentityPermutes DEF PermInv, MutuallyInverse
  <2>4. QED
    BY <2>1, <2>3 DEF PermInv, MutuallyInverse
<1>13. ASSUME NEW x \in Perms, NEW y \in Perms, SwapPerms(x, y) PROVE PermInv'
  <2>1. /\ DOMAIN perm' = Perms
        /\ perm'[x] = perm[y] /\ perm'[y] = perm[x]
        /\ \A z \in Perms \ {x, y} : perm'[z] = perm[z]
        /\ torn' = torn
    BY <1>13 DEF SwapPerms, PermInv
  <2>2. Good(x) /\ Good(y)
    BY <1>1, <1>13 DEF SwapPerms
  <2>3. \A z \in Perms \ torn' : IsPermutation(perm'[z])
    BY <2>1, <2>2 DEF PermInv, MutuallyInverse
  <2>4. QED
    BY <2>1, <2>3 DEF PermInv, MutuallyInverse
<1>14. CASE UNCHANGED permVars
  BY <1>14 DEF permVars, PermInv, MutuallyInverse
<1>15. 0..MaxIndex \subseteq Nat
  BY DEF PermutationAssumption
<1>16. QED
  BY <1>2, <1>3, <1>4, <1>5, <1>6, <1>7, <1>8, <1>9, <1>10, <1>11, <1>12, <1>13, <1>14, <1>15
     DEF PermNext

\* The forward mapping of every permutation is a permutation and the reverse one its inverse,
\* for every size and every type of index, unless an exception tore it (index_permutation).
THEOREM MutuallyInverseHolds ==
  ASSUME PermutationAssumption
  PROVE  PermSpec => []MutuallyInverse
<1>1. PermInit => PermInv
  BY IdentityPermutes DEF PermInit, PermInv, MutuallyInverse
<1>2. PermInv /\ [PermNext]_permVars => PermInv'
  BY PermStep
<1>3. PermInv => MutuallyInverse
  BY DEF PermInv
<1>4. QED
  BY <1>1, <1>2, <1>3, PTL DEF PermSpec

\* rotate_sequence, on the mapping of every permutation and for all its arguments, puts what
\* was mapped by m at b (rotate_sequence.hxx, rotate_sequence_vector.hxx).
THEOREM RotateRotatesHolds ==
  ASSUME PermutationAssumption
  PROVE  PermSpec => []RotateRotates
<1>1. MutuallyInverse => RotateRotates
  <2>1. SUFFICES ASSUME MutuallyInverse, NEW x \in Perms \ torn,
                        NEW b \in 0..perm[x].size, NEW m \in 0..perm[x].size,
                        NEW e \in 0..perm[x].size, b <= m, m <= e
                 PROVE  IsRotation(perm[x].f, rotate_sequence(perm[x].f, b, m, e), b, m, e)
    BY DEF RotateRotates
  <2>2. /\ perm[x].size \in Nat
        /\ perm[x].f \in [Indexes(perm[x].size) -> Indexes(perm[x].size)]
    BY <2>1 DEF MutuallyInverse, IsPermutation
  <2>3. b \in Nat /\ m \in Nat /\ e \in Nat /\ e <= perm[x].size
    BY <2>2
  <2>4. QED
    BY <2>1, <2>2, <2>3, SequenceRotates
<1>2. QED
  BY <1>1, MutuallyInverseHolds, PTL

----------------------------------------------------------------------------
(* The sizes of permutations.                                              *)

SizeFits(q) == "size" \in DOMAIN q /\ q.size \in 0..MaxIndex

PermTyped == DOMAIN perm = Perms /\ torn \subseteq Perms /\ \A x \in Perms : SizeFits(perm[x])

\* Extending by as many as fit adds them, and by so many that the sum wraps around adds none.
LEMMA ExtendedIsSized ==
  ASSUME PermutationAssumption, NEW q, SizeFits(q), NEW n \in 0..(Modulus - 1),
         q.size + n <= MaxIndex \/ q.size + n >= Modulus
  PROVE  SizeFits(Extended(q, n))
<1>1. PICK s \in Nat : s = q.size /\ s <= MaxIndex
  BY DEF SizeFits, PermutationAssumption
<1>2. MaxIndex \in Nat /\ Modulus \in Nat \ {0} /\ MaxIndex < Modulus /\ n \in Nat /\ n < Modulus
  BY DEF PermutationAssumption
<1>3. CASE s + n <= MaxIndex
  <2>1. (s + n) % Modulus = s + n
    BY <1>2, <1>3
  <2>2. Extended(q, n).size \in {s, s + n} /\ "size" \in DOMAIN Extended(q, n)
    BY <1>1, <2>1 DEF Extended, SizeFits
  <2>3. QED
    BY <1>1, <1>2, <1>3, <2>2 DEF SizeFits
<1>4. CASE s + n >= Modulus
  <2>1. PICK k \in Nat : s + n = Modulus + k /\ k < s
    <3>1. s + n - Modulus \in Nat /\ s + n - Modulus < s
      BY <1>1, <1>2, <1>4
    <3>2. s + n = Modulus + (s + n - Modulus)
      BY <1>1, <1>2
    <3>3. QED
      BY <3>1, <3>2
  <2>2. (s + n) % Modulus = k
    <3>1. k < Modulus /\ (Modulus + k) % Modulus = k
      BY <1>1, <1>2, <2>1
    <3>2. QED
      BY <2>1, <3>1
  <2>3. Extended(q, n) = q
    BY <1>1, <2>1, <2>2 DEF Extended
  <2>4. QED
    BY <2>3
<1>5. QED
  BY <1>1, <1>3, <1>4

LEMMA OneIsSized ==
  ASSUME PermTyped, NEW x \in Perms, NEW q, SizeFits(q), perm' = [perm EXCEPT ![x] = q],
         torn' \in {torn, torn \ {x}, torn \cup {x}}
  PROVE  PermTyped'
<1>1. DOMAIN perm' = Perms /\ perm'[x] = q /\ \A y \in Perms \ {x} : perm'[y] = perm[y]
  BY DEF PermTyped
<1>2. QED
  BY <1>1 DEF PermTyped, SizeFits

LEMMA PermTypedInit == ASSUME PermutationAssumption, PermInit PROVE PermTyped
<1>1. SizeFits(Identity(0))
  BY DEF SizeFits, Identity, PermutationAssumption
<1>2. QED
  BY <1>1 DEF PermInit, PermTyped

LEMMA PermTypedNext ==
  ASSUME PermutationAssumption, PermTyped, [PermNext]_permVars
  PROVE  PermTyped'
<1>0. (\A x \in Perms : SizeFits(perm[x])) /\ MaxIndex \in Nat /\ SizeFits(Identity(0))
  BY DEF PermTyped, SizeFits, Identity, PermutationAssumption
<1>1. ASSUME NEW x \in Perms, NEW n \in 0..MaxIndex, reset(x, n) PROVE PermTyped'
  <2>1. n \in 0..(Modulus - 1) /\ Identity(0).size + n <= MaxIndex
    BY DEF PermutationAssumption, Identity
  <2>2. SizeFits(Extended(Identity(0), n))
    BY <1>0, <2>1, ExtendedIsSized
  <2>3. QED
    BY <1>1, <2>2, OneIsSized DEF reset
<1>2. ASSUME NEW x \in Perms, ResetThrows(x) \/ set_identity(x) PROVE PermTyped'
  BY <1>0, <1>1, <1>2 DEF ResetThrows, set_identity, SizeFits
<1>3. ASSUME NEW x \in Perms, NEW n \in 0..(Modulus - 1), extend(x, n) PROVE PermTyped'
  BY <1>0, <1>3, ExtendedIsSized, OneIsSized DEF extend, Become
<1>4. ASSUME NEW x \in Perms, NEW q, "size" \in DOMAIN q, q.size = perm[x].size, Become(x, q)
      PROVE  PermTyped'
  BY <1>0, <1>4, OneIsSized DEF Become, SizeFits
<1>5. ASSUME NEW x \in Perms, invert(x) PROVE PermTyped'
  BY <1>4, <1>5 DEF invert, Inverted
<1>6. ASSUME NEW x \in Perms, NEW a, NEW b, swap_two(x, a, b) PROVE PermTyped'
  BY <1>4, <1>6 DEF swap_two, Swapped
<1>7. ASSUME NEW x \in Perms, NEW b, NEW m, NEW e, rotate(x, b, m, e) PROVE PermTyped'
  BY <1>4, <1>7 DEF rotate, Rotated
<1>8. ASSUME NEW x \in Perms, NEW i \in Indexes(MaxIndex), remove(x, i) PROVE PermTyped'
  <2>1. SizeFits(Removed(perm[x], i))
    BY <1>0, <1>8 DEF remove, Removed, SizeFits, Indexes
  <2>2. QED
    BY <1>8, <2>1, OneIsSized DEF remove, Become
<1>9. ASSUME NEW x \in Perms, NEW y \in Perms, Multiply(x, y) PROVE PermTyped'
  BY <1>4, <1>9 DEF Multiply, Multiplied
<1>10. ASSUME NEW x \in Perms, NEW y \in Perms, AssignPerm(x, y) PROVE PermTyped'
  BY <1>0, <1>10, OneIsSized DEF AssignPerm
<1>11. ASSUME NEW x \in Perms, NEW y \in Perms, AssignThrows(x, y) PROVE PermTyped'
  <2>1. PICK q : SizeFits(q) /\ perm' = [perm EXCEPT ![x] = q]
    <3>1. CASE perm' = [perm EXCEPT ![x] = [perm[y] EXCEPT !.r = Identity(0).r]]
      <4>1. /\ DOMAIN [perm[y] EXCEPT !.r = Identity(0).r] = DOMAIN perm[y]
            /\ [perm[y] EXCEPT !.r = Identity(0).r].size = perm[y].size
        BY <1>0 DEF SizeFits
      <4>2. QED
        BY <1>0, <3>1, <4>1 DEF SizeFits
    <3>2. CASE perm' = [perm EXCEPT ![x] = [Identity(0) EXCEPT !.r = perm[x].r]]
      <4>1. /\ DOMAIN [Identity(0) EXCEPT !.r = perm[x].r] = DOMAIN Identity(0)
            /\ [Identity(0) EXCEPT !.r = perm[x].r].size = 0
        BY DEF Identity
      <4>2. QED
        BY <1>0, <3>2, <4>1 DEF SizeFits
    <3>3. QED
      BY <1>11, <3>1, <3>2 DEF AssignThrows
  <2>2. QED
    BY <1>11, <2>1, OneIsSized DEF AssignThrows
<1>12. ASSUME NEW x \in Perms, NEW y \in Perms, Move(x, y) \/ SwapPerms(x, y) PROVE PermTyped'
  <2>1. /\ DOMAIN perm' = Perms /\ torn' \subseteq Perms
        /\ \A z \in Perms : SizeFits(perm'[z])
    BY <1>0, <1>12 DEF Move, SwapPerms, PermTyped
  <2>2. QED
    BY <2>1 DEF PermTyped, SizeFits
<1>13. CASE UNCHANGED permVars
  BY <1>13 DEF permVars, PermTyped
<1>14. QED
  BY <1>1, <1>2, <1>3, <1>5, <1>6, <1>7, <1>8, <1>9, <1>10, <1>11, <1>12, <1>13
     DEF PermNext

\* However often the sizes of permutations wrap around, none ever has more indexes than its
\* index type can tell (permutation.hxx).
LEMMA PermIsTyped == ASSUME PermutationAssumption PROVE PermSpec => []PermTypeOK
<1>1. PermTyped => PermTypeOK
  BY DEF PermTyped, PermTypeOK, SizeFits
<1>2. QED
  BY <1>1, PermTypedInit, PermTypedNext, PTL DEF PermSpec

----------------------------------------------------------------------------
(* Optional.                                                               *)

Full(x) == [has |-> TRUE, slot |-> x]

\* What all optionals are, between any two steps.
Cells == {None} \cup {Full(x) : x \in Held}
States == [Places -> Cells]

Steps == [do : {"new", "set", "drop"}, to : Places, from : Places \cup Values, moves : BOOLEAN]

\* What a step makes of the optionals s.
SourceIn(step, s) == IF step.from \in Places THEN s[step.from].slot ELSE step.from

After(step, s) ==
    [p \in Places |->
        IF p = step.to THEN IF step.do = "drop" THEN None ELSE Full(SourceIn(step, s))
        ELSE IF p = step.from
             THEN [s[p] EXCEPT !.slot = IF step.moves /\ @ # Raw THEN Moved ELSE @]
        ELSE s[p]]

\* It finds elements where it needs them and room where it constructs one.
Fine(step, s) ==
    /\ step.do = "new" => SourceIn(step, s) # Raw /\ s[step.to].slot = Raw
    /\ step.do = "set" => SourceIn(step, s) # Raw /\ s[step.to].slot # Raw
    /\ step.do = "drop" => (s[step.to].has => s[step.to].slot # Raw)

\* What a call, a, may leave behind when it fails, and when it ends; m is what is meant.
FailsWell(s, a, m) ==
    /\ \A p \in Opts \ a.on : s[p].slot = m[p]
    /\ a.op = "copy" /\ a.had => \A p \in a.on : s[p].has
    /\ a.op = "move" =>
          Cardinality({p \in a.on : s[p].has}) = Cardinality({p \in a.on : m[p] # Raw})

Ends(s, a, m, failed) ==
    /\ s[Tmp] = None /\ s[Third] = None
    /\ IF failed THEN FailsWell(s, a, m) ELSE \A p \in Opts : s[p].slot = m[p]

\* The steps of list, one after the other, go well from s to the end, and an exception does no harm
\* in any of them.
Path(list, path, s, a, m, failed) ==
    /\ Len(path) = Len(list) + 1 /\ path[1] = s
    /\ \A i \in 1..Len(list) : /\ path[i + 1] = After(list[i], path[i])
                               /\ Fine(list[i], path[i])
                               /\ list[i].do # "drop" => FailsWell(path[i], a, m)
    /\ Ends(path[Len(path)], a, m, failed)

GoesWell(list, s, a, m, failed) ==
    list \in Seq(Steps) /\ \E path \in Seq(States) : Path(list, path, s, a, m, failed)

LEMMA NothingGoesWell ==
    ASSUME NEW s \in States, NEW a, NEW m, NEW f, Ends(s, a, m, f)
    PROVE  GoesWell(<<>>, s, a, m, f)
  <1>1. <<s>> \in Seq(States) /\ Len(<<s>>) = 1 /\ <<s>>[1] = s
    OBVIOUS
  <1>2. Path(<<>>, <<s>>, s, a, m, f)
    BY <1>1 DEF Path
  <1>3. <<>> \in Seq(Steps)
    OBVIOUS
  <1> QED
    BY <1>1, <1>2, <1>3 DEF GoesWell

LEMMA NothingHasGoneWell ==
    ASSUME NEW s, NEW a, NEW m, NEW f, GoesWell(<<>>, s, a, m, f)
    PROVE  Ends(s, a, m, f)
  BY DEF GoesWell, Path

LEMMA StepGoesWell ==
    ASSUME NEW list \in Seq(Steps), NEW step \in Steps, NEW rest \in Seq(Steps),
           list # <<>>, Head(list) = step, Tail(list) = rest,
           NEW s \in States, NEW t, t = After(step, s), NEW a, NEW m, NEW f,
           Fine(step, s), step.do # "drop" => FailsWell(s, a, m), GoesWell(rest, t, a, m, f)
    PROVE  GoesWell(list, s, a, m, f)
  <1>1. PICK path \in Seq(States) : Path(rest, path, t, a, m, f)
    BY DEF GoesWell
  <1> DEFINE whole == <<s>> \o path
  <1>2. Len(list) = Len(rest) + 1 /\ list[1] = step /\ \A i \in 1..Len(rest) : list[i + 1] = rest[i]
    OBVIOUS
  <1>3. /\ whole \in Seq(States) /\ Len(whole) = Len(path) + 1
        /\ whole[1] = s /\ \A i \in 1..Len(path) : whole[i + 1] = path[i]
    OBVIOUS
  <1>4. Len(path) = Len(rest) + 1 /\ path[1] = t /\ Len(rest) \in Nat
    BY <1>1 DEF Path
  <1> HIDE DEF whole
  <1>5. ASSUME NEW i \in 1..Len(list)
        PROVE  /\ whole[i + 1] = After(list[i], whole[i])
               /\ Fine(list[i], whole[i])
               /\ list[i].do # "drop" => FailsWell(whole[i], a, m)
    <2>1. CASE i = 1
      <3>1. whole[2] = t /\ whole[1] = s /\ list[1] = step
        BY <1>2, <1>3, <1>4
      <3> QED
        BY <2>1, <3>1
    <2>2. CASE i # 1
      <3>1. PICK j \in 1..Len(rest) : i = j + 1
        BY <1>2, <1>4, <2>2
      <3>2. list[i] = rest[j] /\ whole[i] = path[j] /\ whole[i + 1] = path[j + 1]
        BY <1>2, <1>3, <1>4, <3>1
      <3>3. /\ path[j + 1] = After(rest[j], path[j])
            /\ Fine(rest[j], path[j])
            /\ rest[j].do # "drop" => FailsWell(path[j], a, m)
        BY <1>1 DEF Path
      <3> QED
        BY <3>2, <3>3
    <2> QED
      BY <2>1, <2>2
  <1>6. Ends(whole[Len(whole)], a, m, f)
    <2>1. whole[Len(whole)] = path[Len(path)]
      BY <1>3, <1>4
    <2> QED
      BY <1>1, <2>1 DEF Path
  <1>7. Len(whole) = Len(list) + 1
    BY <1>2, <1>3, <1>4
  <1> QED
    BY <1>3, <1>5, <1>6, <1>7 DEF GoesWell, Path

LEMMA StepHasGoneWell ==
    ASSUME NEW list \in Seq(Steps), list # <<>>, NEW s, NEW a, NEW m, NEW f, GoesWell(list, s, a, m, f)
    PROVE  /\ After(Head(list), s) \in States /\ Fine(Head(list), s)
           /\ Head(list).do # "drop" => FailsWell(s, a, m)
           /\ GoesWell(Tail(list), After(Head(list), s), a, m, f)
  <1>1. PICK path \in Seq(States) : Path(list, path, s, a, m, f)
    BY DEF GoesWell
  <1>2. /\ Len(list) \in Nat \ {0} /\ Len(Tail(list)) = Len(list) - 1 /\ Head(list) = list[1]
        /\ \A i \in 1..Len(Tail(list)) : Tail(list)[i] = list[i + 1]
    OBVIOUS
  <1>3. Len(path) = Len(list) + 1 /\ path[1] = s
    BY <1>1 DEF Path
  <1>4. path[2] = After(list[1], s) /\ Fine(list[1], s) /\ (list[1].do # "drop" => FailsWell(s, a, m))
    <2>1. 1 \in 1..Len(list) /\ 1 + 1 = 2
      BY <1>2
    <2> QED
      BY <1>1, <1>3, <2>1 DEF Path
  <1> DEFINE less == Tail(path)
  <1>5. /\ less \in Seq(States) /\ Len(less) = Len(path) - 1
        /\ \A i \in 1..Len(less) : less[i] = path[i + 1]
    BY <1>2, <1>3
  <1> HIDE DEF less
  <1>6. Path(Tail(list), less, path[2], a, m, f)
    <2>1. Len(less) = Len(Tail(list)) + 1 /\ less[1] = path[2]
      BY <1>2, <1>3, <1>5
    <2>2. less[Len(less)] = path[Len(path)]
      BY <1>2, <1>3, <1>5
    <2>3. ASSUME NEW i \in 1..Len(Tail(list))
          PROVE  /\ less[i + 1] = After(Tail(list)[i], less[i])
                 /\ Fine(Tail(list)[i], less[i])
                 /\ Tail(list)[i].do # "drop" => FailsWell(less[i], a, m)
      <3>1. PICK j \in 1..Len(list) : j = i + 1
        BY <1>2
      <3>2. Tail(list)[i] = list[j] /\ less[i] = path[j] /\ less[i + 1] = path[j + 1]
        BY <1>2, <1>3, <1>5, <3>1
      <3>3. /\ path[j + 1] = After(list[j], path[j])
            /\ Fine(list[j], path[j])
            /\ list[j].do # "drop" => FailsWell(path[j], a, m)
        BY <1>1 DEF Path
      <3> QED
        BY <3>2, <3>3
    <2> QED
      BY <1>1, <2>1, <2>2, <2>3 DEF Path
  <1>7. path[2] \in States
    BY <1>2, <1>3
  <1> QED
    BY <1>2, <1>4, <1>5, <1>6, <1>7 DEF GoesWell


----------------------------------------------------------------------------
(* What each kind of step does.                                            *)

LEMMA NamesDiffer ==
    ASSUME OptionalAssumption
    PROVE  /\ Tmp \in Places /\ Third \in Places /\ Tmp # Third
           /\ \A p \in Opts : p \in Places /\ p # Tmp /\ p # Third
           /\ \A val \in Values : val \notin Places /\ val \in Held
           /\ Moved \in Held /\ Raw \notin Held
  BY ElementsAssumption DEF OptionalAssumption, Places, Held

LEMMA CellsAre ==
    /\ None \in Cells /\ ~None.has /\ None.slot = Raw
    /\ \A x \in Held : Full(x) \in Cells /\ Full(x).has /\ Full(x).slot = x
    /\ \A cell \in Cells : cell = None \/ \E x \in Held : cell = Full(x)
  BY DEF Cells, None, Full

LEMMA HasTells ==
    ASSUME OptionalAssumption, NEW s \in States, NEW p \in Places
    PROVE  /\ s[p].has <=> s[p].slot # Raw
           /\ s[p].has => s[p].slot \in Held /\ s[p] = Full(s[p].slot)
           /\ ~s[p].has => s[p] = None
  <1>1. s[p] \in Cells
    BY DEF States
  <1>2. CASE s[p] = None
    BY <1>2, CellsAre
  <1>3. ASSUME NEW x \in Held, s[p] = Full(x) PROVE s[p].has /\ s[p].slot = x /\ x # Raw
    BY <1>3, CellsAre, NamesDiffer
  <1> QED
    BY <1>1, <1>2, <1>3, CellsAre

LEMMA DropDoes ==
    ASSUME OptionalAssumption, NEW s \in States, NEW o \in Places
    PROVE  LET t == After(Drop(o), s) IN
           /\ Drop(o) \in Steps /\ Drop(o).do = "drop" /\ Fine(Drop(o), s)
           /\ t \in States /\ t[o] = None /\ \A p \in Places : p # o => t[p] = s[p]
  <1> DEFINE t == After(Drop(o), s)
  <1>1. Drop(o) \in Steps /\ Drop(o).do = "drop" /\ Drop(o).to = o /\ Drop(o).from = o
    BY DEF Drop, Steps
  <1>2. Fine(Drop(o), s)
    BY <1>1, HasTells DEF Fine
  <1>3. t[o] = None /\ \A p \in Places : p # o => t[p] = s[p]
    BY <1>1 DEF After
  <1>4. t \in States
    <2>1. \A p \in Places : t[p] \in Cells
      BY <1>3, CellsAre DEF States
    <2> QED
      BY <2>1 DEF States, After
  <1> QED
    BY <1>1, <1>2, <1>3, <1>4

\* A value is constructed.
LEMMA NewValueDoes ==
    ASSUME OptionalAssumption, NEW s \in States, NEW o \in Places, s[o] = None, NEW val \in Values
    PROVE  LET t == After(New(o, val), s) IN
           /\ New(o, val) \in Steps /\ Fine(New(o, val), s)
           /\ t \in States /\ t[o] = Full(val) /\ \A p \in Places : p # o => t[p] = s[p]
  <1> DEFINE step == New(o, val)
             t == After(step, s)
  <1>1. step \in Steps /\ step.do = "new" /\ step.to = o /\ step.from = val
    BY DEF New, Steps
  <1>2. val \notin Places /\ val \in Held /\ val # Raw
    BY NamesDiffer
  <1>3. SourceIn(step, s) = val
    BY <1>1, <1>2 DEF SourceIn
  <1>4. Fine(step, s)
    BY <1>1, <1>2, <1>3, CellsAre DEF Fine
  <1>5. t[o] = Full(val) /\ \A p \in Places : p # o => t[p] = s[p]
    BY <1>1, <1>2, <1>3 DEF After
  <1>6. t \in States
    <2>1. \A p \in Places : t[p] \in Cells
      BY <1>2, <1>5, CellsAre DEF States
    <2> QED
      BY <2>1 DEF States, After
  <1> QED
    BY <1>1, <1>4, <1>5, <1>6

\* An element is copied.
LEMMA NewDoes ==
    ASSUME OptionalAssumption, NEW s \in States, NEW o \in Places, NEW q \in Places, s[o] = None, s[q].has
    PROVE  LET t == After(New(o, q), s) IN
           /\ New(o, q) \in Steps /\ Fine(New(o, q), s)
           /\ t \in States /\ t[o] = s[q] /\ \A p \in Places : p # o => t[p] = s[p]
  <1> DEFINE step == New(o, q)
             t == After(step, s)
  <1>1. step \in Steps /\ step.do = "new" /\ step.to = o /\ step.from = q /\ step.moves = FALSE
    BY DEF New, Steps
  <1>2. PICK x \in Held : s[q] = Full(x) /\ s[q].slot = x /\ x # Raw
    BY HasTells, NamesDiffer
  <1>3. SourceIn(step, s) = x
    BY <1>1, <1>2 DEF SourceIn
  <1>4. Fine(step, s)
    BY <1>1, <1>2, <1>3, CellsAre DEF Fine
  <1>5. t[o] = Full(x)
    BY <1>1, <1>3 DEF After
  <1>6. \A p \in Places : p # o => t[p] = s[p]
    <2>1. \A p \in Places : p # o /\ p # q => t[p] = s[p]
      BY <1>1 DEF After
    <2>2. q # o => t[q] = [s[q] EXCEPT !.slot = x]
      BY <1>1, <1>2 DEF After
    <2>3. [s[q] EXCEPT !.slot = x] = s[q]
      BY <1>2 DEF Full
    <2> QED
      BY <2>1, <2>2, <2>3
  <1>7. t \in States
    <2>1. \A p \in Places : t[p] \in Cells
      BY <1>5, <1>6, CellsAre DEF States
    <2> QED
      BY <2>1 DEF States, After
  <1> QED
    BY <1>1, <1>2, <1>4, <1>5, <1>6, <1>7

\* An element is moved, into room or into another element.
LEMMA MoveDoes ==
    ASSUME OptionalAssumption, NEW s \in States, NEW o \in Places, NEW q \in Places, o # q, s[q].has,
           NEW step, (step = NewMoved(o, q) /\ s[o] = None) \/ (step = Set(o, q) /\ s[o].has)
    PROVE  LET t == After(step, s) IN
           /\ step \in Steps /\ Fine(step, s)
           /\ t \in States /\ t[o] = s[q] /\ t[q] = Full(Moved)
           /\ \A p \in Places : p # o /\ p # q => t[p] = s[p]
  <1> DEFINE t == After(step, s)
  <1>1. step \in Steps /\ step.do \in {"new", "set"} /\ step.to = o /\ step.from = q /\ step.moves = TRUE
    <2>1. CASE step = NewMoved(o, q)
      BY <2>1 DEF NewMoved, Steps
    <2>2. CASE step = Set(o, q)
      BY <2>2 DEF Set, Steps
    <2> QED
      BY <2>1, <2>2
  <1>2. PICK x \in Held : s[q] = Full(x) /\ s[q].slot = x /\ x # Raw
    BY HasTells, NamesDiffer
  <1>3. SourceIn(step, s) = x
    BY <1>1, <1>2 DEF SourceIn
  <1>4. Fine(step, s)
    <2>1. CASE step = NewMoved(o, q) /\ s[o] = None
      BY <1>2, <1>3, <2>1, CellsAre DEF Fine, NewMoved
    <2>2. CASE step = Set(o, q) /\ s[o].has
      BY <1>2, <1>3, <2>2, HasTells DEF Fine, Set
    <2> QED
      BY <2>1, <2>2
  <1>5. t[o] = Full(x) /\ \A p \in Places : p # o /\ p # q => t[p] = s[p]
    BY <1>1, <1>3 DEF After
  <1>6. t[q] = Full(Moved)
    <2>1. t[q] = [s[q] EXCEPT !.slot = Moved]
      BY <1>1, <1>2 DEF After
    <2> QED
      BY <1>2, <2>1 DEF Full
  <1>7. t \in States
    <2>1. \A p \in Places : t[p] \in Cells
      BY <1>5, <1>6, CellsAre, NamesDiffer DEF States
    <2> QED
      BY <2>1 DEF States, After
  <1> QED
    BY <1>1, <1>2, <1>4, <1>5, <1>6, <1>7

LEMMA NewMovedDoes ==
    ASSUME OptionalAssumption, NEW s \in States, NEW o \in Places, NEW q \in Places, o # q,
           s[q].has, s[o] = None
    PROVE  LET t == After(NewMoved(o, q), s) IN
           /\ NewMoved(o, q) \in Steps /\ Fine(NewMoved(o, q), s)
           /\ t \in States /\ t[o] = s[q] /\ t[q] = Full(Moved)
           /\ \A p \in Places : p # o /\ p # q => t[p] = s[p]
  BY MoveDoes

LEMMA SetDoes ==
    ASSUME OptionalAssumption, NEW s \in States, NEW o \in Places, NEW q \in Places, o # q,
           s[q].has, s[o].has
    PROVE  LET t == After(Set(o, q), s) IN
           /\ Set(o, q) \in Steps /\ Fine(Set(o, q), s)
           /\ t \in States /\ t[o] = s[q] /\ t[q] = Full(Moved)
           /\ \A p \in Places : p # o /\ p # q => t[p] = s[p]
  BY MoveDoes


----------------------------------------------------------------------------
(* Lists of steps.                                                         *)

\* What goes well after a step goes well with it.
LEMMA OneGoesWell ==
    ASSUME NEW k1 \in Steps,
           NEW s \in States, NEW t, t = After(k1, s), NEW a, NEW m, NEW f,
           Fine(k1, s), k1.do = "drop" \/ FailsWell(s, a, m), GoesWell(<<>>, t, a, m, f)
    PROVE  GoesWell(<<k1>>, s, a, m, f)
  <1>1. /\ <<k1>> \in Seq(Steps) /\ <<>> \in Seq(Steps)
        /\ <<k1>> # <<>> /\ Head(<<k1>>) = k1 /\ Tail(<<k1>>) = <<>>
    OBVIOUS
  <1> QED
    BY <1>1, StepGoesWell

LEMMA TwoGoesWell ==
    ASSUME NEW k1 \in Steps, NEW k2 \in Steps,
           NEW s \in States, NEW t, t = After(k1, s), NEW a, NEW m, NEW f,
           Fine(k1, s), k1.do = "drop" \/ FailsWell(s, a, m), GoesWell(<<k2>>, t, a, m, f)
    PROVE  GoesWell(<<k1, k2>>, s, a, m, f)
  <1>1. /\ <<k1, k2>> \in Seq(Steps) /\ <<k2>> \in Seq(Steps)
        /\ <<k1, k2>> # <<>> /\ Head(<<k1, k2>>) = k1 /\ Tail(<<k1, k2>>) = <<k2>>
    OBVIOUS
  <1> QED
    BY <1>1, StepGoesWell

LEMMA ThreeGoesWell ==
    ASSUME NEW k1 \in Steps, NEW k2 \in Steps, NEW k3 \in Steps,
           NEW s \in States, NEW t, t = After(k1, s), NEW a, NEW m, NEW f,
           Fine(k1, s), k1.do = "drop" \/ FailsWell(s, a, m), GoesWell(<<k2, k3>>, t, a, m, f)
    PROVE  GoesWell(<<k1, k2, k3>>, s, a, m, f)
  <1>1. /\ <<k1, k2, k3>> \in Seq(Steps) /\ <<k2, k3>> \in Seq(Steps)
        /\ <<k1, k2, k3>> # <<>> /\ Head(<<k1, k2, k3>>) = k1 /\ Tail(<<k1, k2, k3>>) = <<k2, k3>>
    OBVIOUS
  <1> QED
    BY <1>1, StepGoesWell

LEMMA FourGoesWell ==
    ASSUME NEW k1 \in Steps, NEW k2 \in Steps, NEW k3 \in Steps, NEW k4 \in Steps,
           NEW s \in States, NEW t, t = After(k1, s), NEW a, NEW m, NEW f,
           Fine(k1, s), k1.do = "drop" \/ FailsWell(s, a, m), GoesWell(<<k2, k3, k4>>, t, a, m, f)
    PROVE  GoesWell(<<k1, k2, k3, k4>>, s, a, m, f)
  <1>1. /\ <<k1, k2, k3, k4>> \in Seq(Steps) /\ <<k2, k3, k4>> \in Seq(Steps)
        /\ <<k1, k2, k3, k4>> # <<>> /\ Head(<<k1, k2, k3, k4>>) = k1
        /\ Tail(<<k1, k2, k3, k4>>) = <<k2, k3, k4>>
    OBVIOUS
  <1> QED
    BY <1>1, StepGoesWell

LEMMA FiveGoesWell ==
    ASSUME NEW k1 \in Steps, NEW k2 \in Steps, NEW k3 \in Steps, NEW k4 \in Steps,
           NEW k5 \in Steps,
           NEW s \in States, NEW t, t = After(k1, s), NEW a, NEW m, NEW f,
           Fine(k1, s), k1.do = "drop" \/ FailsWell(s, a, m), GoesWell(<<k2, k3, k4, k5>>, t, a, m, f)
    PROVE  GoesWell(<<k1, k2, k3, k4, k5>>, s, a, m, f)
  <1>1. /\ <<k1, k2, k3, k4, k5>> \in Seq(Steps) /\ <<k2, k3, k4, k5>> \in Seq(Steps)
        /\ <<k1, k2, k3, k4, k5>> # <<>> /\ Head(<<k1, k2, k3, k4, k5>>) = k1
        /\ Tail(<<k1, k2, k3, k4, k5>>) = <<k2, k3, k4, k5>>
    OBVIOUS
  <1> QED
    BY <1>1, StepGoesWell

LEMMA SixGoesWell ==
    ASSUME NEW k1 \in Steps, NEW k2 \in Steps, NEW k3 \in Steps, NEW k4 \in Steps,
           NEW k5 \in Steps, NEW k6 \in Steps,
           NEW s \in States, NEW t, t = After(k1, s), NEW a, NEW m, NEW f,
           Fine(k1, s), k1.do = "drop" \/ FailsWell(s, a, m), GoesWell(<<k2, k3, k4, k5, k6>>, t, a, m, f)
    PROVE  GoesWell(<<k1, k2, k3, k4, k5, k6>>, s, a, m, f)
  <1>1. /\ <<k1, k2, k3, k4, k5, k6>> \in Seq(Steps) /\ <<k2, k3, k4, k5, k6>> \in Seq(Steps)
        /\ <<k1, k2, k3, k4, k5, k6>> # <<>> /\ Head(<<k1, k2, k3, k4, k5, k6>>) = k1
        /\ Tail(<<k1, k2, k3, k4, k5, k6>>) = <<k2, k3, k4, k5, k6>>
    OBVIOUS
  <1> QED
    BY <1>1, StepGoesWell


----------------------------------------------------------------------------
(* What calls do, exceptions or not.                                       *)

\* Between calls.
Tidy(s) == s[Tmp] = None /\ s[Third] = None

\* A call that is neither a copy nor a move may fail wherever it has touched nothing else.
LEMMA AssignMayFail ==
    ASSUME NEW s, NEW a, NEW m, a.op = "assign", \A p \in Opts \ a.on : s[p].slot = m[p]
    PROVE  FailsWell(s, a, m)
  BY DEF FailsWell

\* A copy may fail as long as the target holds an element, if it held one.
LEMMA CopyMayFail ==
    ASSUME NEW s, NEW a, NEW m, a.op = "copy", \A p \in Opts \ a.on : s[p].slot = m[p],
           a.had => \A p \in a.on : s[p].has
    PROVE  FailsWell(s, a, m)
  BY DEF FailsWell

\* reset()
LEMMA DroppingGoesWell ==
    ASSUME OptionalAssumption, NEW s \in States, Tidy(s), NEW a, NEW m, NEW o \in Opts,
           a.op = "assign", a.on = {o}, m[o] = Raw, \A p \in Opts : p # o => m[p] = s[p].slot
    PROVE  GoesWell(<<Drop(o)>>, s, a, m, FALSE)
  <1>1. /\ Tmp \in Places /\ Third \in Places /\ o \in Places
        /\ Tmp # Third /\ o # Tmp /\ o # Third
        /\ \A p \in Opts : p \in Places /\ p # Tmp /\ p # Third
        /\ Full(Moved).has
    BY NamesDiffer, CellsAre
  <1>2. s[Tmp] = None /\ s[Third] = None
    BY <1>1, HasTells DEF Tidy
  <1>3. PICK t \in States : /\ t = After(Drop(o), s) /\ Drop(o) \in Steps /\ Fine(Drop(o), s)
                            /\ Drop(o).do = "drop"
                            /\ t[o] = None
                            /\ \A p \in Places : p # o => t[p] = s[p]
    BY <1>1, <1>2, DropDoes
  <1>4. /\ t[o] = None /\ t[Tmp] = None /\ t[Third] = None
        /\ \A p \in Opts : p # o => t[p] = s[p]
    BY <1>1, <1>2, <1>3
  <1>5. GoesWell(<<>>, t, a, m, FALSE)
    <2>1. Ends(t, a, m, FALSE)
      BY <1>2, <1>4, CellsAre DEF Ends
    <2> QED
      BY <2>1, NothingGoesWell
  <1> QED
    BY <1>3, <1>5, OneGoesWell

\* Assigning a value.
LEMMA ValueGoesWell ==
    ASSUME OptionalAssumption, NEW s \in States, Tidy(s), NEW a, NEW m, NEW o \in Opts,
           NEW val \in Values, a.op = "assign", a.on = {o}, m[o] = val,
           \A p \in Opts : p # o => m[p] = s[p].slot
    PROVE  GoesWell(<<Drop(o), New(o, val)>>, s, a, m, FALSE)
  <1>1. /\ Tmp \in Places /\ Third \in Places /\ o \in Places
        /\ Tmp # Third /\ o # Tmp /\ o # Third
        /\ \A p \in Opts : p \in Places /\ p # Tmp /\ p # Third
        /\ Full(Moved).has
    BY NamesDiffer, CellsAre
  <1>2. s[Tmp] = None /\ s[Third] = None
    BY <1>1, HasTells DEF Tidy
  <1>3. PICK t \in States : /\ t = After(Drop(o), s) /\ Drop(o) \in Steps /\ Fine(Drop(o), s)
                            /\ Drop(o).do = "drop"
                            /\ t[o] = None
                            /\ \A p \in Places : p # o => t[p] = s[p]
    BY <1>1, <1>2, DropDoes
  <1>4. /\ t[o] = None /\ t[Tmp] = None /\ t[Third] = None
        /\ \A p \in Opts : p # o => t[p] = s[p]
    BY <1>1, <1>2, <1>3
  <1>5. PICK u \in States : /\ u = After(New(o, val), t) /\ New(o, val) \in Steps /\ Fine(New(o, val), t)
                            /\ u[o] = Full(val)
                            /\ \A p \in Places : p # o => u[p] = t[p]
    BY <1>1, <1>4, NewValueDoes
  <1>6. /\ u[o] = Full(val) /\ u[Tmp] = None /\ u[Third] = None
        /\ \A p \in Opts : p # o => u[p] = s[p]
    BY <1>1, <1>4, <1>5
  <1>7. FailsWell(t, a, m)
    BY <1>4, AssignMayFail
  <1>8. GoesWell(<<>>, u, a, m, FALSE)
    <2>1. Ends(u, a, m, FALSE)
      BY <1>2, <1>6, CellsAre, NamesDiffer DEF Ends
    <2> QED
      BY <2>1, NothingGoesWell
  <1>9. GoesWell(<<New(o, val)>>, t, a, m, FALSE)
    BY <1>5, <1>7, <1>8, OneGoesWell
  <1> QED
    BY <1>3, <1>5, <1>9, TwoGoesWell

\* Assigning the element of another optional.
LEMMA ElementGoesWell ==
    ASSUME OptionalAssumption, NEW s \in States, Tidy(s), NEW a, NEW m, NEW o \in Opts,
           NEW q \in Opts, o # q, s[q].has,
           a.op = "assign", a.on = {o}, m[o] = s[q].slot, \A p \in Opts : p # o => m[p] = s[p].slot
    PROVE  GoesWell(<<Drop(o), New(o, q)>>, s, a, m, FALSE)
  <1>1. /\ Tmp \in Places /\ Third \in Places /\ o \in Places /\ q \in Places
        /\ Tmp # Third /\ o # Tmp /\ o # Third /\ q # Tmp /\ q # Third
        /\ \A p \in Opts : p \in Places /\ p # Tmp /\ p # Third
        /\ Full(Moved).has
    BY NamesDiffer, CellsAre
  <1>2. s[Tmp] = None /\ s[Third] = None
    BY <1>1, HasTells DEF Tidy
  <1>3. PICK t \in States : /\ t = After(Drop(o), s) /\ Drop(o) \in Steps /\ Fine(Drop(o), s)
                            /\ Drop(o).do = "drop"
                            /\ t[o] = None
                            /\ \A p \in Places : p # o => t[p] = s[p]
    BY <1>1, <1>2, DropDoes
  <1>4. /\ t[o] = None /\ t[q] = s[q] /\ t[Tmp] = None /\ t[Third] = None
        /\ \A p \in Opts : p # o => t[p] = s[p]
    BY <1>1, <1>2, <1>3
  <1>5. PICK u \in States : /\ u = After(New(o, q), t) /\ New(o, q) \in Steps /\ Fine(New(o, q), t)
                            /\ u[o] = t[q]
                            /\ \A p \in Places : p # o => u[p] = t[p]
    BY <1>1, <1>4, NewDoes
  <1>6. /\ u[o] = s[q] /\ u[Tmp] = None /\ u[Third] = None
        /\ \A p \in Opts : p # o => u[p] = s[p]
    BY <1>1, <1>4, <1>5
  <1>7. FailsWell(t, a, m)
    BY <1>4, AssignMayFail
  <1>8. GoesWell(<<>>, u, a, m, FALSE)
    <2>1. Ends(u, a, m, FALSE)
      BY <1>2, <1>6, CellsAre DEF Ends
    <2> QED
      BY <2>1, NothingGoesWell
  <1>9. GoesWell(<<New(o, q)>>, t, a, m, FALSE)
    BY <1>5, <1>7, <1>8, OneGoesWell
  <1> QED
    BY <1>3, <1>5, <1>9, TwoGoesWell

\* Copying an optional.
LEMMA CopyBothGoesWell ==
    ASSUME OptionalAssumption, NEW s \in States, Tidy(s), NEW a, NEW m, NEW o \in Opts,
           NEW q \in Opts, o # q,
           s[o].has, s[q].has,
           a.op = "copy", a.on = {o}, a.had = s[o].has, m[o] = s[q].slot,
           \A p \in Opts : p # o => m[p] = s[p].slot
    PROVE  GoesWell(<<New(Tmp, q), NewMoved(Third, o), Set(o, Tmp), Set(Tmp, Third), Drop(Third),
                      Drop(Tmp)>>,
                    s, a, m, FALSE)
  <1>1. /\ Tmp \in Places /\ Third \in Places /\ o \in Places /\ q \in Places
        /\ Tmp # Third /\ o # Tmp /\ o # Third /\ q # Tmp /\ q # Third
        /\ \A p \in Opts : p \in Places /\ p # Tmp /\ p # Third
        /\ Full(Moved).has
    BY NamesDiffer, CellsAre
  <1>2. s[Tmp] = None /\ s[Third] = None
    BY <1>1, HasTells DEF Tidy
  <1>3. PICK t \in States : /\ t = After(New(Tmp, q), s) /\ New(Tmp, q) \in Steps /\ Fine(New(Tmp, q), s)
                            /\ t[Tmp] = s[q]
                            /\ \A p \in Places : p # Tmp => t[p] = s[p]
    BY <1>1, <1>2, NewDoes
  <1>4. /\ t[Tmp] = s[q] /\ t[o] = s[o] /\ t[o].has /\ t[Tmp].has /\ t[Third] = None
        /\ \A p \in Opts : p # o => t[p] = s[p]
    BY <1>1, <1>2, <1>3
  <1>5. PICK u \in States : /\ u = After(NewMoved(Third, o), t) /\ NewMoved(Third, o) \in Steps
                            /\ Fine(NewMoved(Third, o), t)
                            /\ u[Third] = t[o] /\ u[o] = Full(Moved)
                            /\ \A p \in Places : p # Third /\ p # o => u[p] = t[p]
    BY <1>1, <1>4, NewMovedDoes
  <1>6. /\ u[Tmp] = s[q] /\ u[Third] = s[o] /\ u[o].has /\ u[Tmp].has /\ u[Third].has
        /\ \A p \in Opts : p # o => u[p] = s[p]
    BY <1>1, <1>4, <1>5
  <1>7. PICK v \in States : /\ v = After(Set(o, Tmp), u) /\ Set(o, Tmp) \in Steps /\ Fine(Set(o, Tmp), u)
                            /\ v[o] = u[Tmp] /\ v[Tmp] = Full(Moved)
                            /\ \A p \in Places : p # o /\ p # Tmp => v[p] = u[p]
    BY <1>1, <1>6, SetDoes
  <1>8. /\ v[o] = s[q] /\ v[Third] = s[o] /\ v[o].has /\ v[Tmp].has /\ v[Third].has
        /\ \A p \in Opts : p # o => v[p] = s[p]
    BY <1>1, <1>6, <1>7
  <1>9. PICK w \in States : /\ w = After(Set(Tmp, Third), v) /\ Set(Tmp, Third) \in Steps
                            /\ Fine(Set(Tmp, Third), v)
                            /\ w[Tmp] = v[Third] /\ w[Third] = Full(Moved)
                            /\ \A p \in Places : p # Tmp /\ p # Third => w[p] = v[p]
    BY <1>1, <1>8, SetDoes
  <1>10. /\ w[o] = s[q]
        /\ \A p \in Opts : p # o => w[p] = s[p]
    BY <1>1, <1>8, <1>9
  <1>11. PICK x \in States : /\ x = After(Drop(Third), w) /\ Drop(Third) \in Steps /\ Fine(Drop(Third), w)
                             /\ Drop(Third).do = "drop"
                             /\ x[Third] = None
                             /\ \A p \in Places : p # Third => x[p] = w[p]
    BY <1>1, <1>10, DropDoes
  <1>12. /\ x[o] = s[q] /\ x[Third] = None
        /\ \A p \in Opts : p # o => x[p] = s[p]
    BY <1>1, <1>10, <1>11
  <1>13. PICK y \in States : /\ y = After(Drop(Tmp), x) /\ Drop(Tmp) \in Steps /\ Fine(Drop(Tmp), x)
                             /\ Drop(Tmp).do = "drop"
                             /\ y[Tmp] = None
                             /\ \A p \in Places : p # Tmp => y[p] = x[p]
    BY <1>1, <1>12, DropDoes
  <1>14. /\ y[o] = s[q] /\ y[Tmp] = None /\ y[Third] = None
        /\ \A p \in Opts : p # o => y[p] = s[p]
    BY <1>1, <1>12, <1>13
  <1>15. FailsWell(s, a, m)
    BY <1>2, CopyMayFail
  <1>16. FailsWell(t, a, m)
    BY <1>2, <1>4, CopyMayFail
  <1>17. FailsWell(u, a, m)
    BY <1>2, <1>6, CopyMayFail
  <1>18. FailsWell(v, a, m)
    BY <1>2, <1>8, CopyMayFail
  <1>19. GoesWell(<<>>, y, a, m, FALSE)
    <2>1. Ends(y, a, m, FALSE)
      BY <1>2, <1>14, CellsAre DEF Ends
    <2> QED
      BY <2>1, NothingGoesWell
  <1>20. GoesWell(<<Drop(Tmp)>>, x, a, m, FALSE)
    BY <1>13, <1>19, OneGoesWell
  <1>21. GoesWell(<<Drop(Third), Drop(Tmp)>>, w, a, m, FALSE)
    BY <1>11, <1>13, <1>20, TwoGoesWell
  <1>22. GoesWell(<<Set(Tmp, Third), Drop(Third), Drop(Tmp)>>, v, a, m, FALSE)
    BY <1>9, <1>11, <1>13, <1>18, <1>21, ThreeGoesWell
  <1>23. GoesWell(<<Set(o, Tmp), Set(Tmp, Third), Drop(Third), Drop(Tmp)>>, u, a, m, FALSE)
    BY <1>7, <1>9, <1>11, <1>13, <1>17, <1>22, FourGoesWell
  <1>24. GoesWell(<<NewMoved(Third, o), Set(o, Tmp), Set(Tmp, Third), Drop(Third), Drop(Tmp)>>,
                  t, a, m, FALSE)
    BY <1>5, <1>7, <1>9, <1>11, <1>13, <1>16, <1>23, FiveGoesWell
  <1> QED
    BY <1>3, <1>5, <1>7, <1>9, <1>11, <1>13, <1>15, <1>24, SixGoesWell

\* Copying an empty optional.
LEMMA CopyNoneGoesWell ==
    ASSUME OptionalAssumption, NEW s \in States, Tidy(s), NEW a, NEW m, NEW o \in Opts,
           NEW q \in Opts, o # q,
           s[o].has, ~s[q].has,
           a.op = "copy", a.on = {o}, a.had = s[o].has, m[o] = s[q].slot,
           \A p \in Opts : p # o => m[p] = s[p].slot
    PROVE  GoesWell(<<NewMoved(Tmp, o), Drop(o), Drop(Tmp)>>, s, a, m, FALSE)
  <1>1. /\ Tmp \in Places /\ Third \in Places /\ o \in Places /\ q \in Places
        /\ Tmp # Third /\ o # Tmp /\ o # Third /\ q # Tmp /\ q # Third
        /\ \A p \in Opts : p \in Places /\ p # Tmp /\ p # Third
        /\ Full(Moved).has
    BY NamesDiffer, CellsAre
  <1>2. s[Tmp] = None /\ s[Third] = None /\ s[q] = None
    BY <1>1, HasTells DEF Tidy
  <1>3. PICK t \in States : /\ t = After(NewMoved(Tmp, o), s) /\ NewMoved(Tmp, o) \in Steps
                            /\ Fine(NewMoved(Tmp, o), s)
                            /\ t[Tmp] = s[o] /\ t[o] = Full(Moved)
                            /\ \A p \in Places : p # Tmp /\ p # o => t[p] = s[p]
    BY <1>1, <1>2, NewMovedDoes
  <1>4. /\ t[Third] = None
        /\ \A p \in Opts : p # o => t[p] = s[p]
    BY <1>1, <1>2, <1>3
  <1>5. PICK u \in States : /\ u = After(Drop(o), t) /\ Drop(o) \in Steps /\ Fine(Drop(o), t)
                            /\ Drop(o).do = "drop"
                            /\ u[o] = None
                            /\ \A p \in Places : p # o => u[p] = t[p]
    BY <1>1, <1>4, DropDoes
  <1>6. /\ u[o] = None /\ u[Third] = None
        /\ \A p \in Opts : p # o => u[p] = s[p]
    BY <1>1, <1>4, <1>5
  <1>7. PICK v \in States : /\ v = After(Drop(Tmp), u) /\ Drop(Tmp) \in Steps /\ Fine(Drop(Tmp), u)
                            /\ Drop(Tmp).do = "drop"
                            /\ v[Tmp] = None
                            /\ \A p \in Places : p # Tmp => v[p] = u[p]
    BY <1>1, <1>6, DropDoes
  <1>8. /\ v[o] = None /\ v[Tmp] = None /\ v[Third] = None
        /\ \A p \in Opts : p # o => v[p] = s[p]
    BY <1>1, <1>6, <1>7
  <1>9. FailsWell(s, a, m)
    BY <1>2, CopyMayFail
  <1>10. GoesWell(<<>>, v, a, m, FALSE)
    <2>1. Ends(v, a, m, FALSE)
      BY <1>2, <1>8, CellsAre DEF Ends
    <2> QED
      BY <2>1, NothingGoesWell
  <1>11. GoesWell(<<Drop(Tmp)>>, u, a, m, FALSE)
    BY <1>7, <1>10, OneGoesWell
  <1>12. GoesWell(<<Drop(o), Drop(Tmp)>>, t, a, m, FALSE)
    BY <1>5, <1>7, <1>11, TwoGoesWell
  <1> QED
    BY <1>3, <1>5, <1>7, <1>9, <1>12, ThreeGoesWell

\* Copying to an empty optional.
LEMMA CopyIntoEmptyGoesWell ==
    ASSUME OptionalAssumption, NEW s \in States, Tidy(s), NEW a, NEW m, NEW o \in Opts,
           NEW q \in Opts, o # q,
           ~s[o].has, s[q].has,
           a.op = "copy", a.on = {o}, a.had = s[o].has, m[o] = s[q].slot,
           \A p \in Opts : p # o => m[p] = s[p].slot
    PROVE  GoesWell(<<New(Tmp, q), NewMoved(o, Tmp), Drop(Tmp), Drop(Tmp)>>, s, a, m, FALSE)
  <1>1. /\ Tmp \in Places /\ Third \in Places /\ o \in Places /\ q \in Places
        /\ Tmp # Third /\ o # Tmp /\ o # Third /\ q # Tmp /\ q # Third
        /\ \A p \in Opts : p \in Places /\ p # Tmp /\ p # Third
        /\ Full(Moved).has
    BY NamesDiffer, CellsAre
  <1>2. s[Tmp] = None /\ s[Third] = None /\ s[o] = None
    BY <1>1, HasTells DEF Tidy
  <1>3. PICK t \in States : /\ t = After(New(Tmp, q), s) /\ New(Tmp, q) \in Steps /\ Fine(New(Tmp, q), s)
                            /\ t[Tmp] = s[q]
                            /\ \A p \in Places : p # Tmp => t[p] = s[p]
    BY <1>1, <1>2, NewDoes
  <1>4. /\ t[Tmp] = s[q] /\ t[Tmp].has /\ t[o] = None /\ t[Third] = None
        /\ \A p \in Opts : p # o => t[p] = s[p]
    BY <1>1, <1>2, <1>3
  <1>5. PICK u \in States : /\ u = After(NewMoved(o, Tmp), t) /\ NewMoved(o, Tmp) \in Steps
                            /\ Fine(NewMoved(o, Tmp), t)
                            /\ u[o] = t[Tmp] /\ u[Tmp] = Full(Moved)
                            /\ \A p \in Places : p # o /\ p # Tmp => u[p] = t[p]
    BY <1>1, <1>4, NewMovedDoes
  <1>6. /\ u[o] = s[q] /\ u[Third] = None
        /\ \A p \in Opts : p # o => u[p] = s[p]
    BY <1>1, <1>4, <1>5
  <1>7. PICK v \in States : /\ v = After(Drop(Tmp), u) /\ Drop(Tmp) \in Steps /\ Fine(Drop(Tmp), u)
                            /\ Drop(Tmp).do = "drop"
                            /\ v[Tmp] = None
                            /\ \A p \in Places : p # Tmp => v[p] = u[p]
    BY <1>1, <1>6, DropDoes
  <1>8. /\ v[o] = s[q] /\ v[Tmp] = None /\ v[Third] = None
        /\ \A p \in Opts : p # o => v[p] = s[p]
    BY <1>1, <1>6, <1>7
  <1>9. PICK w \in States : /\ w = After(Drop(Tmp), v) /\ Drop(Tmp) \in Steps /\ Fine(Drop(Tmp), v)
                            /\ Drop(Tmp).do = "drop"
                            /\ w[Tmp] = None
                            /\ \A p \in Places : p # Tmp => w[p] = v[p]
    BY <1>1, <1>8, DropDoes
  <1>10. /\ w[o] = s[q] /\ w[Tmp] = None /\ w[Third] = None
        /\ \A p \in Opts : p # o => w[p] = s[p]
    BY <1>1, <1>8, <1>9
  <1>11. FailsWell(s, a, m)
    BY <1>2, CopyMayFail
  <1>12. FailsWell(t, a, m)
    BY <1>2, <1>4, CopyMayFail
  <1>13. GoesWell(<<>>, w, a, m, FALSE)
    <2>1. Ends(w, a, m, FALSE)
      BY <1>2, <1>10, CellsAre DEF Ends
    <2> QED
      BY <2>1, NothingGoesWell
  <1>14. GoesWell(<<Drop(Tmp)>>, v, a, m, FALSE)
    BY <1>9, <1>13, OneGoesWell
  <1>15. GoesWell(<<Drop(Tmp), Drop(Tmp)>>, u, a, m, FALSE)
    BY <1>7, <1>9, <1>14, TwoGoesWell
  <1>16. GoesWell(<<NewMoved(o, Tmp), Drop(Tmp), Drop(Tmp)>>, t, a, m, FALSE)
    BY <1>5, <1>7, <1>9, <1>12, <1>15, ThreeGoesWell
  <1> QED
    BY <1>3, <1>5, <1>7, <1>9, <1>11, <1>16, FourGoesWell

LEMMA CopyNothingGoesWell ==
    ASSUME OptionalAssumption, NEW s \in States, Tidy(s), NEW a, NEW m, NEW o \in Opts,
           NEW q \in Opts, o # q,
           ~s[o].has, ~s[q].has,
           a.op = "copy", a.on = {o}, a.had = s[o].has, m[o] = s[q].slot,
           \A p \in Opts : p # o => m[p] = s[p].slot
    PROVE  GoesWell(<<Drop(Tmp)>>, s, a, m, FALSE)
  <1>1. /\ Tmp \in Places /\ Third \in Places /\ o \in Places /\ q \in Places
        /\ Tmp # Third /\ o # Tmp /\ o # Third /\ q # Tmp /\ q # Third
        /\ \A p \in Opts : p \in Places /\ p # Tmp /\ p # Third
        /\ Full(Moved).has
    BY NamesDiffer, CellsAre
  <1>2. s[Tmp] = None /\ s[Third] = None /\ s[o] = None /\ s[q] = None
    BY <1>1, HasTells DEF Tidy
  <1>3. PICK t \in States : /\ t = After(Drop(Tmp), s) /\ Drop(Tmp) \in Steps /\ Fine(Drop(Tmp), s)
                            /\ Drop(Tmp).do = "drop"
                            /\ t[Tmp] = None
                            /\ \A p \in Places : p # Tmp => t[p] = s[p]
    BY <1>1, <1>2, DropDoes
  <1>4. /\ t[o] = None /\ t[Tmp] = None /\ t[Third] = None
        /\ \A p \in Opts : p # o => t[p] = s[p]
    BY <1>1, <1>2, <1>3
  <1>5. GoesWell(<<>>, t, a, m, FALSE)
    <2>1. Ends(t, a, m, FALSE)
      BY <1>2, <1>4, CellsAre DEF Ends
    <2> QED
      BY <2>1, NothingGoesWell
  <1> QED
    BY <1>3, <1>5, OneGoesWell


\* A swap or move may fail as long as as many of its optionals hold elements as shall in the end.
LEMMA SwapMayFail ==
    ASSUME NEW s, NEW a, NEW m, NEW o, NEW q, a.on = {o, q}, \A p \in Opts \ a.on : s[p].slot = m[p],
           a.op = "move", s[o].has, s[q].has, m[o] # Raw, m[q] # Raw
    PROVE  FailsWell(s, a, m)
  <1>1. {p \in a.on : s[p].has} = {o, q} /\ {p \in a.on : m[p] # Raw} = {o, q}
    OBVIOUS
  <1> QED
    BY <1>1 DEF FailsWell

LEMMA MoveMayFail ==
    ASSUME NEW s, NEW a, NEW m, NEW o, NEW q, a.on = {o, q}, \A p \in Opts \ a.on : s[p].slot = m[p],
           a.op = "move", ~s[o].has, s[q].has, m[o] # Raw, m[q] = Raw
    PROVE  FailsWell(s, a, m)
  <1>1. {p \in a.on : s[p].has} = {q} /\ {p \in a.on : m[p] # Raw} = {o}
    OBVIOUS
  <1>2. Cardinality({q}) = 1 /\ Cardinality({o}) = 1
    BY FS_Singleton
  <1> QED
    BY <1>1, <1>2 DEF FailsWell

\* swap of two elements.
LEMMA SwapBothGoesWell ==
    ASSUME OptionalAssumption, NEW s \in States, Tidy(s), NEW a, NEW m, NEW o \in Opts, NEW q \in Opts, o # q,
           s[o].has, s[q].has,
           a.op = "move", a.on = {o, q}, m[o] = s[q].slot, m[q] = s[o].slot,
           \A p \in Opts : p # o /\ p # q => m[p] = s[p].slot
    PROVE  GoesWell(<<NewMoved(Third, o), Set(o, q), Set(q, Third), Drop(Third)>>, s, a, m, FALSE)
  <1>1. /\ Tmp \in Places /\ Third \in Places /\ o \in Places /\ q \in Places
        /\ Tmp # Third /\ o # Tmp /\ o # Third /\ q # Tmp /\ q # Third
        /\ \A p \in Opts : p \in Places /\ p # Tmp /\ p # Third
        /\ Full(Moved).has
    BY NamesDiffer, CellsAre
  <1>2. s[Tmp] = None /\ s[Third] = None /\ s[o].slot # Raw /\ s[q].slot # Raw
    BY <1>1, HasTells DEF Tidy
  <1>3. PICK t \in States : /\ t = After(NewMoved(Third, o), s) /\ NewMoved(Third, o) \in Steps
                            /\ Fine(NewMoved(Third, o), s)
                            /\ t[Third] = s[o] /\ t[o] = Full(Moved)
                            /\ \A p \in Places : p # Third /\ p # o => t[p] = s[p]
    BY <1>1, <1>2, NewMovedDoes
  <1>4. /\ t[Third] = s[o] /\ t[Third].has /\ t[o].has /\ t[q] = s[q] /\ t[Tmp] = None
        /\ \A p \in Opts : p # o /\ p # q => t[p] = s[p]
    BY <1>1, <1>2, <1>3
  <1>5. PICK u \in States : /\ u = After(Set(o, q), t) /\ Set(o, q) \in Steps /\ Fine(Set(o, q), t)
                            /\ u[o] = t[q] /\ u[q] = Full(Moved)
                            /\ \A p \in Places : p # o /\ p # q => u[p] = t[p]
    BY <1>1, <1>4, SetDoes
  <1>6. /\ u[o] = s[q] /\ u[o].has /\ u[q].has /\ u[Third] = s[o] /\ u[Third].has /\ u[Tmp] = None
        /\ \A p \in Opts : p # o /\ p # q => u[p] = s[p]
    BY <1>1, <1>4, <1>5
  <1>7. PICK v \in States : /\ v = After(Set(q, Third), u) /\ Set(q, Third) \in Steps
                            /\ Fine(Set(q, Third), u)
                            /\ v[q] = u[Third] /\ v[Third] = Full(Moved)
                            /\ \A p \in Places : p # q /\ p # Third => v[p] = u[p]
    BY <1>1, <1>6, SetDoes
  <1>8. /\ v[o] = s[q] /\ v[q] = s[o] /\ v[Tmp] = None
        /\ \A p \in Opts : p # o /\ p # q => v[p] = s[p]
    BY <1>1, <1>6, <1>7
  <1>9. PICK w \in States : /\ w = After(Drop(Third), v) /\ Drop(Third) \in Steps /\ Fine(Drop(Third), v)
                            /\ Drop(Third).do = "drop"
                            /\ w[Third] = None
                            /\ \A p \in Places : p # Third => w[p] = v[p]
    BY <1>1, <1>8, DropDoes
  <1>10. /\ w[o] = s[q] /\ w[q] = s[o] /\ w[Tmp] = None /\ w[Third] = None
        /\ \A p \in Opts : p # o /\ p # q => w[p] = s[p]
    BY <1>1, <1>8, <1>9
  <1>11. FailsWell(s, a, m)
    BY <1>2, SwapMayFail
  <1>12. FailsWell(t, a, m)
    BY <1>2, <1>4, SwapMayFail
  <1>13. FailsWell(u, a, m)
    BY <1>2, <1>6, SwapMayFail
  <1>14. GoesWell(<<>>, w, a, m, FALSE)
    <2>1. Ends(w, a, m, FALSE)
      BY <1>2, <1>10, CellsAre DEF Ends
    <2> QED
      BY <2>1, NothingGoesWell
  <1>15. GoesWell(<<Drop(Third)>>, v, a, m, FALSE)
    BY <1>9, <1>14, OneGoesWell
  <1>16. GoesWell(<<Set(q, Third), Drop(Third)>>, u, a, m, FALSE)
    BY <1>7, <1>9, <1>13, <1>15, TwoGoesWell
  <1>17. GoesWell(<<Set(o, q), Set(q, Third), Drop(Third)>>, t, a, m, FALSE)
    BY <1>5, <1>7, <1>9, <1>12, <1>16, ThreeGoesWell
  <1> QED
    BY <1>3, <1>5, <1>7, <1>9, <1>11, <1>17, FourGoesWell

\* The move of an element to an empty optional, by itself or in swap.
LEMMA MoveOverGoesWell ==
    ASSUME OptionalAssumption, NEW s \in States, Tidy(s), NEW a, NEW m, NEW o \in Opts, NEW q \in Opts, o # q,
           ~s[o].has, s[q].has,
           a.op = "move", a.on = {o, q}, m[o] = s[q].slot, m[q] = s[o].slot,
           \A p \in Opts : p # o /\ p # q => m[p] = s[p].slot
    PROVE  GoesWell(<<NewMoved(o, q), Drop(q)>>, s, a, m, FALSE)
  <1>1. /\ Tmp \in Places /\ Third \in Places /\ o \in Places /\ q \in Places
        /\ Tmp # Third /\ o # Tmp /\ o # Third /\ q # Tmp /\ q # Third
        /\ \A p \in Opts : p \in Places /\ p # Tmp /\ p # Third
        /\ Full(Moved).has
    BY NamesDiffer, CellsAre
  <1>2. s[Tmp] = None /\ s[Third] = None /\ s[o] = None /\ s[o].slot = Raw /\ s[q].slot # Raw
    BY <1>1, HasTells DEF Tidy
  <1>3. PICK t \in States : /\ t = After(NewMoved(o, q), s) /\ NewMoved(o, q) \in Steps
                            /\ Fine(NewMoved(o, q), s)
                            /\ t[o] = s[q] /\ t[q] = Full(Moved)
                            /\ \A p \in Places : p # o /\ p # q => t[p] = s[p]
    BY <1>1, <1>2, NewMovedDoes
  <1>4. /\ t[o] = s[q] /\ t[Tmp] = None /\ t[Third] = None
        /\ \A p \in Opts : p # o /\ p # q => t[p] = s[p]
    BY <1>1, <1>2, <1>3
  <1>5. PICK u \in States : /\ u = After(Drop(q), t) /\ Drop(q) \in Steps /\ Fine(Drop(q), t)
                            /\ Drop(q).do = "drop"
                            /\ u[q] = None
                            /\ \A p \in Places : p # q => u[p] = t[p]
    BY <1>1, <1>4, DropDoes
  <1>6. /\ u[o] = s[q] /\ u[q] = None /\ u[Tmp] = None /\ u[Third] = None
        /\ \A p \in Opts : p # o /\ p # q => u[p] = s[p]
    BY <1>1, <1>4, <1>5
  <1>7. FailsWell(s, a, m)
    BY <1>2, MoveMayFail
  <1>8. GoesWell(<<>>, u, a, m, FALSE)
    <2>1. Ends(u, a, m, FALSE)
      BY <1>2, <1>6, CellsAre DEF Ends
    <2> QED
      BY <2>1, NothingGoesWell
  <1>9. GoesWell(<<Drop(q)>>, t, a, m, FALSE)
    BY <1>5, <1>8, OneGoesWell
  <1> QED
    BY <1>3, <1>5, <1>7, <1>9, TwoGoesWell

\* Moves and swaps of empty optionals.
LEMMA MoveNothingGoesWell ==
    ASSUME OptionalAssumption, NEW s \in States, Tidy(s), NEW a, NEW m, NEW o \in Opts, NEW q \in Opts,
           ~s[o].has, ~s[q].has, m[o] = s[q].slot, m[q] = s[o].slot,
           \A p \in Opts : p # o /\ p # q => m[p] = s[p].slot
    PROVE  GoesWell(<<>>, s, a, m, FALSE)
  <1>1. s[o] = None /\ s[q] = None
    BY HasTells, NamesDiffer
  <1>2. Ends(s, a, m, FALSE)
    BY <1>1 DEF Ends, Tidy
  <1> QED
    BY <1>2, NothingGoesWell

\* What is left to do for a call that fails.
LEMMA CleaningGoesWell ==
    ASSUME OptionalAssumption, NEW s \in States, NEW a, NEW m, a.on \subseteq Opts, FailsWell(s, a, m)
    PROVE  GoesWell(<<Drop(Third), Drop(Tmp)>>, s, a, m, TRUE)
  <1>1. /\ Tmp \in Places /\ Third \in Places /\ Tmp # Third
        /\ \A p \in Opts : p \in Places /\ p # Tmp /\ p # Third
    BY NamesDiffer
  <1>2. PICK t \in States : /\ t = After(Drop(Third), s) /\ Drop(Third) \in Steps
                            /\ Fine(Drop(Third), s) /\ Drop(Third).do = "drop"
                            /\ t[Third] = None /\ \A p \in Places : p # Third => t[p] = s[p]
    BY <1>1, DropDoes
  <1>3. PICK u \in States : /\ u = After(Drop(Tmp), t) /\ Drop(Tmp) \in Steps
                            /\ Fine(Drop(Tmp), t) /\ Drop(Tmp).do = "drop"
                            /\ u[Tmp] = None /\ \A p \in Places : p # Tmp => u[p] = t[p]
    BY <1>1, <1>2, DropDoes
  <1>4. u[Third] = None /\ \A p \in Opts : u[p] = s[p]
    BY <1>1, <1>2, <1>3
  <1>5. FailsWell(u, a, m)
    <2>1. {p \in a.on : u[p].has} = {p \in a.on : s[p].has}
      BY <1>4
    <2>2. \A p \in Opts \ a.on : u[p].slot = m[p]
      BY <1>4 DEF FailsWell
    <2>3. a.op = "copy" /\ a.had => \A p \in a.on : u[p].has
      BY <1>4 DEF FailsWell
    <2> QED
      BY <2>1, <2>2, <2>3 DEF FailsWell
  <1>6. GoesWell(<<>>, u, a, m, TRUE)
    BY <1>3, <1>4, <1>5, NothingGoesWell DEF Ends
  <1>7. GoesWell(<<Drop(Tmp)>>, t, a, m, TRUE)
    BY <1>3, <1>6, OneGoesWell
  <1> QED
    BY <1>2, <1>3, <1>7, TwoGoesWell


----------------------------------------------------------------------------
(* The inductive invariant: whatever is left to do goes well.              *)

OptInv ==
    /\ opt \in States /\ todo \in Seq(Steps) /\ misused = FALSE
    /\ failing \in BOOLEAN /\ acts.on \subseteq Opts
    /\ GoesWell(todo, opt, acts, meant, failing)

LEMMA OptInvInit == ASSUME OptionalAssumption, OptInit PROVE OptInv
  <1>1. opt \in States /\ opt[Tmp] = None /\ opt[Third] = None /\ \A p \in Opts : opt[p] = None
    BY NamesDiffer DEF OptInit, States, Cells
  <1>2. failing = FALSE /\ todo = <<>> /\ misused = FALSE /\ acts.on = {} /\ \A p \in Opts : meant[p] = Raw
    BY DEF OptInit
  <1>3. Ends(opt, acts, meant, FALSE)
    BY <1>1, <1>2, CellsAre DEF Ends
  <1>4. GoesWell(<<>>, opt, acts, meant, FALSE)
    BY <1>1, <1>3, NothingGoesWell
  <1>5. failing \in BOOLEAN
    BY <1>2
  <1>6. acts.on \subseteq Opts
    BY <1>2
  <1>7. todo \in Seq(Steps)
    BY <1>2
  <1>8. GoesWell(todo, opt, acts, meant, failing)
    BY <1>2, <1>4
  <1> QED
    BY <1>1, <1>2, <1>5, <1>6, <1>7, <1>8 DEF OptInv

LEMMA StepRunsKeeps == ASSUME OptionalAssumption, OptInv, StepRuns PROVE OptInv'
  <1>1. todo \in Seq(Steps) /\ todo # <<>> /\ GoesWell(todo, opt, acts, meant, failing)
    BY DEF OptInv, StepRuns
  <1>2. Head(todo) \in Steps /\ Tail(todo) \in Seq(Steps)
    BY <1>1
  <1>3. opt' = After(Head(todo), opt)
    BY DEF StepRuns, After, Result, Used, Source, SourceIn, Full
  <1>4. /\ After(Head(todo), opt) \in States /\ Fine(Head(todo), opt)
        /\ GoesWell(Tail(todo), After(Head(todo), opt), acts, meant, failing)
    BY <1>1, StepHasGoneWell
  <1>5. ~Misuse(Head(todo))
    BY <1>4 DEF Misuse, Fine, Source, SourceIn
  <1>6. misused' = FALSE
    BY <1>5 DEF OptInv, StepRuns
  <1>7. todo' = Tail(todo) /\ UNCHANGED <<acts, failing, meant>>
    BY DEF StepRuns
  <1>8. GoesWell(todo', opt', acts', meant', failing')
    BY <1>3, <1>4, <1>7
  <1>9. opt' \in States /\ todo' \in Seq(Steps)
    BY <1>2, <1>3, <1>4, <1>7
  <1>10. failing' \in BOOLEAN /\ acts'.on \subseteq Opts
    BY <1>7 DEF OptInv
  <1> QED
    BY <1>6, <1>8, <1>9, <1>10 DEF OptInv

LEMMA StepThrowsKeeps == ASSUME OptionalAssumption, OptInv, StepThrows PROVE OptInv'
  <1>1. todo \in Seq(Steps) /\ todo # <<>> /\ GoesWell(todo, opt, acts, meant, failing)
    BY DEF OptInv, StepThrows
  <1>2. FailsWell(opt, acts, meant)
    BY <1>1, StepHasGoneWell DEF StepThrows
  <1>3. GoesWell(<<Drop(Third), Drop(Tmp)>>, opt, acts, meant, TRUE)
    BY <1>2, CleaningGoesWell DEF OptInv
  <1>4. todo' = <<Drop(Third), Drop(Tmp)>> /\ failing' = TRUE /\ UNCHANGED <<opt, acts, meant, misused>>
    BY DEF StepThrows
  <1>5. todo' \in Seq(Steps)
    BY <1>3, <1>4 DEF GoesWell
  <1> QED
    BY <1>3, <1>4, <1>5 DEF OptInv

\* A call begins where nothing is left to do, and what it will do goes well.
LEMMA CallKeeps ==
    ASSUME OptInv, NEW op, NEW o \in Opts, NEW q \in Opts, NEW list, NEW goal, Call(op, o, q, list, goal),
           GoesWell(list, opt, [op |-> op, on |-> {o, q}, had |-> opt[o].has], goal, FALSE)
    PROVE  OptInv'
  <1>1. /\ acts' = [op |-> op, on |-> {o, q}, had |-> opt[o].has]
        /\ todo' = list /\ failing' = FALSE /\ meant' = goal /\ UNCHANGED <<opt, misused>>
    BY DEF Call
  <1>2. list \in Seq(Steps)
    BY DEF GoesWell
  <1>3. acts'.on \subseteq Opts
    BY <1>1
  <1> QED
    BY <1>1, <1>2, <1>3 DEF OptInv

LEMMA OptCallStarts ==
    ASSUME OptInv, NEW op, NEW o, NEW q, NEW list, NEW goal, Call(op, o, q, list, goal)
    PROVE  opt \in States /\ Tidy(opt)
  BY NothingHasGoneWell DEF OptInv, Call, Ends, Tidy

LEMMA AssignValueKeeps ==
    ASSUME OptionalAssumption, OptInv, NEW o \in Opts, NEW val \in Values, AssignValue(o, val)
    PROVE  OptInv'
  <1> DEFINE goal == [Now EXCEPT ![o] = val]
             a == [op |-> "assign", on |-> {o, o}, had |-> opt[o].has]
  <1>1. Call("assign", o, o, Assigning(o, val), goal)
    BY DEF AssignValue
  <1>2. opt \in States /\ Tidy(opt)
    BY <1>1, OptCallStarts
  <1>3. a.op = "assign" /\ a.on = {o} /\ goal[o] = val /\ \A p \in Opts : p # o => goal[p] = opt[p].slot
    BY DEF Now
  <1> HIDE DEF goal, a
  <1>4. GoesWell(<<Drop(o), New(o, val)>>, opt, a, goal, FALSE)
    BY <1>2, <1>3, ValueGoesWell
  <1> QED
    BY <1>1, <1>4, CallKeeps DEF Assigning, a

LEMMA ResetOptionalKeeps == ASSUME OptionalAssumption, OptInv, NEW o \in Opts, ResetOptional(o) PROVE OptInv'
  <1> DEFINE goal == [Now EXCEPT ![o] = Raw]
             a == [op |-> "assign", on |-> {o, o}, had |-> opt[o].has]
  <1>1. Call("assign", o, o, <<Drop(o)>>, goal)
    BY DEF ResetOptional
  <1>2. opt \in States /\ Tidy(opt)
    BY <1>1, OptCallStarts
  <1>3. a.op = "assign" /\ a.on = {o} /\ goal[o] = Raw /\ \A p \in Opts : p # o => goal[p] = opt[p].slot
    BY DEF Now
  <1> HIDE DEF goal, a
  <1>4. GoesWell(<<Drop(o)>>, opt, a, goal, FALSE)
    BY <1>2, <1>3, DroppingGoesWell
  <1> QED
    BY <1>1, <1>4, CallKeeps DEF a

LEMMA ConvertAssignKeeps ==
    ASSUME OptionalAssumption, OptInv, NEW o \in Opts, NEW q \in Opts, ConvertAssign(o, q)
    PROVE  OptInv'
  <1> DEFINE goal == [Now EXCEPT ![o] = Now[q]]
             a == [op |-> "assign", on |-> {o, o}, had |-> opt[o].has]
             list == IF opt[q].has THEN Assigning(o, q) ELSE <<Drop(o)>>
  <1>1. Call("assign", o, o, list, goal) /\ o # q
    BY DEF ConvertAssign
  <1>2. opt \in States /\ Tidy(opt)
    BY <1>1, OptCallStarts
  <1>3. /\ a.op = "assign" /\ a.on = {o} /\ goal[o] = opt[q].slot
        /\ \A p \in Opts : p # o => goal[p] = opt[p].slot
    BY DEF Now
  <1>4. list = IF opt[q].has THEN <<Drop(o), New(o, q)>> ELSE <<Drop(o)>>
    BY DEF Assigning
  <1> HIDE DEF goal, a, list
  <1>5. GoesWell(list, opt, a, goal, FALSE)
    <2>1. CASE opt[q].has
      BY <1>1, <1>2, <1>3, <1>4, <2>1, ElementGoesWell
    <2>2. CASE ~opt[q].has
      <3>1. opt[q].slot = Raw
        BY <1>2, <2>2, HasTells, NamesDiffer
      <3> QED
        BY <1>2, <1>3, <1>4, <2>2, <3>1, DroppingGoesWell
    <2> QED
      BY <2>1, <2>2
  <1> QED
    BY <1>1, <1>5, CallKeeps DEF a

LEMMA Joined ==
    ASSUME NEW S, NEW x \in Seq(S), NEW y \in Seq(S), NEW z \in Seq(S), Len(z) = Len(x) + Len(y),
           \A i \in 1..Len(x) : z[i] = x[i], \A i \in 1..Len(y) : z[Len(x) + i] = y[i]
    PROVE  x \o y = z
  <1>1. x \o y \in Seq(S) /\ Len(x \o y) = Len(z)
    OBVIOUS
  <1>2. PICK m \in Nat, n \in Nat : m = Len(x) /\ n = Len(y)
    OBVIOUS
  <1>3. ASSUME NEW i \in 1..Len(z) PROVE (x \o y)[i] = z[i]
    <2>1. CASE i <= m
      BY <1>2, <2>1
    <2>2. CASE i > m
      <3>1. PICK j \in 1..n : i = m + j
        <4>1. i - m \in 1..n
          BY <1>2, <2>2
        <4>2. i = m + (i - m)
          BY <1>2
        <4> QED
          BY <4>1, <4>2
      <3>2. (x \o y)[i] = y[j]
        BY <1>2, <3>1
      <3> QED
        BY <1>2, <3>1, <3>2
    <2>3. i <= m \/ i > m
      BY <1>2
    <2> QED
      BY <2>1, <2>2, <2>3
  <1> QED
    BY <1>1, <1>3, SeqEqual

LEMMA OneAndOne ==
    ASSUME NEW S, NEW k1 \in S, NEW k2 \in S
    PROVE  <<k1>> \o <<k2>> = <<k1, k2>>
  <1>1. /\ <<k1>> \in Seq(S) /\ Len(<<k1>>) = 1
        /\ <<k1>>[1] = k1
    BY SMTT(20)
  <1>2. /\ <<k2>> \in Seq(S) /\ Len(<<k2>>) = 1
        /\ <<k2>>[1] = k2
    BY SMTT(20)
  <1>3. /\ <<k1, k2>> \in Seq(S) /\ Len(<<k1, k2>>) = 2
        /\ <<k1, k2>>[1] = k1 /\ <<k1, k2>>[2] = k2
    BY SMTT(20)
  <1>4. PICK x : x = <<k1>>
    OBVIOUS
  <1>5. PICK y : y = <<k2>>
    OBVIOUS
  <1>6. PICK z : z = <<k1, k2>>
    OBVIOUS
  <1>7. /\ x \in Seq(S) /\ Len(x) = 1
        /\ x[1] = k1
    BY <1>1, <1>4, Zenon
  <1>8. /\ y \in Seq(S) /\ Len(y) = 1
        /\ y[1] = k2
    BY <1>2, <1>5, Zenon
  <1>9. /\ z \in Seq(S) /\ Len(z) = 2
        /\ z[1] = k1 /\ z[2] = k2
    BY <1>3, <1>6, Zenon
  <1>10. Len(z) = Len(x) + Len(y)
    BY <1>7, <1>8, <1>9
  <1>11. ASSUME NEW i \in 1..Len(x) PROVE z[i] = x[i]
    BY <1>7, <1>9
  <1>12. ASSUME NEW i \in 1..Len(y) PROVE z[Len(x) + i] = y[i]
    BY <1>7, <1>8, <1>9
  <1>13. x \o y = z
    BY <1>7, <1>8, <1>9, <1>10, <1>11, <1>12, Joined
  <1> QED
    BY <1>4, <1>5, <1>6, <1>13, Zenon

LEMMA OneAndTwo ==
    ASSUME NEW S, NEW k1 \in S, NEW k2 \in S, NEW k3 \in S
    PROVE  <<k1>> \o <<k2, k3>> = <<k1, k2, k3>>
  <1>1. /\ <<k1>> \in Seq(S) /\ Len(<<k1>>) = 1
        /\ <<k1>>[1] = k1
    BY SMTT(20)
  <1>2. /\ <<k2, k3>> \in Seq(S) /\ Len(<<k2, k3>>) = 2
        /\ <<k2, k3>>[1] = k2 /\ <<k2, k3>>[2] = k3
    BY SMTT(20)
  <1>3. /\ <<k1, k2, k3>> \in Seq(S) /\ Len(<<k1, k2, k3>>) = 3
        /\ <<k1, k2, k3>>[1] = k1 /\ <<k1, k2, k3>>[2] = k2 /\ <<k1, k2, k3>>[3] = k3
    BY SMTT(20)
  <1>4. PICK x : x = <<k1>>
    OBVIOUS
  <1>5. PICK y : y = <<k2, k3>>
    OBVIOUS
  <1>6. PICK z : z = <<k1, k2, k3>>
    OBVIOUS
  <1>7. /\ x \in Seq(S) /\ Len(x) = 1
        /\ x[1] = k1
    BY <1>1, <1>4, Zenon
  <1>8. /\ y \in Seq(S) /\ Len(y) = 2
        /\ y[1] = k2 /\ y[2] = k3
    BY <1>2, <1>5, Zenon
  <1>9. /\ z \in Seq(S) /\ Len(z) = 3
        /\ z[1] = k1 /\ z[2] = k2 /\ z[3] = k3
    BY <1>3, <1>6, Zenon
  <1>10. Len(z) = Len(x) + Len(y)
    BY <1>7, <1>8, <1>9
  <1>11. ASSUME NEW i \in 1..Len(x) PROVE z[i] = x[i]
    BY <1>7, <1>9
  <1>12. ASSUME NEW i \in 1..Len(y) PROVE z[Len(x) + i] = y[i]
    BY <1>7, <1>8, <1>9
  <1>13. x \o y = z
    BY <1>7, <1>8, <1>9, <1>10, <1>11, <1>12, Joined
  <1> QED
    BY <1>4, <1>5, <1>6, <1>13, Zenon

LEMMA TwoAndOne ==
    ASSUME NEW S, NEW k1 \in S, NEW k2 \in S, NEW k3 \in S
    PROVE  <<k1, k2>> \o <<k3>> = <<k1, k2, k3>>
  <1>1. /\ <<k1, k2>> \in Seq(S) /\ Len(<<k1, k2>>) = 2
        /\ <<k1, k2>>[1] = k1 /\ <<k1, k2>>[2] = k2
    BY SMTT(20)
  <1>2. /\ <<k3>> \in Seq(S) /\ Len(<<k3>>) = 1
        /\ <<k3>>[1] = k3
    BY SMTT(20)
  <1>3. /\ <<k1, k2, k3>> \in Seq(S) /\ Len(<<k1, k2, k3>>) = 3
        /\ <<k1, k2, k3>>[1] = k1 /\ <<k1, k2, k3>>[2] = k2 /\ <<k1, k2, k3>>[3] = k3
    BY SMTT(20)
  <1>4. PICK x : x = <<k1, k2>>
    OBVIOUS
  <1>5. PICK y : y = <<k3>>
    OBVIOUS
  <1>6. PICK z : z = <<k1, k2, k3>>
    OBVIOUS
  <1>7. /\ x \in Seq(S) /\ Len(x) = 2
        /\ x[1] = k1 /\ x[2] = k2
    BY <1>1, <1>4, Zenon
  <1>8. /\ y \in Seq(S) /\ Len(y) = 1
        /\ y[1] = k3
    BY <1>2, <1>5, Zenon
  <1>9. /\ z \in Seq(S) /\ Len(z) = 3
        /\ z[1] = k1 /\ z[2] = k2 /\ z[3] = k3
    BY <1>3, <1>6, Zenon
  <1>10. Len(z) = Len(x) + Len(y)
    BY <1>7, <1>8, <1>9
  <1>11. ASSUME NEW i \in 1..Len(x) PROVE z[i] = x[i]
    BY <1>7, <1>9
  <1>12. ASSUME NEW i \in 1..Len(y) PROVE z[Len(x) + i] = y[i]
    BY <1>7, <1>8, <1>9
  <1>13. x \o y = z
    BY <1>7, <1>8, <1>9, <1>10, <1>11, <1>12, Joined
  <1> QED
    BY <1>4, <1>5, <1>6, <1>13, Zenon

LEMMA ThreeAndOne ==
    ASSUME NEW S, NEW k1 \in S, NEW k2 \in S, NEW k3 \in S, NEW k4 \in S
    PROVE  <<k1, k2, k3>> \o <<k4>> = <<k1, k2, k3, k4>>
  <1>1. /\ <<k1, k2, k3>> \in Seq(S) /\ Len(<<k1, k2, k3>>) = 3
        /\ <<k1, k2, k3>>[1] = k1 /\ <<k1, k2, k3>>[2] = k2 /\ <<k1, k2, k3>>[3] = k3
    BY SMTT(20)
  <1>2. /\ <<k4>> \in Seq(S) /\ Len(<<k4>>) = 1
        /\ <<k4>>[1] = k4
    BY SMTT(20)
  <1>3. /\ <<k1, k2, k3, k4>> \in Seq(S) /\ Len(<<k1, k2, k3, k4>>) = 4
        /\ <<k1, k2, k3, k4>>[1] = k1 /\ <<k1, k2, k3, k4>>[2] = k2 /\ <<k1, k2, k3, k4>>[3] = k3
        /\ <<k1, k2, k3, k4>>[4] = k4
    BY SMTT(20)
  <1>4. PICK x : x = <<k1, k2, k3>>
    OBVIOUS
  <1>5. PICK y : y = <<k4>>
    OBVIOUS
  <1>6. PICK z : z = <<k1, k2, k3, k4>>
    OBVIOUS
  <1>7. /\ x \in Seq(S) /\ Len(x) = 3
        /\ x[1] = k1 /\ x[2] = k2 /\ x[3] = k3
    BY <1>1, <1>4, Zenon
  <1>8. /\ y \in Seq(S) /\ Len(y) = 1
        /\ y[1] = k4
    BY <1>2, <1>5, Zenon
  <1>9. /\ z \in Seq(S) /\ Len(z) = 4
        /\ z[1] = k1 /\ z[2] = k2 /\ z[3] = k3 /\ z[4] = k4
    BY <1>3, <1>6, Zenon
  <1>10. Len(z) = Len(x) + Len(y)
    BY <1>7, <1>8, <1>9
  <1>11. ASSUME NEW i \in 1..Len(x) PROVE z[i] = x[i]
    BY <1>7, <1>9
  <1>12. ASSUME NEW i \in 1..Len(y) PROVE z[Len(x) + i] = y[i]
    BY <1>7, <1>8, <1>9
  <1>13. x \o y = z
    BY <1>7, <1>8, <1>9, <1>10, <1>11, <1>12, Joined
  <1> QED
    BY <1>4, <1>5, <1>6, <1>13, Zenon

LEMMA OneAndFour ==
    ASSUME NEW S, NEW k1 \in S, NEW k2 \in S, NEW k3 \in S, NEW k4 \in S, NEW k5 \in S
    PROVE  <<k1>> \o <<k2, k3, k4, k5>> = <<k1, k2, k3, k4, k5>>
  <1>1. /\ <<k1>> \in Seq(S) /\ Len(<<k1>>) = 1
        /\ <<k1>>[1] = k1
    BY SMTT(20)
  <1>2. /\ <<k2, k3, k4, k5>> \in Seq(S) /\ Len(<<k2, k3, k4, k5>>) = 4
        /\ <<k2, k3, k4, k5>>[1] = k2 /\ <<k2, k3, k4, k5>>[2] = k3 /\ <<k2, k3, k4, k5>>[3] = k4
        /\ <<k2, k3, k4, k5>>[4] = k5
    BY SMTT(20)
  <1>3. /\ <<k1, k2, k3, k4, k5>> \in Seq(S) /\ Len(<<k1, k2, k3, k4, k5>>) = 5
        /\ <<k1, k2, k3, k4, k5>>[1] = k1 /\ <<k1, k2, k3, k4, k5>>[2] = k2
        /\ <<k1, k2, k3, k4, k5>>[3] = k3 /\ <<k1, k2, k3, k4, k5>>[4] = k4
        /\ <<k1, k2, k3, k4, k5>>[5] = k5
    BY SMTT(20)
  <1>4. PICK x : x = <<k1>>
    OBVIOUS
  <1>5. PICK y : y = <<k2, k3, k4, k5>>
    OBVIOUS
  <1>6. PICK z : z = <<k1, k2, k3, k4, k5>>
    OBVIOUS
  <1>7. /\ x \in Seq(S) /\ Len(x) = 1
        /\ x[1] = k1
    BY <1>1, <1>4, Zenon
  <1>8. /\ y \in Seq(S) /\ Len(y) = 4
        /\ y[1] = k2 /\ y[2] = k3 /\ y[3] = k4 /\ y[4] = k5
    BY <1>2, <1>5, Zenon
  <1>9. /\ z \in Seq(S) /\ Len(z) = 5
        /\ z[1] = k1 /\ z[2] = k2 /\ z[3] = k3 /\ z[4] = k4 /\ z[5] = k5
    BY <1>3, <1>6, Zenon
  <1>10. Len(z) = Len(x) + Len(y)
    BY <1>7, <1>8, <1>9
  <1>11. ASSUME NEW i \in 1..Len(x) PROVE z[i] = x[i]
    BY <1>7, <1>9
  <1>12. ASSUME NEW i \in 1..Len(y) PROVE z[Len(x) + i] = y[i]
    BY <1>7, <1>8, <1>9
  <1>13. x \o y = z
    BY <1>7, <1>8, <1>9, <1>10, <1>11, <1>12, Joined
  <1> QED
    BY <1>4, <1>5, <1>6, <1>13, Zenon

LEMMA FiveAndOne ==
    ASSUME NEW S, NEW k1 \in S, NEW k2 \in S, NEW k3 \in S, NEW k4 \in S, NEW k5 \in S, NEW k6 \in S
    PROVE  <<k1, k2, k3, k4, k5>> \o <<k6>> = <<k1, k2, k3, k4, k5, k6>>
  <1>1. /\ <<k1, k2, k3, k4, k5>> \in Seq(S) /\ Len(<<k1, k2, k3, k4, k5>>) = 5
        /\ <<k1, k2, k3, k4, k5>>[1] = k1 /\ <<k1, k2, k3, k4, k5>>[2] = k2
        /\ <<k1, k2, k3, k4, k5>>[3] = k3 /\ <<k1, k2, k3, k4, k5>>[4] = k4
        /\ <<k1, k2, k3, k4, k5>>[5] = k5
    BY SMTT(20)
  <1>2. /\ <<k6>> \in Seq(S) /\ Len(<<k6>>) = 1
        /\ <<k6>>[1] = k6
    BY SMTT(20)
  <1>3. /\ <<k1, k2, k3, k4, k5, k6>> \in Seq(S) /\ Len(<<k1, k2, k3, k4, k5, k6>>) = 6
        /\ <<k1, k2, k3, k4, k5, k6>>[1] = k1 /\ <<k1, k2, k3, k4, k5, k6>>[2] = k2
        /\ <<k1, k2, k3, k4, k5, k6>>[3] = k3 /\ <<k1, k2, k3, k4, k5, k6>>[4] = k4
        /\ <<k1, k2, k3, k4, k5, k6>>[5] = k5 /\ <<k1, k2, k3, k4, k5, k6>>[6] = k6
    BY SMTT(20)
  <1>4. PICK x : x = <<k1, k2, k3, k4, k5>>
    OBVIOUS
  <1>5. PICK y : y = <<k6>>
    OBVIOUS
  <1>6. PICK z : z = <<k1, k2, k3, k4, k5, k6>>
    OBVIOUS
  <1>7. /\ x \in Seq(S) /\ Len(x) = 5
        /\ x[1] = k1 /\ x[2] = k2 /\ x[3] = k3 /\ x[4] = k4 /\ x[5] = k5
    BY <1>1, <1>4, Zenon
  <1>8. /\ y \in Seq(S) /\ Len(y) = 1
        /\ y[1] = k6
    BY <1>2, <1>5, Zenon
  <1>9. /\ z \in Seq(S) /\ Len(z) = 6
        /\ z[1] = k1 /\ z[2] = k2 /\ z[3] = k3 /\ z[4] = k4 /\ z[5] = k5 /\ z[6] = k6
    BY <1>3, <1>6, Zenon
  <1>10. Len(z) = Len(x) + Len(y)
    BY <1>7, <1>8, <1>9
  <1>11. ASSUME NEW i \in 1..Len(x) PROVE z[i] = x[i]
    BY <1>7, <1>9
  <1>12. ASSUME NEW i \in 1..Len(y) PROVE z[Len(x) + i] = y[i]
    BY <1>7, <1>8, <1>9
  <1>13. x \o y = z
    BY <1>7, <1>8, <1>9, <1>10, <1>11, <1>12, Joined
  <1> QED
    BY <1>4, <1>5, <1>6, <1>13, Zenon

LEMMA StepsAre ==
    ASSUME NEW o \in Places, NEW q \in Places
    PROVE  New(o, q) \in Steps /\ NewMoved(o, q) \in Steps /\ Set(o, q) \in Steps /\ Drop(o) \in Steps
  BY DEF New, NewMoved, Set, Drop, Steps

LEMMA CopyingConsistsOf ==
    ASSUME OptionalAssumption, NEW o \in Opts, NEW q \in Opts
    PROVE  CopyAssigning(o, q) =
               IF opt[o].has /\ opt[q].has
               THEN <<New(Tmp, q), NewMoved(Third, o), Set(o, Tmp), Set(Tmp, Third), Drop(Third),
                      Drop(Tmp)>>
               ELSE IF opt[o].has THEN <<NewMoved(Tmp, o), Drop(o), Drop(Tmp)>>
               ELSE IF opt[q].has THEN <<New(Tmp, q), NewMoved(o, Tmp), Drop(Tmp), Drop(Tmp)>>
               ELSE <<Drop(Tmp)>>
  <1>1. Tmp \in Places /\ Third \in Places /\ o \in Places /\ q \in Places
    BY NamesDiffer
  <1>2. PICK k1 \in Steps, k2 \in Steps, k3 \in Steps, k4 \in Steps, k5 \in Steps, k6 \in Steps :
           /\ k1 = New(Tmp, q) /\ k2 = NewMoved(Third, o) /\ k3 = Set(o, Tmp)
           /\ k4 = Set(Tmp, Third) /\ k5 = Drop(Third) /\ k6 = Drop(Tmp)
    BY <1>1, StepsAre
  <1>3. PICK k7 \in Steps, k8 \in Steps, k9 \in Steps :
           k7 = NewMoved(Tmp, o) /\ k8 = Drop(o) /\ k9 = NewMoved(o, Tmp)
    BY <1>1, StepsAre
  <1>4. CASE opt[o].has /\ opt[q].has
    <2>1. Swapping(o, Tmp, opt[o].has, opt[q].has) = <<k2, k3, k4, k5>>
      BY <1>2, <1>4 DEF Swapping
    <2>2. CopyAssigning(o, q) = <<k1>> \o <<k2, k3, k4, k5>> \o <<k6>>
      BY <1>2, <1>4, <2>1 DEF CopyAssigning
    <2>3. <<k1>> \o <<k2, k3, k4, k5>> = <<k1, k2, k3, k4, k5>>
      BY OneAndFour
    <2>4. <<k1, k2, k3, k4, k5>> \o <<k6>> = <<k1, k2, k3, k4, k5, k6>>
      BY FiveAndOne
    <2>5. CopyAssigning(o, q) = <<k1, k2, k3, k4, k5, k6>>
      BY <2>2, <2>3, <2>4, Zenon
    <2> QED
      BY <1>2, <1>4, <2>5, Zenon
  <1>5. CASE opt[o].has /\ ~opt[q].has
    <2>1. Swapping(o, Tmp, opt[o].has, opt[q].has) = <<k7, k8>>
      BY <1>3, <1>5 DEF Swapping, MoveOver
    <2>2. CopyAssigning(o, q) = <<>> \o <<k7, k8>> \o <<k6>>
      BY <1>2, <1>5, <2>1 DEF CopyAssigning
    <2>3. <<>> \o <<k7, k8>> = <<k7, k8>>
      OBVIOUS
    <2>4. <<k7, k8>> \o <<k6>> = <<k7, k8, k6>>
      BY TwoAndOne
    <2>5. CopyAssigning(o, q) = <<k7, k8, k6>>
      BY <2>2, <2>3, <2>4, Zenon
    <2> QED
      BY <1>2, <1>3, <1>5, <2>5, Zenon
  <1>6. CASE ~opt[o].has /\ opt[q].has
    <2>1. Swapping(o, Tmp, opt[o].has, opt[q].has) = <<k9, k6>>
      BY <1>2, <1>3, <1>6 DEF Swapping, MoveOver
    <2>2. CopyAssigning(o, q) = <<k1>> \o <<k9, k6>> \o <<k6>>
      BY <1>2, <1>6, <2>1 DEF CopyAssigning
    <2>3. <<k1>> \o <<k9, k6>> = <<k1, k9, k6>>
      BY OneAndTwo
    <2>4. <<k1, k9, k6>> \o <<k6>> = <<k1, k9, k6, k6>>
      BY ThreeAndOne
    <2>5. CopyAssigning(o, q) = <<k1, k9, k6, k6>>
      BY <2>2, <2>3, <2>4, Zenon
    <2> QED
      BY <1>2, <1>3, <1>6, <2>5, Zenon
  <1>7. CASE ~opt[o].has /\ ~opt[q].has
    <2>1. Swapping(o, Tmp, opt[o].has, opt[q].has) = <<>>
      BY <1>7 DEF Swapping
    <2>2. CopyAssigning(o, q) = <<>> \o <<>> \o <<k6>>
      BY <1>2, <1>7, <2>1 DEF CopyAssigning
    <2>3. <<>> \o <<>> \o <<k6>> = <<k6>>
      OBVIOUS
    <2> QED
      BY <1>2, <1>7, <2>2, <2>3, Zenon
  <1> QED
    BY <1>4, <1>5, <1>6, <1>7

LEMMA CopyAssignKeeps ==
    ASSUME OptionalAssumption, OptInv, NEW o \in Opts, NEW q \in Opts, CopyAssign(o, q)
    PROVE  OptInv'
  <1> DEFINE goal == [Now EXCEPT ![o] = Now[q]]
             a == [op |-> "copy", on |-> {o, o}, had |-> opt[o].has]
  <1>1. Call("copy", o, o, CopyAssigning(o, q), goal) /\ o # q
    BY DEF CopyAssign
  <1>2. opt \in States /\ Tidy(opt)
    BY <1>1, OptCallStarts
  <1>3. /\ a.op = "copy" /\ a.on = {o} /\ a.had = opt[o].has /\ goal[o] = opt[q].slot
        /\ \A p \in Opts : p # o => goal[p] = opt[p].slot
    BY DEF Now
  <1> HIDE DEF goal, a
  <1>4. GoesWell(CopyAssigning(o, q), opt, a, goal, FALSE)
    <2>1. CASE opt[o].has /\ opt[q].has
      <3>1. CopyAssigning(o, q) = <<New(Tmp, q), NewMoved(Third, o), Set(o, Tmp), Set(Tmp, Third),
                                    Drop(Third), Drop(Tmp)>>
        BY <2>1, CopyingConsistsOf
      <3>2. GoesWell(<<New(Tmp, q), NewMoved(Third, o), Set(o, Tmp), Set(Tmp, Third), Drop(Third),
                       Drop(Tmp)>>,
                     opt, a, goal, FALSE)
        BY <1>1, <1>2, <1>3, <2>1, CopyBothGoesWell
      <3> QED
        BY <3>1, <3>2, Zenon
    <2>2. CASE opt[o].has /\ ~opt[q].has
      <3>1. CopyAssigning(o, q) = <<NewMoved(Tmp, o), Drop(o), Drop(Tmp)>>
        BY <2>2, CopyingConsistsOf
      <3>2. GoesWell(<<NewMoved(Tmp, o), Drop(o), Drop(Tmp)>>, opt, a, goal, FALSE)
        BY <1>1, <1>2, <1>3, <2>2, CopyNoneGoesWell
      <3> QED
        BY <3>1, <3>2, Zenon
    <2>3. CASE ~opt[o].has /\ opt[q].has
      <3>1. CopyAssigning(o, q) = <<New(Tmp, q), NewMoved(o, Tmp), Drop(Tmp), Drop(Tmp)>>
        BY <2>3, CopyingConsistsOf
      <3>2. GoesWell(<<New(Tmp, q), NewMoved(o, Tmp), Drop(Tmp), Drop(Tmp)>>, opt, a, goal, FALSE)
        BY <1>1, <1>2, <1>3, <2>3, CopyIntoEmptyGoesWell
      <3> QED
        BY <3>1, <3>2, Zenon
    <2>4. CASE ~opt[o].has /\ ~opt[q].has
      BY <1>1, <1>2, <1>3, <2>4, CopyingConsistsOf, CopyNothingGoesWell
    <2> QED
      BY <2>1, <2>2, <2>3, <2>4
  <1> QED
    BY <1>1, <1>4, CallKeeps DEF a

LEMMA MoveConstructOptionalKeeps ==
    ASSUME OptionalAssumption, OptInv, NEW o \in Opts, NEW q \in Opts, MoveConstructOptional(o, q)
    PROVE  OptInv'
  <1> DEFINE goal == [Now EXCEPT ![o] = Now[q], ![q] = Raw]
             a == [op |-> "move", on |-> {o, q}, had |-> opt[o].has]
             list == IF opt[q].has THEN MoveOver(o, q) ELSE <<>>
  <1>1. Call("move", o, q, list, goal) /\ o # q /\ ~opt[o].has
    BY DEF MoveConstructOptional
  <1>2. opt \in States /\ Tidy(opt)
    BY <1>1, OptCallStarts
  <1>3. opt[o].slot = Raw
    BY <1>1, <1>2, HasTells, NamesDiffer
  <1>4. /\ a.op = "move" /\ a.on = {o, q} /\ goal[o] = opt[q].slot /\ goal[q] = opt[o].slot
        /\ \A p \in Opts : p # o /\ p # q => goal[p] = opt[p].slot
    BY <1>1, <1>3 DEF Now
  <1>5. list = IF opt[q].has THEN <<NewMoved(o, q), Drop(q)>> ELSE <<>>
    BY DEF MoveOver
  <1> HIDE DEF goal, a, list
  <1>6. GoesWell(list, opt, a, goal, FALSE)
    <2>1. CASE opt[q].has
      BY <1>1, <1>2, <1>4, <1>5, <2>1, MoveOverGoesWell
    <2>2. CASE ~opt[q].has
      BY <1>1, <1>2, <1>4, <1>5, <2>2, MoveNothingGoesWell
    <2> QED
      BY <2>1, <2>2
  <1> QED
    BY <1>1, <1>6, CallKeeps DEF a

LEMMA SwapOptionalKeeps ==
    ASSUME OptionalAssumption, OptInv, NEW o \in Opts, NEW q \in Opts, SwapOptionals(o, q)
    PROVE  OptInv'
  <1> DEFINE goal == [Now EXCEPT ![o] = Now[q], ![q] = Now[o]]
             a == [op |-> "move", on |-> {o, q}, had |-> opt[o].has]
             list == Swapping(o, q, opt[o].has, opt[q].has)
  <1>1. Call("move", o, q, list, goal) /\ o # q
    BY DEF SwapOptionals
  <1>2. opt \in States /\ Tidy(opt)
    BY <1>1, OptCallStarts
  <1>3. /\ a.op = "move" /\ a.on = {o, q} /\ goal[o] = opt[q].slot /\ goal[q] = opt[o].slot
        /\ \A p \in Opts : p # o /\ p # q => goal[p] = opt[p].slot
    BY <1>1 DEF Now
  <1> HIDE DEF goal, a
  <1>4. GoesWell(list, opt, a, goal, FALSE)
    <2>1. CASE opt[o].has /\ opt[q].has
      <3>1. list = <<NewMoved(Third, o), Set(o, q), Set(q, Third), Drop(Third)>>
        BY <2>1 DEF Swapping
      <3> HIDE DEF list
      <3> QED
        BY <1>1, <1>2, <1>3, <2>1, <3>1, SwapBothGoesWell
    <2>2. CASE opt[o].has /\ ~opt[q].has
      <3>1. list = <<NewMoved(q, o), Drop(o)>>
        BY <2>2 DEF Swapping, MoveOver
      <3>2. a.on = {q, o} /\ \A p \in Opts : p # q /\ p # o => goal[p] = opt[p].slot
        BY <1>3
      <3> HIDE DEF list
      <3> QED
        BY <1>1, <1>2, <1>3, <2>2, <3>1, <3>2, MoveOverGoesWell
    <2>3. CASE ~opt[o].has /\ opt[q].has
      <3>1. list = <<NewMoved(o, q), Drop(q)>>
        BY <2>3 DEF Swapping, MoveOver
      <3> HIDE DEF list
      <3> QED
        BY <1>1, <1>2, <1>3, <2>3, <3>1, MoveOverGoesWell
    <2>4. CASE ~opt[o].has /\ ~opt[q].has
      <3>1. list = <<>>
        BY <2>4 DEF Swapping
      <3> HIDE DEF list
      <3> QED
        BY <1>1, <1>2, <1>3, <2>4, <3>1, MoveNothingGoesWell
    <2> QED
      BY <2>1, <2>2, <2>3, <2>4
  <1> HIDE DEF list
  <1> QED
    BY <1>1, <1>4, CallKeeps DEF a

LEMMA OptInvNext ==
    ASSUME OptionalAssumption, MaySelf = FALSE, OptInv, [OptNext]_optVars PROVE OptInv'
  <1>1. CASE StepRuns
    BY <1>1, StepRunsKeeps
  <1>2. CASE StepThrows
    BY <1>2, StepThrowsKeeps
  <1>3. ASSUME NEW o \in Opts, NEW val \in Values, AssignValue(o, val) PROVE OptInv'
    BY <1>3, AssignValueKeeps
  <1>4. ASSUME NEW o \in Opts, ResetOptional(o) PROVE OptInv'
    BY <1>4, ResetOptionalKeeps
  <1>5. ASSUME NEW o \in Opts PROVE ~AssignOwnElement(o)
    BY DEF AssignOwnElement
  <1>6. ASSUME NEW o \in Opts, NEW q \in Opts,
               CopyAssign(o, q) \/ ConvertAssign(o, q) \/ MoveConstructOptional(o, q) \/ SwapOptionals(o, q)
        PROVE  OptInv'
    BY <1>6, CopyAssignKeeps, ConvertAssignKeeps, MoveConstructOptionalKeeps, SwapOptionalKeeps
  <1>7. CASE UNCHANGED optVars
    BY <1>7 DEF OptInv, optVars
  <1> QED
    BY <1>1, <1>2, <1>3, <1>4, <1>5, <1>6, <1>7 DEF OptNext

LEMMA OptInvHolds == ASSUME OptionalAssumption, MaySelf = FALSE PROVE OptSpec => []OptInv
  <1>1. OptInit => OptInv
    BY OptInvInit
  <1>2. OptInv /\ [OptNext]_optVars => OptInv'
    BY OptInvNext
  <1> QED
    BY <1>1, <1>2, PTL DEF OptSpec

\* Whatever is called, and whichever construction or assignment throws, no element is used where
\* there is none, unless an optional is assigned the element it holds.
THEOREM OptionalNeverMisused ==
    ASSUME OptionalAssumption, MaySelf = FALSE PROVE OptSpec => []NeverMisused
  <1>1. OptInv => NeverMisused
    BY DEF OptInv, NeverMisused
  <1> QED
    BY <1>1, OptInvHolds, PTL

\* Every call leaves the optionals as it is meant to, or, if it throws, loses no element and changes no
\* optional but those it is for.
THEOREM OptionalOutcomeAsMeant ==
    ASSUME OptionalAssumption, MaySelf = FALSE PROVE OptSpec => []OutcomeAsMeant
  <1>1. ASSUME OptInv PROVE OutcomeAsMeant
    <2> SUFFICES ASSUME todo = <<>> PROVE OutcomeAsMeant
      BY DEF OutcomeAsMeant
    <2>1. opt \in States /\ Ends(opt, acts, meant, failing)
      BY <1>1, NothingHasGoneWell DEF OptInv
    <2>2. \A o \in Opts : opt[o].has <=> opt[o].slot # Raw
      BY <2>1, HasTells, NamesDiffer
    <2>3. opt[Tmp] = None /\ opt[Third] = None
      BY <2>1 DEF Ends
    <2>4. CASE failing
      BY <2>1, <2>2, <2>3, <2>4 DEF Ends, FailsWell, OutcomeAsMeant
    <2>5. CASE ~failing
      BY <2>1, <2>2, <2>3, <2>5 DEF Ends, OutcomeAsMeant
    <2> QED
      BY <2>4, <2>5
  <1>2. OptInv => OutcomeAsMeant
    BY <1>1
  <1> QED
    BY <1>2, OptInvHolds, PTL

----------------------------------------------------------------------------
(* The types of optionals, also where they are assigned from the element   *)
(* they hold.                                                              *)

Slots == Held \cup {Raw}

\* What is still done consists of steps.
OptTyped == OptTypeOK /\ todo \in Seq(Steps)

\* Everything a call consists of is a step.
LEMMA AssigningIsTyped ==
    ASSUME NEW o \in Places, NEW from \in Places \cup Values PROVE Assigning(o, from) \in Seq(Steps)
  <1>1. Drop(o) \in Steps /\ New(o, from) \in Steps
    BY DEF Drop, New, Steps
  <1> QED
    BY <1>1 DEF Assigning

LEMMA MoveOverIsTyped ==
    ASSUME NEW o \in Places, NEW q \in Places PROVE MoveOver(o, q) \in Seq(Steps)
  <1>1. NewMoved(o, q) \in Steps /\ Drop(q) \in Steps
    BY StepsAre
  <1> QED
    BY <1>1 DEF MoveOver

LEMMA SwappingIsTyped ==
    ASSUME NEW o \in Places, NEW q \in Places, NEW oHas \in BOOLEAN, NEW qHas \in BOOLEAN
    PROVE  Swapping(o, q, oHas, qHas) \in Seq(Steps)
  <1>0. Third \in Places
    BY DEF Places
  <1>1. MoveOver(o, q) \in Seq(Steps) /\ MoveOver(q, o) \in Seq(Steps)
    BY MoveOverIsTyped
  <1>2. <<NewMoved(Third, o), Set(o, q), Set(q, Third), Drop(Third)>> \in Seq(Steps)
    <2>1. /\ NewMoved(Third, o) \in Steps /\ Set(o, q) \in Steps
          /\ Set(q, Third) \in Steps /\ Drop(Third) \in Steps
      BY <1>0, StepsAre
    <2> QED
      BY <2>1
  <1>3. <<>> \in Seq(Steps)
    OBVIOUS
  <1>4. CASE oHas /\ qHas
    BY <1>1, <1>2, <1>4 DEF Swapping
  <1>5. CASE oHas /\ ~qHas
    BY <1>1, <1>5 DEF Swapping
  <1>6. CASE ~oHas /\ qHas
    BY <1>1, <1>6 DEF Swapping
  <1>7. CASE ~oHas /\ ~qHas
    BY <1>1, <1>3, <1>7 DEF Swapping
  <1> QED
    BY <1>4, <1>5, <1>6, <1>7

LEMMA CopyAssigningIsTyped ==
    ASSUME OptTyped, NEW o \in Opts, NEW q \in Opts PROVE CopyAssigning(o, q) \in Seq(Steps)
  <1>1. o \in Places /\ q \in Places /\ Tmp \in Places /\ opt[o].has \in BOOLEAN /\ opt[q].has \in BOOLEAN
    BY DEF Places, OptTyped, OptTypeOK
  <1> DEFINE fill == IF opt[q].has THEN <<New(Tmp, q)>> ELSE <<>>
             change == Swapping(o, Tmp, opt[o].has, opt[q].has)
             clean == <<Drop(Tmp)>>
  <1>2. fill \in Seq(Steps)
    <2>1. New(Tmp, q) \in Steps
      BY <1>1, StepsAre
    <2> QED
      BY <2>1
  <1>3. change \in Seq(Steps)
    BY <1>1, SwappingIsTyped
  <1>4. clean \in Seq(Steps)
    <2>1. Drop(Tmp) \in Steps
      BY <1>1, StepsAre
    <2> QED
      BY <2>1
  <1>5. CopyAssigning(o, q) = fill \o change \o clean
    BY DEF CopyAssigning
  <1> HIDE DEF fill, change, clean
  <1> QED
    BY <1>2, <1>3, <1>4, <1>5

LEMMA OptTypedInit == ASSUME OptionalAssumption, OptInit PROVE OptTyped
  <1>1. None \in [has : BOOLEAN, slot : Held \cup {Raw}]
    BY DEF None
  <1>2. opt \in [Places -> [has : BOOLEAN, slot : Held \cup {Raw}]]
    BY <1>1 DEF OptInit
  <1>3. todo \in Seq(Steps) /\ acts.on \subseteq Opts
    BY DEF OptInit
  <1>4. failing \in BOOLEAN /\ misused \in BOOLEAN
    BY Zenon DEF OptInit
  <1>5. meant \in [Opts -> Held \cup {Raw}]
    BY DEF OptInit
  <1> QED
    BY <1>2, <1>3, <1>4, <1>5 DEF OptTyped, OptTypeOK

\* A call that begins.
LEMMA CallIsTyped ==
    ASSUME OptTyped, NEW op, NEW o \in Opts, NEW q \in Opts, NEW list \in Seq(Steps),
           NEW goal \in [Opts -> Slots], Call(op, o, q, list, goal)
    PROVE  OptTyped'
  <1>1. /\ acts' = [op |-> op, on |-> {o, q}, had |-> opt[o].has]
        /\ todo' = list /\ failing' = FALSE /\ meant' = goal /\ UNCHANGED <<opt, misused>>
    BY DEF Call
  <1>2. acts'.on \subseteq Opts
    BY <1>1
  <1> QED
    BY <1>1, <1>2 DEF OptTyped, OptTypeOK, Slots

LEMMA StepRunsIsTyped == ASSUME OptTyped, StepRuns PROVE OptTyped'
  <1>1. PICK step \in Steps : step = Head(todo)
    BY DEF OptTyped, StepRuns
  <1>2. Tail(todo) \in Seq(Steps)
    BY DEF OptTyped, StepRuns
  <1> DEFINE Cell == [has : BOOLEAN, slot : Slots]
  <1>3. opt \in [Places -> Cell]
    BY DEF OptTyped, OptTypeOK, Slots
  <1>4. Source(step) \in Slots
    BY <1>3 DEF Source, Steps, Slots, Held
  <1>5. None \in Cell /\ Result(step) \in Cell
    BY <1>4 DEF None, Result, Slots
  <1>6. Used(step) \in Cell
    BY <1>3, <1>5 DEF Used, Slots, Held
  <1>7. opt' \in [Places -> Cell]
    BY <1>1, <1>3, <1>5, <1>6 DEF StepRuns
  <1>8. misused' \in BOOLEAN
    BY Zenon DEF StepRuns
  <1>9. todo' = Tail(todo) /\ UNCHANGED <<acts, failing, meant>>
    BY DEF StepRuns
  <1> QED
    BY <1>2, <1>7, <1>8, <1>9 DEF OptTyped, OptTypeOK, Slots

LEMMA StepThrowsIsTyped == ASSUME OptTyped, StepThrows PROVE OptTyped'
  <1>1. Drop(Third) \in Steps /\ Drop(Tmp) \in Steps
    BY StepsAre DEF Places
  <1>2. <<Drop(Third), Drop(Tmp)>> \in Seq(Steps)
    BY <1>1
  <1> QED
    BY <1>2 DEF StepThrows, OptTyped, OptTypeOK

LEMMA OptTypedNext == ASSUME OptTyped, [OptNext]_optVars PROVE OptTyped'
  <1>0. Opts \subseteq Places
    BY DEF Places
  <1>n. Now \in [Opts -> Slots] /\ Raw \in Slots /\ Values \subseteq Slots
    BY <1>0 DEF OptTyped, OptTypeOK, Now, Slots, Held
  <1>1. ASSUME NEW o \in Opts, NEW val \in Values, AssignValue(o, val) PROVE OptTyped'
    <2>1. Assigning(o, val) \in Seq(Steps) /\ [Now EXCEPT ![o] = val] \in [Opts -> Slots]
      BY <1>0, <1>n, AssigningIsTyped
    <2> QED
      BY <1>1, <2>1, CallIsTyped DEF AssignValue
  <1>2. ASSUME NEW o \in Opts, AssignOwnElement(o) PROVE OptTyped'
    <2>1. Assigning(o, o) \in Seq(Steps)
      BY <1>0, AssigningIsTyped
    <2> QED
      BY <1>2, <1>n, <2>1, CallIsTyped DEF AssignOwnElement
  <1>3. ASSUME NEW o \in Opts PROVE <<Drop(o)>> \in Seq(Steps)
    <2>1. Drop(o) \in Steps
      BY <1>0, StepsAre
    <2> QED
      BY <2>1
  <1>4. ASSUME NEW o \in Opts, ResetOptional(o) PROVE OptTyped'
    <2>1. [Now EXCEPT ![o] = Raw] \in [Opts -> Slots]
      BY <1>n
    <2> QED
      BY <1>3, <1>4, <2>1, CallIsTyped DEF ResetOptional
  <1>5. ASSUME NEW o \in Opts, NEW q \in Opts
        PROVE  /\ [Now EXCEPT ![o] = Now[q]] \in [Opts -> Slots]
               /\ [Now EXCEPT ![o] = Now[q], ![q] = Raw] \in [Opts -> Slots]
               /\ [Now EXCEPT ![o] = Now[q], ![q] = Now[o]] \in [Opts -> Slots]
    BY <1>n
  <1>6. ASSUME NEW o \in Opts, NEW q \in Opts, CopyAssign(o, q) PROVE OptTyped'
    BY <1>5, <1>6, CopyAssigningIsTyped, CallIsTyped DEF CopyAssign
  <1>7. ASSUME NEW o \in Opts, NEW q \in Opts, ConvertAssign(o, q) PROVE OptTyped'
    <2>1. PICK list \in Seq(Steps) : list = IF opt[q].has THEN Assigning(o, q) ELSE <<Drop(o)>>
      BY <1>0, <1>3, AssigningIsTyped
    <2> QED
      BY <1>5, <1>7, <2>1, CallIsTyped DEF ConvertAssign
  <1>8. ASSUME NEW o \in Opts, NEW q \in Opts, MoveConstructOptional(o, q) PROVE OptTyped'
    <2>1. MoveOver(o, q) \in Seq(Steps) /\ <<>> \in Seq(Steps)
      BY <1>0, MoveOverIsTyped
    <2>2. PICK list \in Seq(Steps) : list = IF opt[q].has THEN MoveOver(o, q) ELSE <<>>
      BY <2>1
    <2> QED
      BY <1>5, <1>8, <2>2, CallIsTyped DEF MoveConstructOptional
  <1>9. ASSUME NEW o \in Opts, NEW q \in Opts, SwapOptionals(o, q) PROVE OptTyped'
    <2>1. opt[o].has \in BOOLEAN /\ opt[q].has \in BOOLEAN
      BY <1>0 DEF OptTyped, OptTypeOK
    <2>2. Swapping(o, q, opt[o].has, opt[q].has) \in Seq(Steps)
      BY <1>0, <2>1, SwappingIsTyped
    <2> QED
      BY <1>5, <1>9, <2>2, CallIsTyped DEF SwapOptionals
  <1>10. CASE UNCHANGED optVars
    BY <1>10 DEF optVars, OptTyped, OptTypeOK
  <1> QED
    BY <1>1, <1>2, <1>4, <1>6, <1>7, <1>8, <1>9, <1>10, StepRunsIsTyped, StepThrowsIsTyped DEF OptNext

\* A place of an optional never holds anything but an element, or none, not even where elements are used
\* that are not there (optional.hxx).
LEMMA OptIsTyped == ASSUME OptionalAssumption PROVE OptSpec => []OptTypeOK
  <1>1. OptTyped => OptTypeOK
    BY DEF OptTyped
  <1> QED
    BY <1>1, OptTypedInit, OptTypedNext, PTL DEF OptSpec
=============================================================================
