---------------------------- MODULE Permutation ----------------------------
(***************************************************************************)
(* qak::index_permutation: permutations of 0..size-1 that keep a forward   *)
(* and a reverse mapping, each in a vector of its own, and rotate_sequence *)
(* on which rotate is built.                                               *)
(*                                                                         *)
(* Permutations are used by one thread; an operation is one step.  What an *)
(* exception leaves of an assignment is a step too: the two vectors are    *)
(* assigned one after the other.                                           *)
(***************************************************************************)
EXTENDS Integers

CONSTANTS
    Perms,      \* the user's permutations
    MaxIndex,   \* bound: the largest size
    Modulus     \* what sizes are computed modulo: 256 for index_permutation<uint8_t>

PermutationAssumption == MaxIndex \in Nat /\ Modulus \in Nat /\ MaxIndex < Modulus

VARIABLES
    perm,       \* f_, its size, and r_ of each permutation
    torn        \* those that an exception left between the assignments of f_ and r_

permVars == <<perm, torn>>

Indexes(n) == 0..(n - 1)

Identity(n) == [size |-> n, f |-> [i \in Indexes(n) |-> i], r |-> [i \in Indexes(n) |-> i]]

PermInit == perm = [x \in Perms |-> Identity(0)] /\ torn = {}

----------------------------------------------------------------------------
(* rotate_sequence.                                                        *)

\* memcpy and memmove: n slots of f from dst on become those of g from src on.
CopyWithin(f, dst, g, src, n) ==
    [i \in DOMAIN f |-> IF dst <= i /\ i < dst + n THEN g[src + (i - dst)] ELSE f[i]]

\* Where the left part is smaller: v_tmp is the right end of f.
\* Mutant: v_tmp is what was moved there.
LeftSmallerLate(f, b, m, e) ==
    LET l == m - b
        r == e - m
        g == CopyWithin(f, e - l, f, b, l)
        h == CopyWithin(g, b, g, m, r - l)
    IN  CopyWithin(h, b + r - l, g, e - l, l)

LeftSmaller(f, b, m, e) ==
    LET l == m - b
        r == e - m
        g == CopyWithin(f, e - l, f, b, l)
        h == CopyWithin(g, b, g, m, r - l)
    IN  CopyWithin(h, b + r - l, f, e - l, l)

\* Where the right part is smaller: v_tmp is the left end of f.
RightSmaller(f, b, m, e) ==
    LET l == m - b
        r == e - m
        g == CopyWithin(f, b, f, m, r)
        h == CopyWithin(g, b + 2 * r, g, b + r, l - r)
    IN  CopyWithin(h, b + r, f, b, r)

rotate_sequence(f, b, m, e) ==
    CASE b = m \/ m = e -> f
      [] b # m /\ m - b = e - m -> CopyWithin(CopyWithin(f, b, f, m, m - b), m, f, b, m - b)
      [] b # m /\ m - b < e - m -> LeftSmaller(f, b, m, e)
      [] m # e /\ m - b > e - m -> RightSmaller(f, b, m, e)

----------------------------------------------------------------------------
(* Operations.                                                             *)

\* for (ix = lo; ix < hi; ++ix) r[f[ix]] = ix, with f[ix] different for all ix.
WriteBack(r, f, lo, hi) ==
    [j \in DOMAIN r |-> IF \E i \in lo..(hi - 1) : f[i] = j
                        THEN CHOOSE i \in lo..(hi - 1) : f[i] = j
                        ELSE r[j]]

\* new_sz wraps around; the loop then adds nothing.
Extended(p, n) ==
    LET new == (p.size + n) % Modulus IN
    IF new <= p.size THEN p
    ELSE [size |-> new,
          f |-> [i \in Indexes(new) |-> IF i < p.size THEN p.f[i] ELSE i],
          r |-> [i \in Indexes(new) |-> IF i < p.size THEN p.r[i] ELSE i]]

Inverted(p) == [size |-> p.size, f |-> p.r, r |-> p.f]

\* Mutant: the reverse mapping is swapped by the same indexes as the forward one.
SwappedByIndex(p, a, b) ==
    [size |-> p.size,
     f |-> [p.f EXCEPT ![a] = p.f[b], ![b] = p.f[a]],
     r |-> [p.r EXCEPT ![a] = p.r[b], ![b] = p.r[a]]]

Swapped(p, a, b) ==
    [size |-> p.size,
     f |-> [p.f EXCEPT ![a] = p.f[b], ![b] = p.f[a]],
     r |-> [p.r EXCEPT ![p.f[a]] = b, ![p.f[b]] = a]]

Rotated(p, b, m, e) ==
    LET f == rotate_sequence(p.f, b, m, e)
    IN  [size |-> p.size, f |-> f, r |-> WriteBack(p.r, f, b, e)]

\* f_ and r_ are swapped, f_ is computed from the old f_, and r_ from the new one.
Multiplied(p, q) ==
    LET f == [i \in Indexes(p.size) |-> p.f[q.f[i]]]
    IN  [size |-> p.size, f |-> f, r |-> WriteBack(p.f, f, 0, p.size)]

\* One mapping without the entry at ix and the value val.
Without(g, n, ix, val) ==
    [i \in Indexes(n - 1) |->
        LET old == IF i < ix THEN g[i] ELSE g[i + 1]
        IN  IF val < old THEN old - 1 ELSE old]

Removed(p, ix) ==
    [size |-> p.size - 1,
     f |-> Without(p.f, p.size, ix, p.f[ix]),
     r |-> Without(p.r, p.size, p.f[ix], ix)]

\* size() asserts that the vectors are equally long.
Whole(x) == x \notin torn

Become(x, p) == perm' = [perm EXCEPT ![x] = p] /\ UNCHANGED torn

\* f_ and r_ are emptied first, which mends a torn permutation.
reset(x, n) ==
    /\ perm' = [perm EXCEPT ![x] = Extended(Identity(0), n)]
    /\ torn' = torn \ {x}

\* reserve throws before anything is added.
ResetThrows(x) == reset(x, 0)

set_identity(x) == Whole(x) /\ reset(x, perm[x].size)

invert(x) == Whole(x) /\ Become(x, Inverted(perm[x]))

\* Bound: nothing is extended past MaxIndex, but as far as size_type wraps.
extend(x, n) ==
    /\ Whole(x)
    /\ perm[x].size + n <= MaxIndex \/ perm[x].size + n >= Modulus
    /\ Become(x, Extended(perm[x], n))

swap_two(x, a, b) ==
    /\ Whole(x) /\ {a, b} \subseteq Indexes(perm[x].size)
    /\ Become(x, Swapped(perm[x], a, b))

rotate(x, b, m, e) ==
    /\ Whole(x) /\ b <= m /\ m <= e /\ e <= perm[x].size
    /\ Become(x, Rotated(perm[x], b, m, e))

remove(x, ix) ==
    /\ Whole(x) /\ ix < perm[x].size
    /\ Become(x, Removed(perm[x], ix))

\* operator *=, which squares if both are the same.
Multiply(x, y) ==
    /\ Whole(x) /\ Whole(y) /\ perm[x].size = perm[y].size
    /\ Become(x, Multiplied(perm[x], perm[y]))

\* operator = (index_permutation const &)
AssignPerm(x, y) ==
    /\ Whole(y) /\ x # y
    /\ perm' = [perm EXCEPT ![x] = perm[y]]
    /\ torn' = torn \ {x}

\* The vector that has no room for the elements is empty when it throws: r_, or f_ before it.
AssignThrows(x, y) ==
    /\ Whole(y) /\ x # y
    /\ \/ perm' = [perm EXCEPT ![x] = [perm[y] EXCEPT !.r = Identity(0).r]]
       \/ perm' = [perm EXCEPT ![x] = [Identity(0) EXCEPT !.r = perm[x].r]]
    /\ torn' = torn \cup {x}

\* operator = (index_permutation &&)
Move(x, y) ==
    /\ Whole(y) /\ x # y
    /\ perm' = [perm EXCEPT ![x] = perm[y], ![y] = Identity(0)]
    /\ torn' = torn \ {x}

SwapPerms(x, y) ==
    /\ Whole(x) /\ Whole(y) /\ x # y
    /\ perm' = [perm EXCEPT ![x] = perm[y], ![y] = perm[x]]
    /\ UNCHANGED torn

PermNext == \E x \in Perms :
    \/ ResetThrows(x) \/ set_identity(x) \/ invert(x)
    \/ \E n \in 0..MaxIndex : reset(x, n)
    \/ \E n \in 0..(Modulus - 1) : extend(x, n)
    \/ \E a, b \in Indexes(MaxIndex) : swap_two(x, a, b)
    \/ \E b, m, e \in 0..MaxIndex : rotate(x, b, m, e)
    \/ \E ix \in Indexes(MaxIndex) : remove(x, ix)
    \/ \E y \in Perms :
          Multiply(x, y) \/ AssignPerm(x, y) \/ AssignThrows(x, y) \/ Move(x, y) \/ SwapPerms(x, y)

PermSpec == PermInit /\ [][PermNext]_permVars

----------------------------------------------------------------------------
(* Properties.                                                             *)

IsPermutation(p) ==
    /\ p = [size |-> p.size, f |-> p.f, r |-> p.r] /\ p.size \in Nat
    /\ p.f \in [Indexes(p.size) -> Indexes(p.size)]
    /\ p.r \in [Indexes(p.size) -> Indexes(p.size)]
    /\ \A i \in Indexes(p.size) : p.r[p.f[i]] = i /\ p.f[p.r[i]] = i

\* After any sequence of operations, and exceptions in them, f_ is a permutation of all indexes
\* and r_ is its inverse, although rotate, square, mult_by and remove change both in place.
MutuallyInverse == \A x \in Perms \ torn : IsPermutation(perm[x])

\* "so that the element mapped by ix_m becomes mapped by ix_b" (permutation.hxx, line 228): rotate
\* moves the elements from m on to b and those before m behind them, in their order, whichever
\* of its three ways through temporary memory rotate_sequence takes.
IsRotation(f, g, b, m, e) ==
    \A i \in DOMAIN f :
        g[i] = IF i < b \/ e <= i THEN f[i]
               ELSE IF i < b + (e - m) THEN f[m + (i - b)] ELSE f[i - (e - m)]

RotateRotates ==
    \A x \in Perms \ torn : \A b, m, e \in 0..perm[x].size :
        b <= m /\ m <= e =>
            IsRotation(perm[x].f, rotate_sequence(perm[x].f, b, m, e), b, m, e)

PermTypeOK ==
    /\ torn \subseteq Perms
    /\ \A x \in Perms : perm[x].size \in 0..MaxIndex
=============================================================================
