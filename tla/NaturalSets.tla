----------------------------- MODULE NaturalSets ----------------------------
(***************************************************************************)
(* Sets of natural numbers, for the proofs: positions in a log, in a block *)
(* and in a list of calls.                                                 *)
(***************************************************************************)
EXTENDS Integers, TLAPS, WellFoundedInduction

\* A nonempty set of positions has a first and a last one.
LEMMA LeastElement ==
  ASSUME NEW T, T \subseteq Nat, T # {}
  PROVE  \E x \in T : \A y \in T : x =< y
<1> DEFINE R == OpToRel(<, Nat)
<1>1. PICK x \in T : \A y \in T : ~ (<<y, x>> \in R)
  <2>1. IsWellFoundedOn(R, Nat)
    BY NatLessThanWellFounded
  <2> HIDE DEF R
  <2> QED
    BY <2>1, WFMin
<1>2. \A y \in T : y < x => <<y, x>> \in R
  BY DEF OpToRel
<1>3. \A y \in T : ~ (y < x)
  <2> HIDE DEF R
  <2> QED
    BY <1>1, <1>2, Zenon
<1> HIDE DEF R
<1> QED
  BY <1>3

LEMMA GreatestElement ==
  ASSUME NEW n \in Nat, NEW T, T \subseteq 1..n, T # {}
  PROVE  \E x \in T : \A y \in T : y =< x
<1> DEFINE D == {n - y : y \in T}
<1>1. D \subseteq Nat /\ D # {}
  <2>1. \A y \in T : n - y \in Nat
    OBVIOUS
  <2> QED
    BY <2>1
<1>2. PICK d \in D : \A e \in D : d =< e
  <2> HIDE DEF D
  <2> QED
    BY <1>1, LeastElement
<1>3. PICK x \in T : d = n - x
  OBVIOUS
<1>4. ASSUME NEW y \in T PROVE y =< x
  <2>1. n - y \in D
    OBVIOUS
  <2>2. d =< n - y
    BY <1>2, <2>1
  <2>3. x \in 1..n /\ y \in 1..n
    OBVIOUS
  <2> HIDE DEF D
  <2> QED
    BY <1>3, <2>2, <2>3
<1> QED
  BY <1>4

-----------------------------------------------------------------------------
(* Recursive definitions.  An entry is computed from entries of a lower    *)
(* rank; the definition is given as a function of the entry and of all     *)
(* that is known, so that it can be a value.                               *)

\* Among some entries one has the lowest rank.
LEMMA LowestRanked ==
  ASSUME NEW D, NEW rank \in [D -> Nat], NEW T, T \subseteq D, T # {}
  PROVE  \E x \in T : \A y \in T : rank[x] =< rank[y]
<1> DEFINE R == {rank[y] : y \in T}
<1>1. R \subseteq Nat /\ R # {}
  OBVIOUS
<1>2. PICK r \in R : \A s \in R : r =< s
  <2> HIDE DEF R
  <2> QED
    BY <1>1, LeastElement
<1>3. PICK x \in T : r = rank[x]
  OBVIOUS
<1>4. ASSUME NEW y \in T PROVE rank[x] =< rank[y]
  <2>1. rank[y] \in R
    OBVIOUS
  <2> HIDE DEF R
  <2> QED
    BY <1>2, <1>3, <2>1
<1> QED
  BY <1>4

\* What holds of an entry when it holds of all of a lower rank holds of all.
LEMMA RankInduction ==
  ASSUME NEW D, NEW rank \in [D -> Nat], NEW Good,
         \A x \in D : (\A y \in D : rank[y] < rank[x] => y \in Good) => x \in Good
  PROVE  D \subseteq Good
<1> SUFFICES ASSUME D \ Good # {} PROVE FALSE
  OBVIOUS
<1>1. PICK x \in D \ Good : \A y \in D \ Good : rank[x] =< rank[y]
  BY LowestRanked
<1>2. ASSUME NEW y \in D, rank[y] < rank[x] PROVE y \in Good
  BY <1>1, <1>2
<1> QED
  BY <1>1, <1>2

\* Entries of D in X, computed by a step that looks at entries of a lower rank.
Recursive(D, X, N, rank, step) ==
  /\ X # {} /\ N \in Nat
  /\ rank \in [D -> 0..N]
  /\ step \in [D \X [D -> X] -> X]
  /\ \A x \in D : \A f, g \in [D -> X] :
       (\A y \in D : rank[y] < rank[x] => f[y] = g[y]) => step[<<x, f>>] = step[<<x, g>>]

LEMMA Recursion ==
  ASSUME NEW D, NEW X, NEW N, NEW rank, NEW step, Recursive(D, X, N, rank, step)
  PROVE  \E f \in [D -> X] : \A x \in D : f[x] = step[<<x, f>>]
<1>a. X # {} /\ N \in Nat /\ rank \in [D -> 0..N] /\ step \in [D \X [D -> X] -> X]
  BY DEF Recursive
<1>b. \A x \in D : \A f, g \in [D -> X] :
        (\A y \in D : rank[y] < rank[x] => f[y] = g[y]) => step[<<x, f>>] = step[<<x, g>>]
  BY DEF Recursive
<1> DEFINE Known(n) == \E f \in [D -> X] : \A x \in D : rank[x] < n => f[x] = step[<<x, f>>]
           Bad == {n \in Nat : ~Known(n)}
<1>1. Known(0)
  <2> PICK e \in X : TRUE
    BY <1>a
  <2> DEFINE f == [x \in D |-> e]
  <2>1. f \in [D -> X]
    OBVIOUS
  <2>2. \A x \in D : rank[x] < 0 => f[x] = step[<<x, f>>]
    BY <1>a
  <2> QED
    BY <2>1, <2>2
<1>2. ASSUME NEW n \in Nat, Known(n) PROVE Known(n + 1)
  <2>1. PICK f \in [D -> X] : \A x \in D : rank[x] < n => f[x] = step[<<x, f>>]
    BY <1>2
  <2> DEFINE g == [x \in D |-> IF rank[x] = n THEN step[<<x, f>>] ELSE f[x]]
  <2>2. g \in [D -> X]
    BY <1>a
  <2>3. ASSUME NEW x \in D, rank[x] < n + 1 PROVE g[x] = step[<<x, g>>]
    <3>1. \A y \in D : rank[y] < rank[x] => f[y] = g[y]
      BY <1>a, <2>3
    <3>2. step[<<x, f>>] = step[<<x, g>>]
      <4> HIDE DEF g
      <4> QED
        BY <1>b, <2>2, <3>1
    <3>3. rank[x] < n \/ rank[x] = n
      BY <1>a, <2>3
    <3>4. g[x] = step[<<x, f>>]
      BY <2>1, <3>3
    <3> QED
      BY <3>2, <3>4
  <2> HIDE DEF g
  <2> QED
    BY <2>2, <2>3
<1>3. Bad = {}
  <2> SUFFICES ASSUME Bad # {} PROVE FALSE
    OBVIOUS
  <2>1. PICK b \in Bad : \A y \in Bad : b =< y
    <3>1. Bad \subseteq Nat
      OBVIOUS
    <3> HIDE DEF Bad
    <3> QED
      BY <3>1, LeastElement
  <2> HIDE DEF Known
  <2>2. b # 0
    BY <1>1
  <2>3. b - 1 \in Nat /\ b - 1 \notin Bad
    BY <2>1, <2>2
  <2>4. Known(b - 1)
    BY <2>3
  <2>5. Known((b - 1) + 1)
    BY <1>2, <2>3, <2>4
  <2>6. (b - 1) + 1 = b
    OBVIOUS
  <2> QED
    BY <2>5, <2>6
<1>4. Known(N + 1)
  <2> HIDE DEF Known
  <2> QED
    BY <1>a, <1>3
<1>5. PICK f \in [D -> X] : \A x \in D : rank[x] < N + 1 => f[x] = step[<<x, f>>]
  BY <1>4
<1>6. \A x \in D : rank[x] < N + 1
  BY <1>a
<1> QED
  BY <1>5, <1>6

\* What goes up from 0 reaches every number.
LEMMA Upward ==
  ASSUME NEW L \in Nat, NEW Good, 0 \in Good,
         \A n \in 1..L : n - 1 \in Good => n \in Good
  PROVE  0..L \subseteq Good
<1> DEFINE D == 0..L
           rank == [n \in D |-> n]
<1>1. rank \in [D -> Nat]
  OBVIOUS
<1>2. ASSUME NEW n \in D, \A k \in D : rank[k] < rank[n] => k \in Good PROVE n \in Good
  <2>1. n # 0 => n \in 1..L /\ n - 1 \in D /\ rank[n - 1] < rank[n]
    OBVIOUS
  <2> QED
    BY <1>2, <2>1
<1> HIDE DEF D, rank
<1>3. D \subseteq Good
  BY <1>1, <1>2, RankInduction
<1> QED
  BY <1>3 DEF D

\* A sum of any kind, taken one entry after the other.
Accumulates(f, L, start, step) ==
  f[0] = start /\ \A n \in 1..L : f[n] = step[<<n, f[n - 1]>>]

LEMMA Accumulation ==
  ASSUME NEW L, NEW X, NEW start, NEW step,
         L \in Nat, start \in X, step \in [(1..L) \X X -> X]
  PROVE  \E f \in [0..L -> X] : Accumulates(f, L, start, step)
<1> DEFINE D == 0..L
           rank == [n \in D |-> n]
           next == [p \in D \X [D -> X] |-> IF p[1] = 0 THEN start ELSE step[<<p[1], p[2][p[1] - 1]>>]]
<1>1. \A n \in D : n = 0 \/ (n \in 1..L /\ n - 1 \in D /\ rank[n - 1] < rank[n])
  OBVIOUS
<1>2. rank \in [D -> 0..L]
  OBVIOUS
<1>3. next \in [D \X [D -> X] -> X]
  <2> HIDE DEF D
  <2> SUFFICES ASSUME NEW n \in D, NEW f \in [D -> X], n # 0 PROVE step[<<n, f[n - 1]>>] \in X
    OBVIOUS
  <2>1. n \in 1..L /\ f[n - 1] \in X
    BY <1>1
  <2> QED
    BY <2>1
<1>4. \A n \in D : \A f, g \in [D -> X] :
        (\A k \in D : rank[k] < rank[n] => f[k] = g[k]) => next[<<n, f>>] = next[<<n, g>>]
  <2> SUFFICES ASSUME NEW n \in D, NEW f \in [D -> X], NEW g \in [D -> X],
                      \A k \in D : rank[k] < rank[n] => f[k] = g[k]
               PROVE  next[<<n, f>>] = next[<<n, g>>]
    OBVIOUS
  <2>1. n = 0 \/ f[n - 1] = g[n - 1]
    BY <1>1
  <2> HIDE DEF D, rank
  <2> QED
    BY <2>1
<1>5. Recursive(D, X, L, rank, next)
  <2> HIDE DEF D, rank, next
  <2> QED
    BY <1>2, <1>3, <1>4 DEF Recursive
<1>6. PICK f \in [D -> X] : \A n \in D : f[n] = next[<<n, f>>]
  <2> HIDE DEF D, rank, next
  <2> QED
    BY <1>5, Recursion
<1>7. \A n \in D : next[<<n, f>>] = IF n = 0 THEN start ELSE step[<<n, f[n - 1]>>]
  <2> HIDE DEF D
  <2> QED
    OBVIOUS
<1>8. 0 \in D /\ \A n \in 1..L : n \in D /\ n # 0
  OBVIOUS
<1> HIDE DEF next
<1>9. Accumulates(f, L, start, step)
  BY <1>6, <1>7, <1>8 DEF Accumulates
<1> QED
  BY <1>6, <1>9 DEF D
=============================================================================
