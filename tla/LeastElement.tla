---------------------------- MODULE LeastElement ----------------------------
(***************************************************************************)
(* Least and greatest elements of sets of naturals, and iteration.  The    *)
(* proofs of this project argue by induction from a least counterexample.  *)
(***************************************************************************)
EXTENDS Naturals, NaturalsInduction, WellFoundedInduction, TLAPS

\* Every nonempty set of naturals has a least element; inductions below argue
\* from a least counterexample.
LEMMA LeastNat ==
    ASSUME NEW T, T \subseteq Nat, T # {}
    PROVE  \E x \in T : \A y \in T : x <= y
<1>1. \E x \in T : \A y \in T : ~(<<y, x>> \in OpToRel(<, Nat))
  <2>1. ASSUME NEW R, IsWellFoundedOn(R, Nat)
        PROVE  \E x \in T : \A y \in T : ~(<<y, x>> \in R)
    BY <2>1, WFMin, Zenon
  <2>2. IsWellFoundedOn(OpToRel(<, Nat), Nat)
    BY NatLessThanWellFounded
  <2> QED BY <2>1, <2>2, Zenon
<1>2. PICK x \in T : \A y \in T : ~(<<y, x>> \in OpToRel(<, Nat))
  BY <1>1
<1>3. \A y \in T : ~(y < x)
  BY <1>2 DEF OpToRel
<1> QED BY <1>3

\* A nonempty set of positions up to n has a greatest element.
LEMMA GreatestPosition ==
    ASSUME NEW n \in Nat, NEW T, T \subseteq 1..n, T # {}
    PROVE  \E x \in T : \A y \in T : y <= x
<1> DEFINE D == {d \in Nat : n - d \in T}
<1>1. PICK x0 \in T : TRUE
  OBVIOUS
<1>2. n - x0 \in D
  BY <1>1
<1>3. PICK d \in D : \A e \in D : d <= e
  <2> HIDE DEF D
  <2>1. D \subseteq Nat
    BY DEF D
  <2> QED BY <1>2, <2>1, LeastNat
<1>4. \A y \in T : n - y \in D
  OBVIOUS
<1> QED BY <1>3, <1>4

-----------------------------------------------------------------------------
(* Iteration: what a recursive function on 0..n computes. *)

\* The set of functions below n that iterate T from x.
Iterates(U, T, x, n) ==
    {f \in [0..n -> U] : f = [k \in 0..n |-> IF k = 0 THEN x ELSE T[f[k - 1]]]}

LEMMA IterationStep ==
    ASSUME NEW U, NEW T \in [U -> U], NEW x \in U, NEW n \in Nat, NEW f \in Iterates(U, T, x, n)
    PROVE  Iterates(U, T, x, n + 1) # {}
<1> DEFINE g == [k \in 0..(n + 1) |-> IF k <= n THEN f[k] ELSE T[f[n]]]
<1>1. /\ f \in [0..n -> U]
      /\ \A k \in 0..n : f[k] = IF k = 0 THEN x ELSE T[f[k - 1]]
  BY DEF Iterates
<1>2. g \in [0..(n + 1) -> U]
  BY <1>1
<1>3. \A k \in 0..(n + 1) : g[k] = IF k = 0 THEN x ELSE T[g[k - 1]]
  BY <1>1
<1>4. g = [k \in 0..(n + 1) |-> IF k = 0 THEN x ELSE T[g[k - 1]]]
  <2> HIDE DEF g
  <2> QED BY <1>2, <1>3
<1>5. g \in Iterates(U, T, x, n + 1)
  <2> HIDE DEF g
  <2> QED BY <1>2, <1>4 DEF Iterates
<1> QED BY <1>5

Maps(T, U) == T \in [U -> U]

\* T can be iterated n times from x.
Iterable(T, U, x, n) ==
    \E f \in [0..n -> U] : f[0] = x /\ \A k \in 1..n : f[k] = T[f[k - 1]]

LEMMA IterateAt ==
    ASSUME NEW U, NEW T, NEW x, NEW n \in Nat, Iterates(U, T, x, n) # {}
    PROVE  Iterable(T, U, x, n)
<1>1. PICK f : f \in Iterates(U, T, x, n)
  OBVIOUS
<1>2. f \in [0..n -> U] /\ f = [k \in 0..n |-> IF k = 0 THEN x ELSE T[f[k - 1]]]
  BY <1>1 DEF Iterates
<1>3. \A k \in 0..n : f[k] = IF k = 0 THEN x ELSE T[f[k - 1]]
  BY <1>2
<1>4. f[0] = x /\ \A k \in 1..n : f[k] = T[f[k - 1]]
  BY <1>3
<1> QED BY <1>2, <1>4 DEF Iterable

\* A function from a set to itself can be iterated.
LEMMA Iteration ==
    ASSUME NEW U, NEW T, Maps(T, U), NEW x \in U, NEW n \in Nat
    PROVE  Iterable(T, U, x, n)
<1> DEFINE Bad == {m \in Nat : Iterates(U, T, x, m) = {}}
<1>0. T \in [U -> U]
  BY DEF Maps
<1>1. SUFFICES Bad = {}
  BY <1>1, IterateAt
<1>2. SUFFICES ASSUME Bad # {} PROVE FALSE
  OBVIOUS
<1>3. PICK m \in Bad : \A y \in Bad : m <= y
  <2> HIDE DEF Bad
  <2>1. Bad \subseteq Nat
    BY DEF Bad
  <2> QED BY <1>2, <2>1, LeastNat
<1>4. CASE m = 0
  <2> DEFINE f == [k \in 0..0 |-> x]
  <2>1. f \in [0..0 -> U] /\ f = [k \in 0..0 |-> IF k = 0 THEN x ELSE T[f[k - 1]]]
    OBVIOUS
  <2>2. f \in Iterates(U, T, x, 0)
    <3> HIDE DEF f
    <3> QED BY <2>1 DEF Iterates
  <2> QED BY <1>3, <1>4, <2>2
<1>5. CASE m # 0
  <2>1. m - 1 \in Nat /\ m - 1 \notin Bad
    BY <1>3, <1>5
  <2>2. PICK f : f \in Iterates(U, T, x, m - 1)
    BY <2>1
  <2>3. Iterates(U, T, x, (m - 1) + 1) # {}
    BY <1>0, <2>1, <2>2, IterationStep
  <2> QED BY <1>3, <2>1, <2>3
<1> QED BY <1>4, <1>5

\* What holds at first and is kept by every step holds throughout.
LEMMA StaysIn ==
    ASSUME NEW n \in Nat, NEW U, NEW f, f[0] \in U,
           \A k \in 1..n : f[k - 1] \in U => f[k] \in U
    PROVE  \A k \in 0..n : f[k] \in U
<1> DEFINE Bad == {k \in 0..n : f[k] \notin U}
<1>1. SUFFICES ASSUME Bad # {} PROVE FALSE
  OBVIOUS
<1>2. PICK k \in Bad : \A j \in Bad : k <= j
  <2> HIDE DEF Bad
  <2>1. Bad \subseteq Nat
    BY DEF Bad
  <2> QED BY <1>1, <2>1, LeastNat
<1>3. k # 0 /\ k \in 1..n
  BY <1>2
<1>4. k - 1 \in 0..n /\ k - 1 \notin Bad
  BY <1>2, <1>3
<1> QED BY <1>2, <1>3, <1>4

-----------------------------------------------------------------------------
(* Running totals: what a recursive function that adds up computes. *)

Totals(c, n) ==
    {f \in [0..n -> Nat] : f = [i \in 0..n |-> IF i = 0 THEN 0 ELSE f[i - 1] + c[i]]}

LEMMA TotalsStep ==
    ASSUME NEW c, NEW n \in Nat, c[n + 1] \in Nat, NEW f \in Totals(c, n)
    PROVE  Totals(c, n + 1) # {}
<1> DEFINE g == [i \in 0..(n + 1) |-> IF i <= n THEN f[i] ELSE f[n] + c[n + 1]]
<1>1. /\ f \in [0..n -> Nat]
      /\ \A i \in 0..n : f[i] = IF i = 0 THEN 0 ELSE f[i - 1] + c[i]
  BY DEF Totals
<1>2. g \in [0..(n + 1) -> Nat]
  BY <1>1
<1>3. ASSUME NEW i \in 0..(n + 1) PROVE g[i] = IF i = 0 THEN 0 ELSE g[i - 1] + c[i]
  <2>1. CASE i <= n
    BY <1>1, <2>1
  <2>2. CASE i = n + 1
    BY <1>1, <2>2
  <2> QED BY <2>1, <2>2
<1>4. g = [i \in 0..(n + 1) |-> IF i = 0 THEN 0 ELSE g[i - 1] + c[i]]
  <2> HIDE DEF g
  <2> QED BY <1>2, <1>3
<1>5. g \in Totals(c, n + 1)
  <2> HIDE DEF g
  <2> QED BY <1>2, <1>4 DEF Totals
<1> QED BY <1>5

\* The terms 1..n have running totals.
LEMMA RunningTotals ==
    ASSUME NEW n \in Nat, NEW c, \A i \in 1..n : c[i] \in Nat
    PROVE  Totals(c, n) # {}
<1> DEFINE Bad == {m \in 0..n : Totals(c, m) = {}}
<1>1. SUFFICES ASSUME Bad # {} PROVE FALSE
  OBVIOUS
<1>2. PICK m \in Bad : \A y \in Bad : m <= y
  <2> HIDE DEF Bad
  <2>1. Bad \subseteq Nat
    BY DEF Bad
  <2> QED BY <1>1, <2>1, LeastNat
<1>3. CASE m = 0
  <2> DEFINE f == [i \in 0..0 |-> 0]
  <2>1. f \in [0..0 -> Nat] /\ f = [i \in 0..0 |-> IF i = 0 THEN 0 ELSE f[i - 1] + c[i]]
    OBVIOUS
  <2>2. f \in Totals(c, 0)
    <3> HIDE DEF f
    <3> QED BY <2>1 DEF Totals
  <2> QED BY <1>2, <1>3, <2>2
<1>4. CASE m # 0
  <2>1. m - 1 \in Nat /\ m - 1 \notin Bad /\ m - 1 \in 0..n /\ m \in 1..n
    BY <1>2, <1>4
  <2>2. PICK f : f \in Totals(c, m - 1)
    BY <2>1
  <2>3. (m - 1) + 1 = m /\ c[m] \in Nat
    BY <2>1
  <2>4. Totals(c, (m - 1) + 1) # {}
    BY <2>1, <2>2, <2>3, TotalsStep
  <2> QED BY <1>2, <2>3, <2>4
<1> QED BY <1>3, <1>4

\* Where nothing is added the total stays.
LEMMA TotalKept ==
    ASSUME NEW f, NEW a \in Nat, NEW b \in Nat, a <= b,
           \A i \in (a + 1)..b : f[i] = f[i - 1]
    PROVE  f[a] = f[b]
<1> DEFINE Bad == {i \in a..b : f[i] # f[a]}
<1>1. SUFFICES ASSUME Bad # {} PROVE FALSE
  OBVIOUS
<1>2. PICK m \in Bad : \A y \in Bad : m <= y
  <2> HIDE DEF Bad
  <2>1. Bad \subseteq Nat
    BY DEF Bad
  <2> QED BY <1>1, <2>1, LeastNat
<1>3. m # a /\ m \in (a + 1)..b /\ m - 1 \in a..b
  BY <1>2
<1>4. m - 1 \notin Bad
  BY <1>2, <1>3
<1> QED BY <1>2, <1>3, <1>4
=============================================================================
