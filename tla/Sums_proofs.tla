----------------------------- MODULE Sums_proofs -----------------------------
(***************************************************************************)
(* What SumTo returns, for any number of terms.                            *)
(*                                                                         *)
(* Induction is stated for a set of numbers, rather than for a predicate:  *)
(* a set is something the provers can name.  It follows from the fact that *)
(* the order of the natural numbers is well-founded.                       *)
(***************************************************************************)
EXTENDS Sums, WellFoundedInduction, TLAPS

LEMMA LessIsWellFounded == IsWellFoundedOn({p \in Nat \X Nat : p[1] < p[2]}, Nat)
BY NatLessThanWellFounded DEF OpToRel

\* A set of numbers that holds 0 and with every number the next one holds all.
LEMMA SetInduction ==
  ASSUME NEW S \in SUBSET Nat, 0 \in S, \A n \in S : n + 1 \in S
  PROVE  S = Nat
<1> DEFINE R == {p \in Nat \X Nat : p[1] < p[2]}
           T == Nat \ S
<1> SUFFICES ASSUME T # {} PROVE FALSE
  OBVIOUS
<1>1. PICK x \in T : \A y \in T : <<y, x>> \notin R
  <2>1. IsWellFoundedOn(R, Nat)
    BY LessIsWellFounded
  <2> HIDE DEF R
  <2> QED
    BY <2>1, WFMin
<1>2. x - 1 \in Nat /\ x - 1 \notin S
  BY <1>1
<1>3. <<x - 1, x>> \in R
  BY <1>2
<1> QED
  BY <1>1, <1>2, <1>3
-----------------------------------------------------------------------------
\* g holds the partial sums of f up to n.
Adds(g, n, f) == g = [k \in 0 .. n |-> IF k = 0 THEN 0 ELSE g[k - 1] + f[k]]

LEMMA SumsExist ==
  ASSUME NEW n \in Nat, NEW f
  PROVE  \E g : Adds(g, n, f)
<1> DEFINE G == {m \in Nat : \E g : Adds(g, m, f)}
<1>1. 0 \in G
  <2>1. Adds([k \in 0 .. 0 |-> 0], 0, f)
    BY DEF Adds
  <2> QED
    BY <2>1
<1>2. ASSUME NEW m \in G PROVE m + 1 \in G
  <2>1. PICK g : Adds(g, m, f)
    OBVIOUS
  <2> DEFINE h == [k \in 0 .. m + 1 |-> IF k = m + 1 THEN g[m] + f[m + 1] ELSE g[k]]
  <2>2. h = [k \in 0 .. m + 1 |-> IF k = 0 THEN 0 ELSE h[k - 1] + f[k]]
    <3>1. g[0] = 0 /\ \A j \in 1 .. m : g[j] = g[j - 1] + f[j]
      BY <2>1 DEF Adds
    <3> SUFFICES ASSUME NEW k \in 0 .. m + 1
                 PROVE  h[k] = IF k = 0 THEN 0 ELSE h[k - 1] + f[k]
      OBVIOUS
    <3> QED
      BY <3>1
  <2>3. Adds(h, m + 1, f)
    BY <2>2 DEF Adds
  <2> HIDE DEF h
  <2> QED
    BY <2>3
<1>3. G = Nat
  <2>1. G \in SUBSET Nat
    OBVIOUS
  <2> HIDE DEF G
  <2> QED
    BY <1>1, <1>2, <2>1, SetInduction
<1> QED
  BY <1>3

\* There is only one way to add up.
LEMMA SumsAgree ==
  ASSUME NEW n \in Nat, NEW m \in Nat, n <= m, NEW e, NEW f, \A k \in 1 .. n : e[k] = f[k],
         NEW g, Adds(g, n, e), NEW h, Adds(h, m, f)
  PROVE  \A k \in 0 .. n : g[k] = h[k]
<1> DEFINE K == {k \in Nat : k <= n => g[k] = h[k]}
<1>1. /\ g[0] = 0 /\ \A k \in 1 .. n : g[k] = g[k - 1] + e[k]
      /\ h[0] = 0 /\ \A k \in 1 .. m : h[k] = h[k - 1] + f[k]
  BY DEF Adds
<1>2. 0 \in K
  BY <1>1
<1>3. ASSUME NEW k \in K PROVE k + 1 \in K
  BY <1>1
<1>4. K = Nat
  <2>1. K \in SUBSET Nat
    OBVIOUS
  <2> HIDE DEF K
  <2> QED
    BY <1>2, <1>3, <2>1, SetInduction
<1> QED
  BY <1>4

LEMMA SumIsTheLast ==
  ASSUME NEW n \in Nat, NEW f
  PROVE  \E g : Adds(g, n, f) /\ SumTo(n, f) = g[n]
<1> DEFINE g == CHOOSE s : Adds(s, n, f)
<1>1. Adds(g, n, f)
  BY SumsExist, Zenon
<1>2. SumTo(n, f) = g[n]
  BY Zenon DEF SumTo, Adds
<1> QED
  BY <1>1, <1>2, Zenon
-----------------------------------------------------------------------------
LEMMA SumOfNone ==
  ASSUME NEW f
  PROVE  SumTo(0, f) = 0
<1>1. PICK g : Adds(g, 0, f) /\ SumTo(0, f) = g[0]
  BY SumIsTheLast
<1> QED
  BY <1>1 DEF Adds

\* One more term, whatever the other function holds beyond the n-th.
LEMMA SumOfOneMore ==
  ASSUME NEW n \in Nat, NEW e, NEW f, \A k \in 1 .. n : e[k] = f[k]
  PROVE  SumTo(n + 1, f) = SumTo(n, e) + f[n + 1]
<1>1. PICK g : Adds(g, n, e) /\ SumTo(n, e) = g[n]
  BY SumIsTheLast
<1>2. PICK h : Adds(h, n + 1, f) /\ SumTo(n + 1, f) = h[n + 1]
  <2>1. n + 1 \in Nat
    OBVIOUS
  <2> QED
    BY <2>1, SumIsTheLast
<1>3. \A k \in 0 .. n : g[k] = h[k]
  BY <1>1, <1>2, SumsAgree
<1>4. h[n + 1] = h[n] + f[n + 1]
  BY <1>2 DEF Adds
<1> QED
  BY <1>1, <1>2, <1>3, <1>4

\* A sum depends on its terms only.
LEMMA SumOfTheSame ==
  ASSUME NEW n \in Nat, NEW e, NEW f, \A k \in 1 .. n : e[k] = f[k]
  PROVE  SumTo(n, e) = SumTo(n, f)
<1>1. PICK g : Adds(g, n, e) /\ SumTo(n, e) = g[n]
  BY SumIsTheLast
<1>2. PICK h : Adds(h, n, f) /\ SumTo(n, f) = h[n]
  BY SumIsTheLast
<1>3. \A k \in 0 .. n : g[k] = h[k]
  BY <1>1, <1>2, SumsAgree
<1> QED
  BY <1>1, <1>2, <1>3

LEMMA SumOfNumbers ==
  ASSUME NEW n \in Nat, NEW f, \A k \in 1 .. n : f[k] \in Nat
  PROVE  SumTo(n, f) \in Nat
<1> DEFINE G == {m \in Nat : m <= n => SumTo(m, f) \in Nat}
<1>1. 0 \in G
  BY SumOfNone
<1>2. ASSUME NEW m \in G PROVE m + 1 \in G
  <2>1. SumTo(m + 1, f) = SumTo(m, f) + f[m + 1]
    BY SumOfOneMore
  <2> QED
    BY <2>1
<1>3. G = Nat
  <2>1. G \in SUBSET Nat
    OBVIOUS
  <2> HIDE DEF G
  <2> QED
    BY <1>1, <1>2, <2>1, SetInduction
<1> QED
  BY <1>3

\* Terms that are a times others, but for b at most, make a sum that is a times
\* the other, but for b for each of them.
LEMMA SumsAreNear ==
  ASSUME NEW n \in Nat, NEW a \in Nat, NEW b \in Nat, NEW e, NEW f,
         \A k \in 1 .. n : e[k] \in Nat /\ f[k] \in Nat /\ a * f[k] - e[k] \in -b .. b
  PROVE  a * SumTo(n, f) - SumTo(n, e) \in -(b * n) .. b * n
<1> DEFINE G == {m \in Nat : m <= n =>
                   /\ SumTo(m, e) \in Nat /\ SumTo(m, f) \in Nat
                   /\ a * SumTo(m, f) - SumTo(m, e) \in -(b * m) .. b * m}
<1>1. 0 \in G
  BY SumOfNone
<1>2. ASSUME NEW m \in G PROVE m + 1 \in G
  <2> SUFFICES ASSUME m + 1 <= n
               PROVE  /\ SumTo(m + 1, e) \in Nat /\ SumTo(m + 1, f) \in Nat
                      /\ a * SumTo(m + 1, f) - SumTo(m + 1, e) \in -(b * (m + 1)) .. b * (m + 1)
    OBVIOUS
  <2> DEFINE x == SumTo(m, e)
             y == SumTo(m, f)
             p == e[m + 1]
             q == f[m + 1]
  <2>1. SumTo(m + 1, e) = x + p /\ SumTo(m + 1, f) = y + q
    BY SumOfOneMore
  <2>2. x \in Nat /\ y \in Nat /\ p \in Nat /\ q \in Nat /\ m \in Nat
    OBVIOUS
  <2>3. a * y - x \in -(b * m) .. b * m /\ a * q - p \in -b .. b
    OBVIOUS
  <2> HIDE DEF x, y, p, q
  <2>4. a * (y + q) = a * y + a * q /\ b * (m + 1) = b * m + b
    BY <2>2
  <2>5. a * y \in Int /\ a * q \in Int /\ b * m \in Int
    BY <2>2
  <2> QED
    BY <2>1, <2>2, <2>3, <2>4, <2>5
<1>3. G = Nat
  <2>1. G \in SUBSET Nat
    OBVIOUS
  <2> HIDE DEF G
  <2> QED
    BY <1>1, <1>2, <2>1, SetInduction
<1> QED
  BY <1>3
=============================================================================
