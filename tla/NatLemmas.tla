----------------------------- MODULE NatLemmas -----------------------------
(***************************************************************************)
(* Largest and smallest elements of sets of natural numbers, which the     *)
(* provers have no theory of, and remainders: used by the proofs about     *)
(* packet numbers, the watermarks of the flow controllers, the qps of the  *)
(* RCU lock and the ring buffer.                                           *)
(***************************************************************************)
EXTENDS Integers, NaturalsInduction, WellFoundedInduction, TLAPS

\* The order of the natural numbers as a well-founded relation.
LEMMA NatOrder ==
    \E R : IsWellFoundedOn(R, Nat) /\ \A m, n \in Nat : m < n => <<m, n>> \in R
<1>1. IsWellFoundedOn(OpToRel(<, Nat), Nat)
  BY NatLessThanWellFounded
<1>2. \A m, n \in Nat : m < n => <<m, n>> \in OpToRel(<, Nat)
  BY DEF OpToRel
<1> WITNESS OpToRel(<, Nat)
<1> QED BY <1>1, <1>2

\* A nonempty set of natural numbers has a least element.
LEMMA NatMin ==
    ASSUME NEW S \in SUBSET Nat, S # {}
    PROVE  \E n \in S : \A m \in S : n <= m
<1>1. PICK R : IsWellFoundedOn(R, Nat) /\ \A m, n \in Nat : m < n => <<m, n>> \in R
  BY NatOrder
<1>2. PICK n \in S : \A m \in S : ~(<<m, n>> \in R)
  <2>1. IsWellFoundedOn(R, Nat)
    BY <1>1
  <2>2. S \subseteq Nat /\ S # {}
    OBVIOUS
  <2>3. \E n \in S : \A m \in S : ~(<<m, n>> \in R)
    BY ONLY <2>1, <2>2, WFMin, Zenon
  <2> QED BY <2>3
<1>3. \A m \in S : ~(m < n)
  BY <1>1, <1>2
<1>4. \A m \in S : n <= m
  BY <1>3
<1> QED BY <1>4

\* A nonempty bounded set of natural numbers has a largest element.
LEMMA NatMax ==
    ASSUME NEW S \in SUBSET Nat, S # {}, NEW k \in Nat, \A n \in S : n <= k
    PROVE  \E n \in S : \A m \in S : m <= n
<1> DEFINE T == {k - n : n \in S}
<1>1. T \in SUBSET Nat
  BY SMT
<1>2. T # {}
  OBVIOUS
<1>3. PICK t \in T : \A u \in T : t <= u
  BY <1>1, <1>2, NatMin
<1>4. PICK n \in S : t = k - n
  OBVIOUS
<1>5. \A m \in S : m <= n
  <2> TAKE m \in S
  <2>1. k - m \in T
    OBVIOUS
  <2> QED BY <1>3, <1>4, <2>1
<1> QED BY <1>5

\* Division with remainder.
LEMMA DivMod ==
    ASSUME NEW a \in Nat, NEW g \in Nat \ {0}
    PROVE  /\ a \div g \in Nat
           /\ a % g \in 0 .. g - 1
           /\ a = g * (a \div g) + (a % g)
  BY Z3

\* Quotient and remainder are unique.
LEMMA DivModUnique ==
    ASSUME NEW g \in Nat \ {0}, NEW p \in Nat, NEW q \in Nat,
           NEW r \in 0 .. g - 1, NEW s \in 0 .. g - 1, g * p + r = g * q + s
    PROVE  p = q /\ r = s
<1>1. ASSUME NEW x \in Nat, NEW y \in Nat, NEW i \in 0 .. g - 1, NEW j \in 0 .. g - 1,
             x + 1 =< y, g * x + i = g * y + j
      PROVE  FALSE
  <2>1. g * (x + 1) =< g * y
    BY <1>1, Z3
  <2>2. g * (x + 1) = g * x + g
    BY Z3
  <2> QED
    BY <1>1, <2>1, <2>2, Z3
<1>2. p = q
  BY <1>1, Z3
<1> QED
  BY <1>2, Z3

\* Two numbers of the same remainder are not close to each other.
LEMMA ModDistinct ==
    ASSUME NEW g \in Nat \ {0}, NEW a \in Nat, NEW b \in Nat,
           a % g = b % g, a < b, b < a + g
    PROVE  FALSE
<1>1. PICK p \in Nat : a = g * p + (a % g)
  BY DivMod
<1>2. PICK q \in Nat : b = g * q + (b % g)
  BY DivMod
<1>3. PICK r \in 0 .. g - 1 : r = a % g
  BY DivMod
<1>4. g * q - g * p > 0 /\ g * q - g * p < g
  BY <1>1, <1>2, Z3
<1>5. CASE p >= q
  BY <1>4, <1>5, Z3
<1>6. CASE p + 1 =< q
  <2>1. g * (p + 1) =< g * q
    BY <1>6, Z3
  <2>2. g * (p + 1) = g * p + g
    BY Z3
  <2> QED BY <1>4, <2>1, <2>2, Z3
<1> QED BY <1>5, <1>6
=============================================================================
