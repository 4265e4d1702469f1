---------------------------- MODULE NumberLemmas ----------------------------
(***************************************************************************)
(* Facts about numbers that the proofs of more than one component need:    *)
(* least elements, which stand for induction, and remainders, by which an  *)
(* int that wraps is modelled.                                             *)
(***************************************************************************)
EXTENDS Integers, WellFoundedInduction, TLAPS

\* A set of natural numbers has a least element.
LEMMA LeastElement ==
  ASSUME NEW T \in SUBSET Nat, T # {}
  PROVE  \E x \in T : \A y \in T : x <= y
<1>. DEFINE R == OpToRel(<, Nat)
<1>1. IsWellFoundedOn(R, Nat)
  BY NatLessThanWellFounded
<1>2. \A x, y \in Nat : x < y => <<x, y>> \in R
  BY DEF OpToRel
<1>. HIDE DEF R
<1>3. PICK x \in T : \A y \in T : ~(<<y, x>> \in R)
  BY <1>1, WFMin
<1>4. ASSUME NEW y \in T PROVE x <= y
  <2>1. x \in Nat /\ y \in Nat
    OBVIOUS
  <2>2. ~(y < x)
    BY <1>2, <1>3, <2>1
  <2>. QED  BY <2>1, <2>2
<1>. QED  BY <1>4

\* A number is its quotient and its remainder.
LEMMA Division ==
  ASSUME NEW m \in Nat \ {0}, NEW a \in Int
  PROVE  /\ a % m \in 0 .. m-1 /\ a \div m \in Int
         /\ a = m * (a \div m) + (a % m)
OBVIOUS

\* A positive multiple of m is not below m.
LEMMA MultipleAbove ==
  ASSUME NEW m \in Nat \ {0}, NEW k \in Int, k >= 1
  PROVE  m * k >= m
OBVIOUS

\* A number has one remainder.
LEMMA RemainderUnique ==
  ASSUME NEW m \in Nat \ {0}, NEW q1 \in Int, NEW q2 \in Int,
         NEW r1 \in 0 .. m-1, NEW r2 \in 0 .. m-1, m * q1 + r1 = m * q2 + r2
  PROVE  r1 = r2
<1>. DEFINE d == q1 - q2
            e == q2 - q1
<1>1. m * d = r2 - r1 /\ m * e = r1 - r2
  OBVIOUS
<1>2. ~(d >= 1)
  BY <1>1, MultipleAbove
<1>3. ~(e >= 1)
  BY <1>1, MultipleAbove
<1>4. q1 = q2
  BY <1>2, <1>3
<1>. QED  BY <1>4

\* The remainder of a number less than m, and of that number and a multiple of m.
LEMMA RemainderOfSmall ==
  ASSUME NEW m \in Nat \ {0}, NEW r \in 0 .. m-1, NEW q \in Int
  PROVE  r % m = r /\ (m * q + r) % m = r
<1>. DEFINE a == m * q + r
            u == a % m
            p == a \div m
            v == r % m
            s == r \div m
<1>1. a \in Int
  OBVIOUS
<1>. HIDE DEF a
<1>2. u \in 0 .. m-1 /\ p \in Int /\ a = m * p + u
  BY <1>1, Division
<1>3. v \in 0 .. m-1 /\ s \in Int /\ r = m * s + v
  BY Division
<1>. HIDE DEF u, p, v, s
<1>4. u = r
  <2>1. m * p + u = m * q + r
    BY <1>2 DEF a
  <2>. QED  BY <1>2, <2>1, RemainderUnique
<1>5. v = r
  <2>1. m * s + v = m * 0 + r
    BY <1>3
  <2>. QED  BY <1>3, <2>1, RemainderUnique
<1>. QED  BY <1>4, <1>5 DEF a, u, v

\* Adding to the remainder or to the number makes no difference to the remainder.
LEMMA RemainderOfSum ==
  ASSUME NEW m \in Nat \ {0}, NEW a \in Int, NEW b \in Int
  PROVE  ((a % m) + b) % m = (a + b) % m
<1>. DEFINE c == a % m
            p == a \div m
            q == (c + b) \div m
            r == (a + b) \div m
            u == (c + b) % m
            v == (a + b) % m
<1>1. c \in 0 .. m-1 /\ a = m * p + c /\ p \in Int
  BY Division
<1>2. c + b \in Int /\ a + b \in Int
  BY <1>1
<1>. HIDE DEF c, p
<1>3. u \in 0 .. m-1 /\ q \in Int /\ c + b = m * q + u
  BY <1>2, Division
<1>4. v \in 0 .. m-1 /\ r \in Int /\ a + b = m * r + v
  BY <1>2, Division
<1>. HIDE DEF q, r, u, v
<1>5. m * (q + p) + u = m * r + v /\ q + p \in Int
  BY <1>1, <1>3, <1>4
<1>6. u = v
  BY <1>3, <1>4, <1>5, RemainderUnique
<1>. QED  BY <1>6 DEF c, u, v
=============================================================================
