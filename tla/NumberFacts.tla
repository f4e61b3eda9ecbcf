---------------------------- MODULE NumberFacts ----------------------------
(* Facts about natural numbers that the proofs of several modules use.     *)
EXTENDS Integers, WellFoundedInduction, TLAPS

(* A set of natural numbers has a least element.                           *)
LEMMA LeastExists ==
  ASSUME NEW T, T \subseteq Nat, T # {}
  PROVE  \E x \in T : \A y \in T : x <= y
<1>1. OpToRel(<, Nat) = {ss \in Nat \X Nat : ss[1] < ss[2]}
  BY DEF OpToRel
<1>2. IsWellFoundedOn({ss \in Nat \X Nat : ss[1] < ss[2]}, Nat)
  BY <1>1, NatLessThanWellFounded
<1>3. PICK x \in T : \A y \in T : ~ (<<y, x>> \in {ss \in Nat \X Nat : ss[1] < ss[2]})
  BY <1>2, WFMin
<1>4. \A y \in T : y \in Nat /\ ~ (y < x)
  BY <1>3
<1> QED
  BY <1>4

(* Multiples of one number are in the order of their factors.              *)
LEMMA MultiplesOrdered ==
  ASSUME NEW m \in Nat, NEW n \in Nat, NEW b \in Nat, m <= n
  PROVE  m * b <= n * b
<1>1. n * b = m * b + (n - m) * b
  OBVIOUS
<1>2. (n - m) * b >= 0
  OBVIOUS
<1> QED
  BY <1>1, <1>2

(* A quotient is what lies between two multiples.                          *)
LEMMA QuotientBounds ==
  ASSUME NEW n \in Nat, NEW b \in Nat \ {0}
  PROVE  /\ n \div b \in Nat
         /\ (n \div b) * b <= n
         /\ n < (n \div b) * b + b
OBVIOUS

LEMMA QuotientUnique ==
  ASSUME NEW n \in Nat, NEW b \in Nat \ {0}, NEW q \in Nat, q * b <= n, n < q * b + b
  PROVE  n \div b = q
<1> DEFINE d == n \div b
<1>1. d \in Nat /\ d * b <= n /\ n < d * b + b
  BY QuotientBounds
<1>2. (d + 1) * b = d * b + b /\ (q + 1) * b = q * b + b
  BY <1>1
<1> HIDE DEF d
<1>3. ~ (d + 1 <= q)
  BY <1>1, <1>2, MultiplesOrdered
<1>4. ~ (q + 1 <= d)
  BY <1>1, <1>2, MultiplesOrdered
<1> QED
  BY <1>1, <1>3, <1>4 DEF d

=============================================================================
