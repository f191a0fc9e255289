--------------------------- MODULE ModularCounter ---------------------------
(* Remainders by any M: what a counter that wraps at M repeats, and when. *)
EXTENDS Integers, TLAPS

\* A natural number is M times its quotient, plus its remainder.
LEMMA DivMod ==
  ASSUME NEW a \in Nat, NEW M \in Nat \ {0}
  PROVE  /\ a \div M \in Nat
         /\ a % M \in 0 .. (M - 1)
         /\ a = M * (a \div M) + (a % M)
OBVIOUS

\* The remainder of such a sum is its last term.
LEMMA ModOfSum ==
  ASSUME NEW M \in Nat \ {0}, NEW q \in Int, NEW r \in 0 .. (M - 1)
  PROVE  ((M * q) + r) % M = r
OBVIOUS

\* The remainder of the successor.
LEMMA ModSuccessor ==
  ASSUME NEW M \in Nat \ {0}, NEW a \in Nat
  PROVE  (a + 1) % M = IF a % M = M - 1 THEN 0 ELSE (a % M) + 1
<1> DEFINE q == a \div M
           r == a % M
<1>1. q \in Nat /\ r \in 0 .. (M - 1) /\ a = (M * q) + r
  BY DivMod
<1>2. CASE r = M - 1
  <2>1. a + 1 = (M * (q + 1)) + 0
    BY <1>1, <1>2
  <2>2. ((M * (q + 1)) + 0) % M = 0
    BY <1>1, ModOfSum
  <2> QED
    BY <1>2, <2>1, <2>2
<1>3. CASE r # M - 1
  <2>1. a + 1 = (M * q) + (r + 1) /\ r + 1 \in 0 .. (M - 1)
    BY <1>1, <1>3
  <2>2. ((M * q) + (r + 1)) % M = r + 1
    BY <1>1, <2>1, ModOfSum
  <2> QED
    BY <1>3, <2>1, <2>2
<1> QED
  BY <1>2, <1>3

\* Two numbers that are less than M apart have different remainders.
LEMMA ModDistinct ==
  ASSUME NEW M \in Nat \ {0}, NEW a \in Nat, NEW b \in Nat,
         a < b, b - a < M
  PROVE  a % M # b % M
<1> SUFFICES ASSUME a % M = b % M
             PROVE  FALSE
  OBVIOUS
<1> DEFINE p == a \div M
           q == b \div M
<1>1. p \in Nat /\ a % M \in 0 .. (M - 1) /\ a = (M * p) + (a % M)
  BY DivMod
<1>2. q \in Nat /\ b % M \in 0 .. (M - 1) /\ b = (M * q) + (b % M)
  BY DivMod
<1>3. (M * q) - (M * p) = b - a
  BY <1>1, <1>2
<1>4. M * (q - p) = b - a
  BY <1>1, <1>2, <1>3
<1>5. q - p > 0
  BY <1>1, <1>2, <1>4
<1>6. M * (q - p) >= M
  BY <1>1, <1>2, <1>5
<1> QED
  BY <1>4, <1>6
=============================================================================
