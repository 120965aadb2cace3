------------------------------ MODULE Remainders -----------------------------
(***************************************************************************)
(* Remainders, by which rings of memory are addressed and the blocks of a  *)
(* file are numbered.                                                      *)
(***************************************************************************)
EXTENDS Integers, TLAPS

\* The remainder is what the whole rounds leave.
LEMMA RemainderIs ==
  ASSUME NEW m \in Nat, m > 0, NEW q \in Nat, NEW r \in 0..(m - 1)
  PROVE  (m * q + r) % m = r
BY SMTT(30)

\* A number is a whole number of rounds and a remainder.
LEMMA Rounds ==
  ASSUME NEW m \in Nat, m > 0, NEW a \in Nat
  PROVE  a % m \in 0..(m - 1) /\ \E q \in Nat : a = m * q + (a % m)
<1>1. a % m \in 0..(m - 1) /\ a = m * (a \div m) + (a % m) /\ a \div m \in Nat
  BY SMTT(30)
<1> QED BY <1>1

\* Adding a remainder is adding the number.
LEMMA RemainderOfSum ==
  ASSUME NEW m \in Nat, m > 0, NEW a \in Nat, NEW b \in Nat
  PROVE  ((a % m) + b) % m = (a + b) % m
<1>1. a % m \in 0..(m - 1)
  BY Rounds
<1>2. PICK q \in Nat : a = m * q + (a % m)
  BY Rounds
<1> DEFINE c == (a % m) + b
<1>3. c \in Nat
  BY <1>1
<1>4. c % m \in 0..(m - 1)
  BY <1>3, Rounds
<1>5. PICK k \in Nat : c = m * k + (c % m)
  BY <1>3, Rounds
<1> DEFINE r == c % m
           n == q + k
<1>6. n \in Nat /\ r \in 0..(m - 1)
  BY <1>4
<1>7. a + b = m * q + c
  BY <1>1, <1>2
<1>8. m * q \in Nat /\ m * k \in Nat /\ m * n = m * q + m * k
  BY SMTT(30)
<1>9. a + b = m * n + r
  <2> HIDE DEF c, n
  <2> QED BY <1>3, <1>5, <1>6, <1>7, <1>8
<1>10. (m * n + r) % m = r
  <2> HIDE DEF c, n, r
  <2> QED BY <1>6, RemainderIs
<1> QED BY <1>9, <1>10

\* A whole round changes no remainder.
LEMMA RemainderOfRound ==
  ASSUME NEW m \in Nat, m > 0, NEW a \in Nat
  PROVE  (a + m) % m = a % m
<1>1. a % m \in 0..(m - 1)
  BY Rounds
<1>2. PICK q \in Nat : a = m * q + (a % m)
  BY Rounds
<1> DEFINE r == a % m
           n == q + 1
<1>3. n \in Nat /\ r \in 0..(m - 1)
  BY <1>1
<1>4. m * q \in Nat /\ m * n = m * q + m
  BY SMTT(30)
<1>5. a + m = m * n + r
  <2> HIDE DEF n
  <2> QED BY <1>1, <1>2, <1>4
<1>6. (m * n + r) % m = r
  <2> HIDE DEF n, r
  <2> QED BY <1>3, RemainderIs
<1> QED BY <1>5, <1>6

\* Two numbers with one remainder are a round apart, or more.
LEMMA RemainderApart ==
  ASSUME NEW m \in Nat, m > 0, NEW a \in Nat, NEW b \in Nat,
         a % m = b % m, a < b
  PROVE  a + m <= b
<1>1. a % m \in 0..(m - 1)
  BY Rounds
<1>2. PICK q \in Nat : a = m * q + (a % m)
  BY Rounds
<1>3. PICK k \in Nat : b = m * k + (b % m)
  BY Rounds
<1> DEFINE r == a % m
<1>4. r \in Nat /\ a = m * q + r /\ b = m * k + r
  BY <1>1, <1>2, <1>3
<1> HIDE DEF r
<1>5. m * q \in Nat /\ m * k \in Nat
  BY SMTT(30)
<1>6. m * q < m * k
  BY <1>4, <1>5
<1>7. ~(k <= q)
  <2> SUFFICES ASSUME k <= q PROVE FALSE
    OBVIOUS
  <2>1. m * k <= m * q
    BY SMTT(30)
  <2> QED BY <1>5, <1>6, <2>1
<1>8. m * (q + 1) <= m * k
  <2>1. q + 1 <= k /\ q + 1 \in Nat
    BY <1>7
  <2> DEFINE n == q + 1
  <2>2. n \in Nat /\ n <= k
    BY <2>1
  <2> HIDE DEF n
  <2>3. m * n <= m * k
    BY <2>2, SMTT(30)
  <2> QED BY <2>3 DEF n
<1>9. m * (q + 1) = m * q + m
  BY SMTT(30)
<1> QED BY <1>4, <1>5, <1>8, <1>9

\* Counting on, a remainder goes up by one or begins again.
LEMMA NextRemainder ==
  ASSUME NEW m \in Nat, m > 1, NEW k \in Nat
  PROVE  (k + 1) % m = (IF k % m = m - 1 THEN 0 ELSE (k % m) + 1)
<1> DEFINE q == k \div m
           r == k % m
<1>1. r \in 0..(m - 1) /\ k = m * q + r /\ q \in Nat
  BY SMTT(30)
<1> HIDE DEF q
<1>r. r = k % m
  OBVIOUS
<1> HIDE DEF r
<1>2. CASE r # m - 1
  <2>1. r + 1 \in 0..(m - 1) /\ k + 1 = m * q + (r + 1)
    BY <1>1, <1>2
  <2>2. (k + 1) % m = r + 1
    BY <1>1, <2>1, RemainderIs
  <2> QED BY <1>2, <1>r, <2>2
<1>3. CASE r = m - 1
  <2>1. q + 1 \in Nat /\ 0 \in 0..(m - 1)
    BY <1>1
  <2>2. PICK z \in 0..(m - 1) : z = 0
    BY <2>1
  <2> DEFINE p == q + 1
  <2>4. k + 1 = m * p + z
    BY <1>1, <1>3, <2>2
  <2>5. p \in Nat
    BY <2>1
  <2> HIDE DEF p
  <2>6. (m * p + z) % m = z
    BY <2>5, RemainderIs
  <2>3. (k + 1) % m = 0
    BY <2>2, <2>4, <2>6
  <2> QED BY <1>3, <1>r, <2>3
<1> QED BY <1>2, <1>3
=============================================================================
