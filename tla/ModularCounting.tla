-------------------------- MODULE ModularCounting --------------------------
(***************************************************************************)
(* Facts about unsigned numbers: what Inc of Counters does to a sum taken  *)
(* modulo the same number, on which TelemetryDispatcherProofs rests, and   *)
(* what a conversion to an unsigned type does to an integer, for           *)
(* TelemetryJsonProofs and CommandIngestProofs.                            *)
(***************************************************************************)
EXTENDS Counters, TLAPS

LEMMA ProductAbove ==
  ASSUME NEW M \in Int, M > 0, NEW k \in Int, k >= 1
  PROVE  M * k >= M
  OBVIOUS

LEMMA ProductBelow ==
  ASSUME NEW M \in Int, M > 0, NEW k \in Int, k <= -1
  PROVE  M * k <= -M
  OBVIOUS

LEMMA DivisionTheorem ==
  ASSUME NEW a \in Int, NEW M \in Int, M > 0
  PROVE  /\ a = M * (a \div M) + (a % M)
         /\ a % M \in 0 .. M - 1
         /\ a \div M \in Int
  OBVIOUS

(* A number has one remainder. *)
LEMMA RemainderUnique ==
  ASSUME NEW M \in Int, M > 0,
         NEW q1 \in Int, NEW r1 \in 0 .. M - 1,
         NEW q2 \in Int, NEW r2 \in 0 .. M - 1,
         M * q1 + r1 = M * q2 + r2
  PROVE  r1 = r2
  <1>1. M * (q1 - q2) = r2 - r1
    OBVIOUS
  <1>2. CASE q1 - q2 >= 1
    BY <1>1, <1>2, ProductAbove
  <1>3. CASE q1 - q2 <= -1
    BY <1>1, <1>3, ProductBelow
  <1>4. CASE q1 = q2
    BY <1>4
  <1> QED
    BY <1>2, <1>3, <1>4

(* Inc on remainders is +1 on numbers. *)
LEMMA IncOfRemainder ==
  ASSUME NEW a \in Int, NEW M \in Int, M > 0
  PROVE  (a + 1) % M = Inc(a % M, M)
  <1> DEFINE q == a \div M
             r == a % M
             q1 == (a + 1) \div M
             r1 == (a + 1) % M
  <1>1. a = M * q + r /\ r \in 0 .. M - 1 /\ q \in Int
    BY DivisionTheorem
  <1>2. a + 1 = M * q1 + r1 /\ r1 \in 0 .. M - 1 /\ q1 \in Int
    BY DivisionTheorem
  <1> HIDE DEF q, r, q1, r1
  <1>3. CASE r = M - 1
    <2>1. M * (q + 1) + 0 = M * q1 + r1
      BY <1>1, <1>2, <1>3
    <2>2. r1 = 0
      BY <2>1, <1>1, <1>2, RemainderUnique
    <2> QED
      BY <2>2, <1>3 DEF Inc, r, r1
  <1>4. CASE r # M - 1
    <2>1. M * q + (r + 1) = M * q1 + r1 /\ r + 1 \in 0 .. M - 1
      BY <1>1, <1>2, <1>4
    <2>2. r1 = r + 1
      BY <2>1, <1>1, <1>2, RemainderUnique
    <2> QED
      BY <2>2, <1>4 DEF Inc, r, r1
  <1> QED
    BY <1>3, <1>4

LEMMA RemainderOfShift ==
  ASSUME NEW a \in Int, NEW M \in Int, M > 0
  PROVE  (a + M) % M = a % M
  <1> DEFINE q == a \div M
             r == a % M
             q1 == (a + M) \div M
             r1 == (a + M) % M
  <1>1. a = M * q + r /\ r \in 0 .. M - 1 /\ q \in Int
    BY DivisionTheorem
  <1>2. a + M = M * q1 + r1 /\ r1 \in 0 .. M - 1 /\ q1 \in Int
    BY DivisionTheorem
  <1> HIDE DEF q, r, q1, r1
  <1>3. M * (q + 1) + r = M * q1 + r1
    BY <1>1, <1>2
  <1>4. r = r1
    BY <1>1, <1>2, <1>3, RemainderUnique
  <1> QED
    BY <1>4 DEF r, r1

LEMMA IncType ==
  ASSUME NEW M \in Int, M > 0, NEW c \in 0 .. M - 1
  PROVE  Inc(c, M) \in 0 .. M - 1
  BY DEF Inc

(* Counting one more in a wrapping counter adds one, modulo the width, to  *)
(* every sum the counter is part of.                                       *)
LEMMA IncInSum ==
  ASSUME NEW M \in Int, M > 0, NEW c \in 0 .. M - 1, NEW x \in Int
  PROVE  (Inc(c, M) + x) % M = (c + x + 1) % M
  <1>1. CASE c = M - 1
    <2>1. Inc(c, M) + x = x /\ c + x + 1 = x + M
      BY <1>1 DEF Inc
    <2> QED
      BY <2>1, RemainderOfShift
  <1>2. CASE c # M - 1
    <2>1. Inc(c, M) + x = c + x + 1
      BY <1>2 DEF Inc
    <2> QED
      BY <2>1
  <1> QED
    BY <1>1, <1>2

-----------------------------------------------------------------------------
(* A conversion yields a value of the type, and the value itself if the    *)
(* type has it.                                                            *)
LEMMA Remainder ==
  ASSUME NEW w \in Nat \ {0}
  PROVE  /\ \A v \in Int : v % w \in 0 .. w - 1
         /\ \A v \in 0 .. w - 1 : v % w = v
  OBVIOUS

=============================================================================
