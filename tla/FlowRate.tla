------------------------------ MODULE FlowRate ------------------------------
(***************************************************************************)
(* The rate of a payout stream and the budget that is recorded with it     *)
(* (on_payment_received, orchestrator/economics.py), in wei per second and *)
(* wei, from what the payer pays and how long the inference is estimated   *)
(* to take.                                                                *)
(***************************************************************************)
EXTENDS Integers, TLAPS

RateFloor == 1000000000

\* A float is a numerator over a positive denominator.
Floats == Int \X (Nat \ {0})

\* int() drops the fraction of the estimate.
Duration(e) == IF e[1] \div e[2] < 1 THEN 1 ELSE e[1] \div e[2]

Rate(amount, e) ==
  IF amount \div Duration(e) < RateFloor THEN RateFloor ELSE amount \div Duration(e)

\* A rate below the floor raises the budget with it.
Budget(amount, e) ==
  IF amount \div Duration(e) < RateFloor THEN RateFloor * Duration(e) ELSE amount

-----------------------------------------------------------------------------

\* The quotient of the integer division, with the remainder it leaves.
LEMMA FlooredQuotient ==
  ASSUME NEW a \in Nat, NEW d \in Nat \ {0}
  PROVE  /\ a \div d \in Nat
         /\ (a \div d) * d <= a
         /\ a < (a \div d) * d + d
BY Z3

\* The whole seconds of an estimate: at least one, and less than one is lost.
LEMMA WholeSeconds ==
  ASSUME NEW e \in Floats
  PROVE  /\ Duration(e) \in Nat \ {0}
         /\ e[1] < (Duration(e) + 1) * e[2]
PROOF
  <1> DEFINE q == e[1] \div e[2]
  <1>1. e[1] \in Int /\ e[2] \in Nat \ {0}
    BY DEF Floats
  <1>2. CASE e[1] \in Nat
    <2>1. q \in Nat /\ q * e[2] <= e[1] /\ e[1] < q * e[2] + e[2]
      BY <1>1, <1>2, FlooredQuotient
    <2>2. Duration(e) = IF q < 1 THEN 1 ELSE q
      BY DEF Duration
    <2> HIDE DEF q
    <2>3. (q + 1) * e[2] = q * e[2] + e[2]
      BY <2>1, <1>1
    <2>4. CASE q < 1
      <3>1. q = 0 /\ Duration(e) = 1
        BY <2>1, <2>2, <2>4
      <3>2. e[1] < e[2] /\ e[2] < (1 + 1) * e[2]
        BY <3>1, <2>1, <1>1
      <3> QED
        BY <3>1, <3>2, <1>1
    <2>5. CASE q >= 1
      BY <2>1, <2>2, <2>3, <2>5
    <2> QED
      BY <2>1, <2>4, <2>5
  <1>3. CASE e[1] < 0
    <2>1. q < 1 /\ q \in Int
      BY <1>1, <1>3, Z3
    <2>2. Duration(e) = 1
      BY <2>1 DEF Duration
    <2> QED
      BY <2>2, <1>1, <1>3
  <1> QED
    BY <1>1, <1>2, <1>3

\* "The on-chain stream stays consistent (rate * duration ~= budget)"
\* (on_payment_received), for any payment and any estimate e: over the whole
\* seconds of e the stream does not outrun its budget and leaves less than one
\* wei per second of it; over e itself, whose fraction int() drops, it may
\* outrun the budget, by less than what flows in one second; the rate is at
\* least the floor and the budget at least what was paid.
THEOREM RateFitsBudget ==
  ASSUME NEW amount \in Nat, NEW e \in Floats
  PROVE  LET d == Duration(e)
             r == Rate(amount, e)
             b == Budget(amount, e)
         IN  /\ r * d <= b
             /\ b < r * d + d
             /\ r * e[1] < (b + r) * e[2]
             /\ r >= RateFloor
             /\ b >= amount
PROOF
  <1> DEFINE d == Duration(e)
             r == Rate(amount, e)
             b == Budget(amount, e)
             q == amount \div d
  <1>1. d \in Nat \ {0} /\ e[1] < (d + 1) * e[2]
    BY WholeSeconds
  <1>2. q \in Nat /\ q * d <= amount /\ amount < q * d + d
    BY <1>1, FlooredQuotient
  <1>3. r \in Nat /\ b \in Nat /\ r * d <= b /\ b < r * d + d /\ r >= RateFloor /\ b >= amount
    <2>1. CASE q < RateFloor
      <3>1. r = RateFloor /\ b = RateFloor * d
        BY <2>1 DEF Rate, Budget
      <3>2. RateFloor \in Nat
        BY DEF RateFloor
      <3> HIDE DEF d, q, r, b
      <3>3. q + 1 <= RateFloor
        BY <1>2, <2>1, <3>2
      <3>4. (q + 1) * d <= RateFloor * d
        BY <3>3, <3>2, <1>1, <1>2
      <3>5. (q + 1) * d = q * d + d
        BY <1>1, <1>2
      <3>6. RateFloor * d \in Nat /\ q * d \in Nat
        BY <1>1, <1>2, <3>2
      <3>7. RateFloor * d < RateFloor * d + d
        BY <3>6, <1>1
      <3>8. amount <= RateFloor * d
        BY <3>4, <3>5, <3>6, <1>1, <1>2
      <3> QED
        BY <3>1, <3>2, <3>6, <3>7, <3>8
    <2>2. CASE ~(q < RateFloor)
      <3>1. r = q /\ b = amount
        BY <2>2 DEF Rate, Budget
      <3>2. q >= RateFloor
        BY <1>2, <2>2 DEF RateFloor
      <3> QED
        BY <3>1, <3>2, <1>2
    <2> QED
      BY <2>1, <2>2
  <1>4. r * e[1] < (b + r) * e[2]
    <2>1. r > 0
      BY <1>3 DEF RateFloor
    <2>2. e[1] \in Int /\ e[2] \in Nat \ {0}
      BY DEF Floats
    <2> HIDE DEF d, r, b, q
    <2>3. (d + 1) * e[2] \in Int /\ r * e[1] \in Int
      BY <1>1, <1>3, <2>2
    <2>4. r * e[1] < r * ((d + 1) * e[2])
      BY <1>1, <1>3, <2>1, <2>2, <2>3
    <2>5. r * ((d + 1) * e[2]) = (r * d + r) * e[2]
      BY <1>1, <1>3, <2>2, Z3
    <2>6. r * d + r <= b + r /\ r * d + r \in Nat /\ b + r \in Nat
      BY <1>1, <1>3
    <2>7. (r * d + r) * e[2] <= (b + r) * e[2]
      BY <2>6, <2>2
    <2>8. (r * d + r) * e[2] \in Int /\ (b + r) * e[2] \in Int
      BY <2>6, <2>2
    <2> QED
      BY <2>3, <2>4, <2>5, <2>7, <2>8
  <1> QED
    BY <1>3, <1>4
=============================================================================
