------------------------- MODULE ScalingCurveProofs -------------------------
(***************************************************************************)
(* What ScalingProofs shows of one call of GetOutput, for every metric     *)
(* that is served: valueFor may force all the workers, and a queue changes *)
(* from one poll to the next.  MetricServed, which derives the length of   *)
(* the queue from labels and selectors, implements ScalingCurve, so what   *)
(* is shown here of ScalingCurve holds of it.                              *)
(*                                                                         *)
(* The theorems are about runners the curve was meant for (Proper): no     *)
(* more runners at least than at most, room for one, and a scale factor    *)
(* that is not negative.  That its powers of e decay is proved, by         *)
(* induction over the recursive table Power.                               *)
(***************************************************************************)
EXTENDS MetricServed, ScalingProofs, WellFoundedInduction, FiniteSetTheorems, TLAPS

-----------------------------------------------------------------------------
(* Induction, as the least counterexample. *)

\* The smaller of two numbers, as a relation.
Less == {pair \in Nat \X Nat : pair[1] < pair[2]}

LEMMA LeastElement ==
  ASSUME NEW S \in SUBSET Nat, S # {}
  PROVE  \E m \in S : \A k \in S : m <= k
<1>1. Less = OpToRel(<, Nat)
  BY DEF Less, OpToRel
<1>2. IsWellFoundedOn(Less, Nat)
  BY <1>1, NatLessThanWellFounded
<1>3. PICK m \in S : \A k \in S : <<k, m>> \notin Less
  BY <1>2, WFMin
<1>4. ASSUME NEW k \in S PROVE m <= k
  <2>1. k \in Nat /\ m \in Nat /\ <<k, m>> \notin Less
    BY <1>3
  <2>2. ~(<<k, m>>[1] < <<k, m>>[2])
    BY <2>1 DEF Less
  <2>. QED BY <2>1, <2>2
<1>. QED BY <1>4

-----------------------------------------------------------------------------
(***************************************************************************)
(* Power is a function that is defined by recursion: that there is one has *)
(* to be shown.  It is put together of its beginnings.                     *)
(***************************************************************************)

\* The body of Power.
PowerBy(p, n) ==
  IF n = 0 THEN 100000
  ELSE IF n < 4 THEN (p[n - 1] * 7788 + 9999) \div 10000
  ELSE IF n < 16 THEN (p[n - 4] * 3679 + 9999) \div 10000
  ELSE (p[n - 16] * 18316 + 999999) \div 1000000

\* p is Power as far as m.
Upto(p, m) == p \in [0..m -> Nat] /\ \A n \in 0..m : p[n] = PowerBy(p, n)

LEMMA PowerByType ==
  ASSUME NEW m \in Nat, NEW p \in [0..m -> Nat], NEW n \in 0..(m + 1)
  PROVE  PowerBy(p, n) \in Nat
<1>1. n \in Nat /\ (n < 4 /\ n > 0 => n - 1 \in 0..m) /\ (n >= 4 => n - 4 \in 0..m) /\ (n >= 16 => n - 16 \in 0..m)
  OBVIOUS
<1>2. \A x \in Nat : (x * 7788 + 9999) \div 10000 \in Nat
  OBVIOUS
<1>3. \A x \in Nat : (x * 3679 + 9999) \div 10000 \in Nat
  OBVIOUS
<1>4. \A x \in Nat : (x * 18316 + 999999) \div 1000000 \in Nat
  OBVIOUS
<1>. QED BY <1>1, <1>2, <1>3, <1>4 DEF PowerBy

\* A power depends on smaller ones only.
LEMMA PowerByLocal ==
  ASSUME NEW p, NEW q, NEW n \in Nat, \A k \in 0..(n - 1) : p[k] = q[k]
  PROVE  PowerBy(p, n) = PowerBy(q, n)
<1>1. /\ n > 0 => p[n - 1] = q[n - 1]
      /\ n >= 4 => p[n - 4] = q[n - 4]
      /\ n >= 16 => p[n - 16] = q[n - 16]
  <2>1. /\ n > 0 => n - 1 \in 0..(n - 1)
        /\ n >= 4 => n - 4 \in 0..(n - 1)
        /\ n >= 16 => n - 16 \in 0..(n - 1)
    OBVIOUS
  <2>. QED BY <2>1
<1>. QED BY <1>1 DEF PowerBy

LEMMA UptoExists ==
  ASSUME NEW m \in Nat
  PROVE  \E p : Upto(p, m)
<1>. DEFINE Without == {n \in Nat : ~ \E p : Upto(p, n)}
<1>. SUFFICES ASSUME Without # {} PROVE FALSE
  OBVIOUS
<1>1. PICK n \in Without : \A k \in Without : n <= k
  BY LeastElement
<1>2. CASE n = 0
  <2>. DEFINE first == [k \in 0..0 |-> 100000]
  <2>1. Upto(first, 0)
    BY DEF Upto, PowerBy
  <2>. HIDE DEF first
  <2>. QED BY <1>1, <1>2, <2>1
<1>3. CASE n # 0
  <2>1. n \in Nat /\ n - 1 \in Nat /\ n - 1 \notin Without
    BY <1>1, <1>3
  <2>2. PICK p : Upto(p, n - 1)
    BY <2>1
  <2>. DEFINE longer == [k \in 0..n |-> IF k < n THEN p[k] ELSE PowerBy(p, n)]
  <2>3. PowerBy(p, n) \in Nat
    <3>1. p \in [0..(n - 1) -> Nat] /\ n \in 0..((n - 1) + 1)
      BY <2>1, <2>2 DEF Upto
    <3>. QED BY <2>1, <3>1, PowerByType
  <2>4. longer \in [0..n -> Nat]
    BY <2>1, <2>2, <2>3 DEF Upto
  <2>5. ASSUME NEW k \in 0..n PROVE longer[k] = PowerBy(longer, k)
    <3>1. \A i \in 0..(k - 1) : p[i] = longer[i]
      BY <2>1
    <3>2. PowerBy(p, k) = PowerBy(longer, k)
      <4>. HIDE DEF longer
      <4>. QED BY <2>1, <3>1, PowerByLocal
    <3>3. longer[k] = PowerBy(p, k)
      BY <2>1, <2>2 DEF Upto
    <3>. QED BY <3>2, <3>3
  <2>. HIDE DEF longer
  <2>6. Upto(longer, n)
    BY <2>4, <2>5 DEF Upto
  <2>. QED BY <1>1, <2>6
<1>. QED BY <1>2, <1>3

LEMMA UptoUnique ==
  ASSUME NEW m \in Nat, NEW n \in 0..m, NEW p, NEW q, Upto(p, m), Upto(q, n)
  PROVE  p[n] = q[n]
<1>. DEFINE Apart == {k \in 0..n : p[k] # q[k]}
<1>. SUFFICES ASSUME Apart # {} PROVE FALSE
  OBVIOUS
<1>1. Apart \in SUBSET Nat
  OBVIOUS
<1>2. PICK k \in Apart : \A i \in Apart : k <= i
  BY <1>1, LeastElement
<1>3. k \in Nat /\ k \in 0..n /\ k \in 0..m /\ p[k] # q[k]
  BY <1>2
<1>4. \A i \in 0..(k - 1) : p[i] = q[i]
  BY <1>2, <1>3
<1>5. PowerBy(p, k) = PowerBy(q, k)
  BY <1>3, <1>4, PowerByLocal
<1>. QED BY <1>3, <1>5 DEF Upto

\* The function exists and is what its definition says.
LEMMA PowerIs ==
  /\ Power \in [Nat -> Nat]
  /\ \A n \in Nat : Power[n] = PowerBy(Power, n)
<1>. DEFINE at(n) == CHOOSE p : Upto(p, n)
            all == [n \in Nat |-> at(n)[n]]
            Fixed(p) == p = [n \in Nat |-> PowerBy(p, n)]
<1>1. ASSUME NEW n \in Nat PROVE Upto(at(n), n)
  BY UptoExists, Zenon
<1>. HIDE DEF at
<1>2. ASSUME NEW n \in Nat PROVE all[n] = PowerBy(all, n) /\ all[n] \in Nat
  <2>1. n \in 0..n
    OBVIOUS
  <2>2. all[n] = at(n)[n] /\ all[n] = PowerBy(at(n), n) /\ all[n] \in Nat
    BY <1>1, <2>1 DEF Upto
  <2>3. ASSUME NEW k \in 0..(n - 1) PROVE at(n)[k] = all[k]
    <3>1. k \in Nat /\ k \in 0..n
      OBVIOUS
    <3>2. Upto(at(n), n) /\ Upto(at(k), k)
      BY <1>1, <3>1
    <3>. QED BY <3>1, <3>2, UptoUnique
  <2>4. PowerBy(at(n), n) = PowerBy(all, n)
    <3>. HIDE DEF all
    <3>. QED BY <2>3, PowerByLocal
  <2>. QED BY <2>2, <2>4
<1>3. Fixed(all)
  BY <1>2
<1>4. Power = CHOOSE p : Fixed(p)
  BY DEF Power, PowerBy
<1>. HIDE DEF Fixed, all
<1>5. Fixed(CHOOSE p : Fixed(p))
  BY <1>3, Zenon
<1>6. Fixed(Power)
  BY <1>4, <1>5
<1>7. ASSUME NEW n \in Nat PROVE Power[n] = PowerBy(Power, n)
  BY <1>6 DEF Fixed
<1>8. \A n \in Nat : Power[n] \in Nat
  <2>. DEFINE Odd == {n \in Nat : Power[n] \notin Nat}
  <2>. SUFFICES ASSUME Odd # {} PROVE FALSE
    OBVIOUS
  <2>1. PICK n \in Odd : \A k \in Odd : n <= k
    BY LeastElement
  <2>2. n \in Nat /\ \A k \in 0..(n - 1) : Power[k] \in Nat
    BY <2>1
  <2>. DEFINE before == [k \in 0..n |-> IF k < n THEN Power[k] ELSE 0]
  <2>3. before \in [0..n -> Nat] /\ \A k \in 0..(n - 1) : before[k] = Power[k]
    BY <2>2
  <2>. HIDE DEF before
  <2>4. PowerBy(before, n) \in Nat /\ PowerBy(before, n) = PowerBy(Power, n)
    BY <2>2, <2>3, PowerByType, PowerByLocal
  <2>. QED BY <1>7, <2>1, <2>4
<1>9. Power = [n \in Nat |-> Power[n]]
  BY <1>6 DEF Fixed
<1>. QED BY <1>7, <1>8, <1>9

LEMMA PowerAt ==
  ASSUME NEW n \in Nat
  PROVE  /\ n \in 1..3 => Power[n] = (Power[n - 1] * 7788 + 9999) \div 10000
         /\ n \in 4..15 => Power[n] = (Power[n - 4] * 3679 + 9999) \div 10000
         /\ n >= 16 => Power[n] = (Power[n - 16] * 18316 + 999999) \div 1000000
<1>1. Power[n] = PowerBy(Power, n)
  BY PowerIs
<1>. QED BY <1>1 DEF PowerBy

LEMMA PowerTable ==
  /\ Power[0] = 100000 /\ Power[1] = 77880 /\ Power[2] = 60653 /\ Power[3] = 47237
  /\ Power[4] = 36790 /\ Power[5] = 28653 /\ Power[6] = 22315 /\ Power[7] = 17379
  /\ Power[8] = 13536 /\ Power[9] = 10542 /\ Power[10] = 8210 /\ Power[11] = 6394
  /\ Power[12] = 4980 /\ Power[13] = 3879 /\ Power[14] = 3021 /\ Power[15] = 2353
  /\ Power[16] = 1832 /\ Power[17] = 1427 /\ Power[18] = 1111 /\ Power[19] = 866
  /\ Power[20] = 674 /\ Power[21] = 525 /\ Power[22] = 409 /\ Power[23] = 319
  /\ Power[24] = 248 /\ Power[25] = 194 /\ Power[26] = 151 /\ Power[27] = 118
  /\ Power[28] = 92 /\ Power[29] = 72 /\ Power[30] = 56 /\ Power[31] = 44
  /\ Power[32] = 34 /\ Power[33] = 27 /\ Power[34] = 21 /\ Power[35] = 16
  /\ Power[36] = 13 /\ Power[37] = 10 /\ Power[38] = 8 /\ Power[39] = 6 /\ Power[40] = 5
<1>1. Power[0] = 100000 /\ Power[1] = 77880 /\ Power[2] = 60653 /\ Power[3] = 47237
  <2>1. /\ Power[0] = PowerBy(Power, 0)
        /\ Power[1] = (Power[0] * 7788 + 9999) \div 10000
        /\ Power[2] = (Power[1] * 7788 + 9999) \div 10000
        /\ Power[3] = (Power[2] * 7788 + 9999) \div 10000
    BY PowerIs, PowerAt
  <2>. QED BY <2>1 DEF PowerBy
<1>2. Power[4] = 36790 /\ Power[5] = 28653 /\ Power[6] = 22315 /\ Power[7] = 17379
  <2>1. /\ Power[4] = (Power[0] * 3679 + 9999) \div 10000
        /\ Power[5] = (Power[1] * 3679 + 9999) \div 10000
        /\ Power[6] = (Power[2] * 3679 + 9999) \div 10000
        /\ Power[7] = (Power[3] * 3679 + 9999) \div 10000
    BY PowerAt
  <2>. QED BY <2>1, <1>1
<1>3. Power[8] = 13536 /\ Power[9] = 10542 /\ Power[10] = 8210 /\ Power[11] = 6394
  <2>1. /\ Power[8] = (Power[4] * 3679 + 9999) \div 10000
        /\ Power[9] = (Power[5] * 3679 + 9999) \div 10000
        /\ Power[10] = (Power[6] * 3679 + 9999) \div 10000
        /\ Power[11] = (Power[7] * 3679 + 9999) \div 10000
    BY PowerAt
  <2>. QED BY <2>1, <1>2
<1>4. Power[12] = 4980 /\ Power[13] = 3879 /\ Power[14] = 3021 /\ Power[15] = 2353
  <2>1. /\ Power[12] = (Power[8] * 3679 + 9999) \div 10000
        /\ Power[13] = (Power[9] * 3679 + 9999) \div 10000
        /\ Power[14] = (Power[10] * 3679 + 9999) \div 10000
        /\ Power[15] = (Power[11] * 3679 + 9999) \div 10000
    BY PowerAt
  <2>. QED BY <2>1, <1>3
<1>5. Power[16] = 1832 /\ Power[17] = 1427 /\ Power[18] = 1111 /\ Power[19] = 866
  <2>1. /\ Power[16] = (Power[0] * 18316 + 999999) \div 1000000
        /\ Power[17] = (Power[1] * 18316 + 999999) \div 1000000
        /\ Power[18] = (Power[2] * 18316 + 999999) \div 1000000
        /\ Power[19] = (Power[3] * 18316 + 999999) \div 1000000
    BY PowerAt
  <2>. QED BY <2>1, <1>1
<1>6. Power[20] = 674 /\ Power[21] = 525 /\ Power[22] = 409 /\ Power[23] = 319
  <2>1. /\ Power[20] = (Power[4] * 18316 + 999999) \div 1000000
        /\ Power[21] = (Power[5] * 18316 + 999999) \div 1000000
        /\ Power[22] = (Power[6] * 18316 + 999999) \div 1000000
        /\ Power[23] = (Power[7] * 18316 + 999999) \div 1000000
    BY PowerAt
  <2>. QED BY <2>1, <1>2
<1>7. Power[24] = 248 /\ Power[25] = 194 /\ Power[26] = 151 /\ Power[27] = 118
  <2>1. /\ Power[24] = (Power[8] * 18316 + 999999) \div 1000000
        /\ Power[25] = (Power[9] * 18316 + 999999) \div 1000000
        /\ Power[26] = (Power[10] * 18316 + 999999) \div 1000000
        /\ Power[27] = (Power[11] * 18316 + 999999) \div 1000000
    BY PowerAt
  <2>. QED BY <2>1, <1>3
<1>8. Power[28] = 92 /\ Power[29] = 72 /\ Power[30] = 56 /\ Power[31] = 44
  <2>1. /\ Power[28] = (Power[12] * 18316 + 999999) \div 1000000
        /\ Power[29] = (Power[13] * 18316 + 999999) \div 1000000
        /\ Power[30] = (Power[14] * 18316 + 999999) \div 1000000
        /\ Power[31] = (Power[15] * 18316 + 999999) \div 1000000
    BY PowerAt
  <2>. QED BY <2>1, <1>4
<1>9. Power[32] = 34 /\ Power[33] = 27 /\ Power[34] = 21 /\ Power[35] = 16
  <2>1. /\ Power[32] = (Power[16] * 18316 + 999999) \div 1000000
        /\ Power[33] = (Power[17] * 18316 + 999999) \div 1000000
        /\ Power[34] = (Power[18] * 18316 + 999999) \div 1000000
        /\ Power[35] = (Power[19] * 18316 + 999999) \div 1000000
    BY PowerAt
  <2>. QED BY <2>1, <1>5
<1>10. Power[36] = 13 /\ Power[37] = 10 /\ Power[38] = 8 /\ Power[39] = 6 /\ Power[40] = 5
  <2>1. /\ Power[36] = (Power[20] * 18316 + 999999) \div 1000000
        /\ Power[37] = (Power[21] * 18316 + 999999) \div 1000000
        /\ Power[38] = (Power[22] * 18316 + 999999) \div 1000000
        /\ Power[39] = (Power[23] * 18316 + 999999) \div 1000000
        /\ Power[40] = (Power[24] * 18316 + 999999) \div 1000000
    BY PowerAt
  <2>. QED BY <2>1, <1>6, <1>7
<1>. QED BY <1>1, <1>2, <1>3, <1>4, <1>5, <1>6, <1>7, <1>8, <1>9, <1>10

LEMMA DivMonotone ==
  ASSUME NEW a \in Nat, NEW b \in Nat, NEW d \in Nat \ {0}, a <= b
  PROVE  a \div d <= b \div d
<1>. DEFINE qa == a \div d  qb == b \div d
<1>1. qa \in Nat /\ d * qa <= a /\ qb \in Nat /\ b < d * qb + d
  BY DivBounds
<1>. HIDE DEF qa, qb
<1>2. SUFFICES ASSUME qb + 1 <= qa PROVE FALSE
  BY <1>1 DEF qa, qb
<1>3. d * (qb + 1) <= d * qa
  BY <1>1, <1>2, ScaleBoth
<1>. QED BY <1>1, <1>3

\* No power is greater than the one before it, and none is 0.
LEMMA PowerStep ==
  ASSUME NEW n \in Nat
  PROVE  Power[n] \in Nat /\ 1 <= Power[n] /\ Power[n] <= 100000 /\ Power[n + 1] <= Power[n]
<1>. DEFINE Rising == {k \in Nat : ~(Power[k] \in Nat /\ 1 <= Power[k] /\ Power[k] <= 100000 /\ Power[k + 1] <= Power[k])}
<1>. SUFFICES ASSUME Rising # {} PROVE FALSE
  OBVIOUS
<1>1. PICK k \in Rising : \A i \in Rising : k <= i
  <2>1. Rising \in SUBSET Nat
    OBVIOUS
  <2>. HIDE DEF Rising
  <2>. QED BY <2>1, LeastElement
<1>2. CASE k < 16
  BY <1>1, <1>2, PowerTable
<1>3. CASE k >= 16
  <2>. DEFINE x == Power[k - 16]  y == Power[k - 15]
  <2>1. k \in Nat /\ k - 16 \in Nat /\ k - 16 \notin Rising /\ (k - 16) + 1 = k - 15 /\ (k + 1) - 16 = k - 15
    BY <1>1, <1>3
  <2>2. x \in Nat /\ 1 <= x /\ x <= 100000 /\ y <= x /\ y \in Nat
    BY <2>1, PowerIs
  <2>3. /\ Power[k] = (x * 18316 + 999999) \div 1000000
        /\ Power[k + 1] = (y * 18316 + 999999) \div 1000000
    BY <1>3, <2>1, PowerAt
  <2>. HIDE DEF x, y
  <2>4. Power[k + 1] <= Power[k]
    BY <2>2, <2>3, DivMonotone
  <2>5. Power[k] \in Nat /\ 1 <= Power[k] /\ Power[k] <= 100000
    BY <2>2, <2>3
  <2>. QED BY <1>1, <2>4, <2>5
<1>. QED BY <1>1, <1>2, <1>3

LEMMA PowerDecays ==
  ASSUME NEW m \in Nat, NEW n \in Nat, m <= n
  PROVE  Power[n] <= Power[m]
<1>. DEFINE Above == {k \in Nat : m <= k /\ ~(Power[k] <= Power[m])}
<1>. SUFFICES ASSUME Above # {} PROVE FALSE
  OBVIOUS
<1>1. PICK k \in Above : \A i \in Above : k <= i
  BY LeastElement
<1>2. Power[k] \in Int /\ Power[m] \in Int
  BY <1>1, PowerStep
<1>3. CASE k = m
  BY <1>1, <1>2, <1>3
<1>4. CASE k # m
  <2>1. k - 1 \in Nat /\ m <= k - 1 /\ k - 1 \notin Above /\ (k - 1) + 1 = k
    BY <1>1, <1>4
  <2>2. Power[k - 1] <= Power[m] /\ Power[k] <= Power[k - 1] /\ Power[k - 1] \in Int
    BY <2>1, PowerStep
  <2>. QED BY <1>1, <1>2, <2>2
<1>. QED BY <1>3, <1>4

-----------------------------------------------------------------------------
\* Runners the curve was meant for: the fewest are no more than the most, there
\* is room for one, and the scale factor is not negative.
Proper ==
  \A crd \in Runners :
    /\ crd.maxRunners \in Nat \ {0}
    /\ crd.minRunners \in 0..crd.maxRunners
    /\ crd.quarters \in Nat

\* What ScalingProofs asks of a configuration.
Sensible ==
  \A crd \in Runners : NewScaling(crd) \in ScalingConfig /\ Usable(NewScaling(crd))

\* NewScaling makes of any proper runner a configuration whose curve decays as
\* it should: what the theorems about GetOutput ask for is what NewScaling gives.
THEOREM ProperIsSensible == Proper => Sensible
<1>. SUFFICES ASSUME Proper, NEW crd \in Runners
              PROVE  NewScaling(crd) \in ScalingConfig /\ Usable(NewScaling(crd))
  BY DEF Sensible
<1>. DEFINE s == NewScaling(crd)
            decay == [x \in Nat |-> [num |-> Power[crd.quarters * x], den |-> 100000]]
<1>1. /\ crd.maxRunners \in Nat \ {0} /\ crd.minRunners \in 0..crd.maxRunners
      /\ crd.quarters \in Nat
  BY DEF Proper
<1>2. s = [minWorkers |-> crd.minRunners, maxWorkers |-> crd.maxRunners,
           linear |-> crd.quarters = 0, decay |-> decay]
  BY DEF NewScaling
<1>3. ASSUME NEW x \in Nat
      PROVE  crd.quarters * x \in Nat /\ Power[crd.quarters * x] \in Nat /\ 1 <= Power[crd.quarters * x] /\ Power[crd.quarters * x] <= 100000
  BY <1>1, PowerStep
<1>4. decay \in [Nat -> Fraction]
  BY <1>3 DEF Fraction
<1>5. \A x \in Nat : decay[x].num = Power[crd.quarters * x] /\ decay[x].den = 100000
  OBVIOUS
<1>6. ASSUME NEW x \in Nat, NEW y \in Nat, x <= y
      PROVE  Power[crd.quarters * y] <= Power[crd.quarters * x]
  <2>1. crd.quarters * x <= crd.quarters * y
    BY <1>1, <1>6, ScaleBoth
  <2>. QED BY <1>3, <2>1, PowerDecays
<1>. HIDE DEF decay
<1>7. Decaying(decay)
  <2>1. ASSUME NEW x \in Nat PROVE decay[x].num > 0 /\ AtMost(decay[x], Whole(1))
    BY <1>3, <1>5 DEF AtMost, Whole
  <2>2. ASSUME NEW x \in Nat, NEW y \in Nat, x <= y PROVE AtMost(decay[y], decay[x])
    BY <1>3, <1>5, <1>6, <2>2 DEF AtMost
  <2>. QED BY <2>1, <2>2 DEF Decaying
<1>. QED BY <1>1, <1>2, <1>4, <1>7 DEF ScalingConfig, Usable
\* The metric is the one of the queue and the window it was asked for.
MetricInv ==
  /\ spec \in Runners
  /\ queueLength \in 0..MaxQueue
  /\ forced \in BOOLEAN
  /\ metric = ScaledTotal(NewScaling(spec), queueLength, forced)

LEMMA MetricOfQueue == Spec => []MetricInv
<1>1. Init => MetricInv
  <2> SUFFICES ASSUME Init PROVE MetricInv
    OBVIOUS
  <2>1. metric = GetOutput(NewScaling(spec), 0) /\ ~forced
    BY DEF Init, ScaledTotal
  <2>2. metric = ScaledTotal(NewScaling(spec), queueLength, forced)
    BY <2>1 DEF Init, ScaledTotal
  <2>3. spec \in Runners /\ queueLength = 0 /\ forced \in BOOLEAN
    BY Zenon DEF Init
  <2>4. queueLength \in 0..MaxQueue
    BY <2>3, MaxQueueAssumption
  <2>. QED BY <2>2, <2>3, <2>4, Zenon DEF MetricInv
<1>2. MetricInv /\ [Next]_vars => MetricInv'
  BY DEF MetricInv, Next, Ask, vars
<1>. QED BY <1>1, <1>2, PTL DEF Spec

\* The limits of the configuration are those of the custom resource.
LEMMA LimitsOfRunner ==
  ASSUME NEW crd
  PROVE  /\ NewScaling(crd).minWorkers = crd.minRunners
         /\ NewScaling(crd).maxWorkers = crd.maxRunners
  BY DEF NewScaling

\* What GetOutput promises holds of the value that is served, forced or not.
LEMMA TotalFacts ==
  ASSUME NEW s \in ScalingConfig, Usable(s), NEW n \in Nat, NEW force \in BOOLEAN
  PROVE  /\ s.minWorkers <= ScaledTotal(s, n, force)
         /\ ScaledTotal(s, n, force) <= s.maxWorkers
         /\ n > 0 => ScaledTotal(s, n, force) >= 1
<1>1. s.minWorkers \in Nat /\ s.maxWorkers \in Nat \ {0} /\ s.minWorkers <= s.maxWorkers
  BY DEF ScalingConfig, Usable
<1>2. CASE force
  BY <1>1, <1>2 DEF ScaledTotal
<1>3. CASE ~force
  BY <1>3, OutputInBounds, QueueGetsARunner DEF ScaledTotal
<1>. QED BY <1>2, <1>3

-----------------------------------------------------------------------------
\* The metric that is served is never outside of the runner's limits, for
\* runners of any limits and any decay, forced or not.
THEOREM StaysWithinLimits ==
  ASSUME Proper
  PROVE  Spec => []WithinLimits
<1>1. MetricInv => WithinLimits
  <2> SUFFICES ASSUME MetricInv
               PROVE  WithinLimits
    OBVIOUS
  <2>1. /\ NewScaling(spec) \in ScalingConfig /\ Usable(NewScaling(spec))
        /\ queueLength \in Nat /\ forced \in BOOLEAN
        /\ metric = ScaledTotal(NewScaling(spec), queueLength, forced)
    BY ProperIsSensible, MaxQueueAssumption DEF Sensible, MetricInv
  <2>. QED BY <2>1, TotalFacts, LimitsOfRunner DEF WithinLimits
<1>. QED BY <1>1, MetricOfQueue, PTL

\* A queue that is not empty is served a metric of at least 1, at every poll.
THEOREM EveryQueueIsServed ==
  ASSUME Proper
  PROVE  Spec => []QueueIsServed
<1>1. MetricInv => QueueIsServed
  <2> SUFFICES ASSUME MetricInv, queueLength > 0
               PROVE  metric >= 1
    BY DEF QueueIsServed
  <2>1. /\ NewScaling(spec) \in ScalingConfig /\ Usable(NewScaling(spec))
        /\ queueLength \in Nat /\ forced \in BOOLEAN
        /\ metric = ScaledTotal(NewScaling(spec), queueLength, forced)
    BY ProperIsSensible, MaxQueueAssumption DEF Sensible, MetricInv
  <2>. QED BY <2>1, TotalFacts
<1>. QED BY <1>1, MetricOfQueue, PTL

\* From one poll to the next a queue that has grown is never served a
\* smaller metric, unless a forced window has begun or ended in between.
THEOREM LongerIsNeverFewer ==
  ASSUME Proper
  PROVE  Spec => NeverFewer
<1>1. MetricInv /\ MetricInv' /\ [Next]_vars =>
        [queueLength' > queueLength /\ forced' = forced => metric' >= metric]_vars
  <2> SUFFICES ASSUME MetricInv, MetricInv', Ask,
                      queueLength' > queueLength, forced' = forced
               PROVE  metric' >= metric
    BY DEF Next
  <2>1. /\ NewScaling(spec) \in ScalingConfig /\ Usable(NewScaling(spec))
        /\ queueLength \in Nat /\ queueLength' \in Nat /\ queueLength <= queueLength'
        /\ spec' = spec
    BY ProperIsSensible, MaxQueueAssumption DEF Sensible, MetricInv, Ask
  <2>2. /\ metric = ScaledTotal(NewScaling(spec), queueLength, forced)
        /\ metric' = ScaledTotal(NewScaling(spec), queueLength', forced)
    BY <2>1 DEF MetricInv, Ask
  <2>3. CASE forced
    <3>1. metric' = metric /\ metric = NewScaling(spec).maxWorkers
      BY <2>2, <2>3 DEF ScaledTotal
    <3>2. NewScaling(spec).maxWorkers \in Nat
      BY <2>1 DEF ScalingConfig
    <3>. QED BY <3>1, <3>2
  <2>4. CASE ~forced
    <3>1. GetOutput(NewScaling(spec), queueLength) <= GetOutput(NewScaling(spec), queueLength')
      BY <2>1, OutputMonotone
    <3>2. /\ GetOutput(NewScaling(spec), queueLength) <= NewScaling(spec).maxWorkers
          /\ NewScaling(spec).minWorkers <= GetOutput(NewScaling(spec), queueLength)
      BY <2>1, OutputInBounds
    <3>. QED BY <2>2, <2>4, <3>1 DEF ScaledTotal
  <2>. QED BY <2>3, <2>4
<1>. QED BY <1>1, MetricOfQueue, PTL DEF Spec, NeverFewer

-----------------------------------------------------------------------------
(* The table of scaling_test.go. *)

\* r is the curve's value, rounded, where the decay has fallen to power.
Fits(max, power, r) ==
  LET den == 100000 + max * power
  IN  (2 * r - 1) * den <= 200000 * max /\ 200000 * max < (2 * r + 1) * den

LEMMA DivIs ==
  ASSUME NEW a \in Nat, NEW d \in Nat \ {0}, NEW q \in Nat, d * q <= a, a < d * q + d
  PROVE  a \div d = q
<1>. DEFINE x == a \div d
<1>1. x \in Nat /\ d * x <= a /\ a < d * x + d
  BY DivBounds
<1>. HIDE DEF x
<1>2. ~(x + 1 <= q)
  <2>. SUFFICES ASSUME x + 1 <= q PROVE FALSE
    OBVIOUS
  <2>1. d * (x + 1) <= d * q
    BY <1>1, ScaleBoth
  <2>. QED BY <1>1, <2>1
<1>3. ~(q + 1 <= x)
  <2>. SUFFICES ASSUME q + 1 <= x PROVE FALSE
    OBVIOUS
  <2>1. d * (q + 1) <= d * x
    BY <1>1, ScaleBoth
  <2>. QED BY <1>1, <2>1
<1>. QED BY <1>1, <1>2, <1>3 DEF x

LEMMA FitsIsOutput ==
  ASSUME NEW max \in Nat \ {0}, NEW p \in Nat \ {0}, NEW r \in Nat \ {0}, Fits(max, p, r),
         NEW s, s.minWorkers = 1, s.maxWorkers = max, ~s.linear,
         NEW n \in Nat \ {0}, s.decay[n] = [num |-> p, den |-> 100000]
  PROVE  GetOutput(s, n) = r
<1>. DEFINE den == 100000 + max * p
            num == max * 100000
            raw == [num |-> num, den |-> den]
<1>1. max * p \in Nat \ {0} /\ max * max * p \in Nat
  OBVIOUS
<1>2. den \in Nat \ {0} /\ num \in Nat \ {0}
  BY <1>1
<1>3. den * (2 * r) <= 2 * num + den /\ 2 * num + den < den * (2 * r) + 2 * den
  <2>1. /\ (2 * r - 1) * den <= 2 * num
        /\ 2 * num < (2 * r + 1) * den
    BY DEF Fits
  <2>. HIDE DEF den, num
  <2>. QED BY <1>2, <2>1
<1>4. Logistic(max, s.decay[n]) = raw
  BY DEF Logistic
<1>5. LesserOf(raw, Whole(max)) = raw
  <2>1. num * 1 <= max * den
    BY <1>1
  <2>. HIDE DEF num, den
  <2>. QED BY <2>1 DEF LesserOf, AtMost, Whole
<1>6. WantedWorkers(s, n) = IF den <= num THEN raw ELSE Whole(1)
  <2>1. WantedWorkers(s, n) = LET floored == GreaterOf(raw, Whole(1))
                              IN  IF floored.num = 0 THEN Whole(1) ELSE floored
    <3>. HIDE DEF raw
    <3>. QED BY <1>4, <1>5 DEF WantedWorkers
  <2>. HIDE DEF num, den
  <2>2. GreaterOf(raw, Whole(1)) = IF den <= num THEN raw ELSE Whole(1)
    BY <1>2 DEF GreaterOf, AtMost, Whole
  <2>. QED BY <1>2, <2>1, <2>2 DEF Whole
<1>7. GetOutput(s, n) = Round(WantedWorkers(s, n))
  BY DEF GetOutput
<1>. HIDE DEF num, den
<1>8. CASE den <= num
  <2>1. Round(raw) = (2 * num + den) \div (2 * den)
    BY DEF Round
  <2>2. 2 * num + den \in Nat /\ 2 * den \in Nat \ {0}
        /\ (2 * den) * r <= 2 * num + den /\ 2 * num + den < (2 * den) * r + 2 * den
    BY <1>2, <1>3
  <2>3. (2 * num + den) \div (2 * den) = r
    BY <2>2, DivIs
  <2>. QED BY <1>6, <1>7, <1>8, <2>1, <2>3
<1>9. CASE ~(den <= num)
  <2>1. r = 1
    <3>. SUFFICES ASSUME 2 <= r PROVE FALSE
      OBVIOUS
    <3>1. den * 4 <= den * (2 * r)
      BY <1>2, ScaleBoth
    <3>. QED BY <1>2, <1>3, <1>9, <3>1
  <2>. QED BY <1>6, <1>7, <1>9, <2>1, RoundWhole
<1>. QED BY <1>8, <1>9

\* The 68 entries of the tables.
LEMMA TablesFit ==
  ASSUME NEW max, NEW quarters, NEW n \in DOMAIN ExpectedOutputs(max, quarters)
  PROVE  /\ max \in {10, 100} /\ quarters \in {1, 2, 4} /\ n \in Nat \ {0}
         /\ ExpectedOutputs(max, quarters)[n] \in Nat \ {0}
         /\ Fits(max, Power[quarters * n], ExpectedOutputs(max, quarters)[n])
<1>1. CASE <<max, quarters>> = <<10, 1>>
  <2>. DEFINE e == <<1, 1, 2, 2, 3, 3, 4, 4, 5, 5, 6, 7, 7, 8, 8, 8, 9, 9, 9, 9, 10>>
  <2>1. max = 10 /\ quarters = 1 /\ ExpectedOutputs(max, quarters) = e
    BY <1>1 DEF ExpectedOutputs
  <2>2. n \in 1..21
    BY <2>1
  <2>3. e[n] \in Nat \ {0} /\ Fits(10, Power[1 * n], e[n])
    BY <2>2, PowerTable DEF Fits
  <2>. QED BY <2>1, <2>2, <2>3
<1>2. CASE <<max, quarters>> = <<10, 2>>
  <2>. DEFINE e == <<1, 2, 3, 4, 5, 7, 8, 8, 9, 9, 10>>
  <2>1. max = 10 /\ quarters = 2 /\ ExpectedOutputs(max, quarters) = e
    BY <1>2 DEF ExpectedOutputs
  <2>2. n \in 1..11
    BY <2>1
  <2>3. e[n] \in Nat \ {0} /\ Fits(10, Power[2 * n], e[n])
    BY <2>2, PowerTable DEF Fits
  <2>. QED BY <2>1, <2>2, <2>3
<1>3. CASE <<max, quarters>> = <<10, 4>>
  <2>. DEFINE e == <<2, 4, 7, 8, 9, 10>>
  <2>1. max = 10 /\ quarters = 4 /\ ExpectedOutputs(max, quarters) = e
    BY <1>3 DEF ExpectedOutputs
  <2>2. n \in 1..6
    BY <2>1
  <2>3. e[n] \in Nat \ {0} /\ Fits(10, Power[4 * n], e[n])
    BY <2>2, PowerTable DEF Fits
  <2>. QED BY <2>1, <2>2, <2>3
<1>4. CASE <<max, quarters>> = <<100, 2>>
  <2>. DEFINE e == <<2, 3, 4, 7, 11, 17, 25, 35, 47, 60, 71, 80, 87, 92, 95, 97, 98, 99, 99, 100>>
  <2>1. max = 100 /\ quarters = 2 /\ ExpectedOutputs(max, quarters) = e
    BY <1>4 DEF ExpectedOutputs
  <2>2. n \in 1..20
    BY <2>1
  <2>3. e[n] \in Nat \ {0} /\ Fits(100, Power[2 * n], e[n])
    BY <2>2, PowerTable DEF Fits
  <2>. QED BY <2>1, <2>2, <2>3
<1>5. CASE <<max, quarters>> = <<100, 4>>
  <2>. DEFINE e == <<3, 7, 17, 35, 60, 80, 92, 97, 99, 100>>
  <2>1. max = 100 /\ quarters = 4 /\ ExpectedOutputs(max, quarters) = e
    BY <1>5 DEF ExpectedOutputs
  <2>2. n \in 1..10
    BY <2>1
  <2>3. e[n] \in Nat \ {0} /\ Fits(100, Power[4 * n], e[n])
    BY <2>2, PowerTable DEF Fits
  <2>. QED BY <2>1, <2>2, <2>3
<1>6. CASE <<max, quarters>> \notin {<<10, 1>>, <<10, 2>>, <<10, 4>>, <<100, 2>>, <<100, 4>>}
  <2>1. ExpectedOutputs(max, quarters) = <<>>
    BY <1>6 DEF ExpectedOutputs
  <2>. QED BY <2>1
<1>. QED BY <1>1, <1>2, <1>3, <1>4, <1>5, <1>6

\* Every entry of every list of TestLogistic is what the runner of that list is
\* served for a queue of that length: also those after the first match, which
\* the test does not compare.
THEOREM TestsAreMet ==
  ASSUME Proper
  PROVE  Spec => []ConformsToTests
<1>1. MetricInv => ConformsToTests
  <2>. DEFINE expected == ExpectedOutputs(spec.maxRunners, spec.quarters)
              s == NewScaling(spec)
  <2>. SUFFICES ASSUME MetricInv, spec.minRunners = 1, ~forced, queueLength \in DOMAIN expected
                PROVE  metric = expected[queueLength]
    BY DEF ConformsToTests
  <2>1. /\ spec.maxRunners \in {10, 100} /\ spec.quarters \in {1, 2, 4} /\ queueLength \in Nat \ {0}
        /\ expected[queueLength] \in Nat \ {0}
        /\ Fits(spec.maxRunners, Power[spec.quarters * queueLength], expected[queueLength])
    BY TablesFit
  <2>. DEFINE decayed == Power[spec.quarters * queueLength]
  <2>2. s.minWorkers = 1 /\ s.maxWorkers = spec.maxRunners /\ s.linear = (spec.quarters = 0)
    BY DEF NewScaling
  <2>3. s.decay[queueLength] = [num |-> decayed, den |-> 100000]
    BY <2>1 DEF NewScaling
  <2>. HIDE DEF expected, s
  <2>4. /\ spec.quarters * queueLength \in Nat
        /\ spec.maxRunners \in Nat \ {0}
        /\ spec.quarters # 0
    <3>1. spec.quarters \in Nat \ {0} /\ queueLength \in Nat /\ spec.maxRunners \in Nat \ {0}
      <4>. HIDE DEF Fits
      <4>. QED BY <2>1
    <3>. QED BY <3>1
  <2>8. ~s.linear
    BY <2>2, <2>4, Zenon
  <2>7. decayed \in Nat \ {0}
    BY <2>4, PowerStep
  <2>. HIDE DEF decayed
  <2>5. GetOutput(s, queueLength) = expected[queueLength]
    BY <2>1, <2>2, <2>3, <2>4, <2>7, <2>8, FitsIsOutput DEF decayed
  <2>6. metric = GetOutput(s, queueLength)
    BY DEF MetricInv, ScaledTotal, s
  <2>. QED BY <2>5, <2>6
<1>. QED BY <1>1, MetricOfQueue, PTL

-----------------------------------------------------------------------------
\* Whatever is known of the workflow files, cached or lost, a poll of the
\* detailed model is a poll of ScalingCurve and nothing else changes a metric.
THEOREM ServedIsCurve == ServedSpec => Spec
<1>1. ServedInit => Init
  BY DEF ServedInit
<1>2. [ServedNext]_servedVars => [Next]_vars
  <2> SUFFICES ASSUME [ServedNext]_servedVars
               PROVE  [Next]_vars
    OBVIOUS
  <2>1. CASE Poll
    BY <2>1 DEF Poll, PollKnown, PollFetch, PollWith, Next
  <2>2. CASE FailToPoll \/ EditFiles \/ Outage \/ Forget
    BY <2>2 DEF FailToPoll, EditFiles, Outage, Forget
  <2>3. CASE UNCHANGED servedVars
    BY <2>3 DEF servedVars
  <2>. QED BY <2>1, <2>2, <2>3 DEF ServedNext
<1>. QED BY <1>1, <1>2, PTL DEF ServedSpec, Spec

\* So the metric that comes of labels and selectors stays within its limits
\* and serves every queue.
COROLLARY ServedWithinLimits ==
  ASSUME Proper
  PROVE  ServedSpec => [](WithinLimits /\ QueueIsServed)
  BY ServedIsCurve, StaysWithinLimits, EveryQueueIsServed, PTL

-----------------------------------------------------------------------------
(* Labels. *)

\* Lengths are lengths.
QueueInv == queue \in [Workflows -> Nat]

LEMMA QueueStays == ServedSpec => []QueueInv
<1>1. ServedInit => QueueInv
  BY DEF ServedInit, QueueInv
<1>2. QueueInv /\ [ServedNext]_servedVars => QueueInv'
  <2> SUFFICES ASSUME QueueInv, [ServedNext]_servedVars
               PROVE  QueueInv'
    OBVIOUS
  <2>1. CASE Poll
    <3>1. \/ queue' = queue
          \/ \E w \in Workflows : \E n \in {queue[w] - 1, queue[w] + 1} \intersect (0..MostQueued[w]) :
               queue' = [queue EXCEPT ![w] = n]
      BY <2>1 DEF Poll, PollKnown, PollFetch, PollWith
    <3>2. \A w \in Workflows : 0..MostQueued[w] \subseteq Nat
      BY WorkflowsAssumption
    <3>. QED BY <3>1, <3>2 DEF QueueInv
  <2>2. CASE FailToPoll \/ EditFiles \/ Outage \/ Forget \/ UNCHANGED servedVars
    BY <2>2 DEF FailToPoll, EditFiles, Outage, Forget, servedVars, QueueInv
  <2>. QED BY <2>1, <2>2 DEF ServedNext
<1>. QED BY <1>1, <1>2, PTL DEF ServedSpec

LEMMA QueuedIsFinite ==
  ASSUME NEW runs \in [Workflows -> Nat]
  PROVE  IsFiniteSet(Queued(runs))
<1>. DEFINE these == {{w} \X (1..runs[w]) : w \in Workflows}
            of == [w \in Workflows |-> {w} \X (1..runs[w])]
<1>1. of \in Surjection(Workflows, these)
  BY DEF Surjection
<1>2. IsFiniteSet(these)
  BY <1>1, WorkflowsAssumption, FS_Surjection
<1>3. ASSUME NEW w \in Workflows PROVE IsFiniteSet({w} \X (1..runs[w]))
  <2>1. IsFiniteSet({w})
    BY FS_Singleton
  <2>2. IsFiniteSet(1..runs[w])
    BY FS_Interval
  <2>. QED BY <2>1, <2>2, FS_Product
<1>4. \A T \in these : IsFiniteSet(T)
  BY <1>3
<1>5. IsFiniteSet(UNION these)
  BY <1>2, <1>4, FS_UNION
<1>. QED BY <1>5 DEF Queued

\* The count of the runs that match is 0 if and only if none matches.
LEMMA FilteredFacts ==
  ASSUME NEW runs \in [Workflows -> Nat], NEW known
  PROVE  /\ Filtered(runs, known) \in Nat
         /\ Filtered(runs, known) > 0 <=> \E w \in Workflows : runs[w] > 0 /\ Matches(w, known)
<1>. DEFINE matching == {run \in Queued(runs) : Matches(run[1], known)}
<1>1. IsFiniteSet(matching)
  BY QueuedIsFinite, FS_Subset
<1>2. Cardinality(matching) \in Nat /\ (Cardinality(matching) = 0 <=> matching = {})
  BY <1>1, FS_CardinalityType, FS_EmptySet
<1>3. ASSUME NEW w \in Workflows, runs[w] > 0, Matches(w, known) PROVE matching # {}
  <2>1. <<w, 1>> \in {w} \X (1..runs[w])
    BY <1>3
  <2>2. <<w, 1>> \in Queued(runs)
    BY <2>1 DEF Queued
  <2>3. Matches(<<w, 1>>[1], known)
    BY <1>3
  <2>. QED BY <2>2, <2>3
<1>4. ASSUME NEW run \in matching PROVE \E w \in Workflows : runs[w] > 0 /\ Matches(w, known)
  <2>1. PICK w \in Workflows : run \in {w} \X (1..runs[w])
    BY <1>4 DEF Queued
  <2>2. run[1] = w /\ runs[w] > 0
    BY <2>1
  <2>. QED BY <1>4, <2>2
<1>. QED BY <1>2, <1>3, <1>4 DEF Filtered

\* Every label, file and record set aside, what a poll serves depends on the
\* runs that match alone: they find a runner at once, and nothing else does.
THEOREM OnlyMatchesCount ==
  ASSUME Proper
  PROVE  ServedSpec => MatchesAlone
<1>. DEFINE Step ==
       Poll => IF \E w \in Workflows : queue'[w] > 0 /\ Matches(w, info')
               THEN metric' >= 1
               ELSE metric' = IF forced' THEN spec.maxRunners ELSE spec.minRunners
<1>1. MetricInv /\ MetricInv' /\ QueueInv' => [Step]_servedVars
  <2> SUFFICES ASSUME MetricInv, MetricInv', QueueInv', Poll
               PROVE  IF \E w \in Workflows : queue'[w] > 0 /\ Matches(w, info')
                      THEN metric' >= 1
                      ELSE metric' = IF forced' THEN spec.maxRunners ELSE spec.minRunners
    OBVIOUS
  <2>. DEFINE n == Filtered(queue', info')
  <2>1. /\ selector' = selector /\ spec' = spec /\ forced' \in BOOLEAN
        /\ queueLength' = n /\ metric' = ScaledTotal(NewScaling(spec), n, forced')
    BY DEF Poll, PollKnown, PollFetch, PollWith, Ask
  <2>2. n \in Nat /\ (n > 0 <=> \E w \in Workflows : queue'[w] > 0 /\ Matches(w, info'))
    BY FilteredFacts DEF QueueInv
  <2>3. NewScaling(spec) \in ScalingConfig /\ Usable(NewScaling(spec))
    BY ProperIsSensible DEF Sensible, MetricInv
  <2>. HIDE DEF n
  <2>4. CASE n > 0
    <3>1. ScaledTotal(NewScaling(spec), n, forced') >= 1
      BY <2>1, <2>2, <2>3, <2>4, TotalFacts
    <3>. QED BY <2>1, <2>2, <2>4, <3>1
  <2>5. CASE n = 0
    <3>1. metric' = IF forced' THEN NewScaling(spec).maxWorkers ELSE NewScaling(spec).minWorkers
      BY <2>1, <2>5 DEF ScaledTotal, GetOutput
    <3>2. metric' = IF forced' THEN spec.maxRunners ELSE spec.minRunners
      BY <3>1, LimitsOfRunner
    <3>3. ~\E w \in Workflows : queue'[w] > 0 /\ Matches(w, info')
      BY <2>2, <2>5
    <3>. QED BY <3>2, <3>3
  <2>. QED BY <2>2, <2>4, <2>5
<1>2. ServedSpec => []MetricInv
  BY ServedIsCurve, MetricOfQueue, PTL
<1>3. ServedSpec => [][Step]_servedVars
  BY <1>1, <1>2, QueueStays, PTL
<1>. QED BY <1>3 DEF MatchesAlone

=============================================================================
