--------------------------- MODULE ScalingProofs ---------------------------
(***************************************************************************)
(* What GetOutput promises for every configuration and every queue length. *)
(***************************************************************************)
EXTENDS Scaling, TLAPS

LEMMA DivBounds ==
  ASSUME NEW a \in Nat, NEW b \in Nat \ {0}
  PROVE  /\ a \div b \in Nat
         /\ b * (a \div b) <= a
         /\ a < b * (a \div b) + b
  OBVIOUS

LEMMA CancelFactor ==
  ASSUME NEW k \in Nat \ {0}, NEW u \in Int, NEW v \in Int, k * u <= k * v
  PROVE  u <= v
  OBVIOUS

LEMMA ScaleBoth ==
  ASSUME NEW k \in Nat, NEW u \in Int, NEW v \in Int, u <= v
  PROVE  k * u <= k * v
  OBVIOUS

-----------------------------------------------------------------------------
(* The order on fractions. *)

LEMMA WholeIsFraction ==
  ASSUME NEW n \in Nat
  PROVE  Whole(n) \in Fraction /\ Whole(n).num = n /\ Whole(n).den = 1
  BY DEF Whole, Fraction

LEMMA AtMostTotal ==
  ASSUME NEW a \in Fraction, NEW b \in Fraction
  PROVE  AtMost(a, b) \/ AtMost(b, a)
<1>1. /\ a.num * b.den \in Int
      /\ b.num * a.den \in Int
  BY DEF Fraction
<1>. QED BY <1>1 DEF AtMost

LEMMA AtMostTransitive ==
  ASSUME NEW a \in Fraction, NEW b \in Fraction, NEW c \in Fraction,
         AtMost(a, b), AtMost(b, c)
  PROVE  AtMost(a, c)
<1>. DEFINE an == a.num  ad == a.den  bn == b.num  bd == b.den  cn == c.num  cd == c.den
<1>1. /\ an \in Nat /\ ad \in Nat \ {0}
      /\ bn \in Nat /\ bd \in Nat \ {0}
      /\ cn \in Nat /\ cd \in Nat \ {0}
  BY DEF Fraction
<1>2. an * bd <= bn * ad /\ bn * cd <= cn * bd
  BY DEF AtMost
<1>. HIDE DEF an, ad, bn, bd, cn, cd
<1>3. cd * (an * bd) <= cd * (bn * ad)
  BY <1>1, <1>2, ScaleBoth
<1>4. ad * (bn * cd) <= ad * (cn * bd)
  BY <1>1, <1>2, ScaleBoth
<1>5. bd * (an * cd) <= bd * (cn * ad)
  BY <1>1, <1>3, <1>4
<1>6. an * cd <= cn * ad
  BY <1>1, <1>5, CancelFactor
<1>. QED BY <1>6 DEF AtMost, an, ad, cn, cd

LEMMA LesserGreater ==
  ASSUME NEW a \in Fraction, NEW b \in Fraction
  PROVE  /\ LesserOf(a, b) \in Fraction /\ GreaterOf(a, b) \in Fraction
         /\ AtMost(LesserOf(a, b), a) /\ AtMost(LesserOf(a, b), b)
         /\ AtMost(a, GreaterOf(a, b)) /\ AtMost(b, GreaterOf(a, b))
<1>1. AtMost(a, a) /\ AtMost(b, b)
  BY AtMostTotal
<1>. QED BY <1>1, AtMostTotal DEF LesserOf, GreaterOf

\* Capping and flooring keep the order.
LEMMA ClampMonotone ==
  ASSUME NEW a \in Fraction, NEW b \in Fraction, NEW c \in Fraction, AtMost(a, b)
  PROVE  /\ AtMost(LesserOf(a, c), LesserOf(b, c))
         /\ AtMost(GreaterOf(a, c), GreaterOf(b, c))
  BY AtMostTransitive, AtMostTotal DEF LesserOf, GreaterOf

LEMMA RoundMonotone ==
  ASSUME NEW a \in Fraction, NEW b \in Fraction, AtMost(a, b)
  PROVE  Round(a) <= Round(b)
<1>. DEFINE an == a.num  ad == a.den  bn == b.num  bd == b.den
            ra == Round(a)  rb == Round(b)
<1>1. /\ an \in Nat /\ ad \in Nat \ {0} /\ bn \in Nat /\ bd \in Nat \ {0}
      /\ an * bd <= bn * ad
  BY DEF Fraction, AtMost
<1>2. /\ ra = (2 * an + ad) \div (2 * ad)
      /\ rb = (2 * bn + bd) \div (2 * bd)
  BY DEF Round
<1>. HIDE DEF an, ad, bn, bd, ra, rb
<1>3. /\ 2 * an + ad \in Nat /\ 2 * ad \in Nat \ {0}
      /\ 2 * bn + bd \in Nat /\ 2 * bd \in Nat \ {0}
  BY <1>1
<1>4. ra \in Nat /\ (2 * ad) * ra <= 2 * an + ad
  BY <1>2, <1>3, DivBounds
<1>5. rb \in Nat /\ 2 * bn + bd < (2 * bd) * rb + 2 * bd
  BY <1>2, <1>3, DivBounds
<1>6. SUFFICES ASSUME rb + 1 <= ra PROVE FALSE
  BY <1>4, <1>5 DEF ra, rb
<1>7. (2 * ad) * (rb + 1) <= (2 * ad) * ra
  BY <1>1, <1>4, <1>5, <1>6, ScaleBoth
<1>8. ad * (2 * rb + 1) <= 2 * an
  BY <1>1, <1>4, <1>5, <1>7
<1>9. bd * (ad * (2 * rb + 1)) <= bd * (2 * an)
  BY <1>1, <1>5, <1>8, ScaleBoth
<1>10. ad * (bd * (2 * rb + 1)) <= ad * (2 * bn)
  BY <1>1, <1>5, <1>9
<1>11. bd * (2 * rb + 1) <= 2 * bn
  BY <1>1, <1>5, <1>10, CancelFactor
<1>. QED BY <1>1, <1>5, <1>11

LEMMA RoundWhole ==
  ASSUME NEW n \in Nat
  PROVE  Round(Whole(n)) = n
  BY DEF Round, Whole

\* A fraction of at least one half rounds to at least one.
LEMMA RoundHalf ==
  ASSUME NEW a \in Fraction, a.den <= 2 * a.num
  PROVE  Round(a) >= 1
<1>. DEFINE an == a.num  ad == a.den  r == Round(a)
<1>1. an \in Nat /\ ad \in Nat \ {0} /\ ad <= 2 * an
  BY DEF Fraction
<1>2. r = (2 * an + ad) \div (2 * ad)
  BY DEF Round
<1>. HIDE DEF an, ad, r
<1>3. 2 * an + ad \in Nat /\ 2 * ad \in Nat \ {0}
  BY <1>1
<1>4. r \in Nat /\ 2 * an + ad < (2 * ad) * r + 2 * ad
  BY <1>2, <1>3, DivBounds
<1>5. CASE r = 0
  BY <1>1, <1>4, <1>5
<1>. QED BY <1>4, <1>5 DEF r

-----------------------------------------------------------------------------
(* The worker count of a configuration. *)

LEMMA LogisticFacts ==
  ASSUME NEW c \in Nat \ {0}, NEW p \in Fraction, p.num > 0, AtMost(p, Whole(1))
  PROVE  /\ Logistic(c, p) \in Fraction
         /\ Logistic(c, p).den <= 2 * Logistic(c, p).num
<1>. DEFINE n == p.num  d == p.den
<1>1. n \in Nat /\ d \in Nat \ {0} /\ n <= d
  BY DEF Fraction, AtMost, Whole
<1>2. Logistic(c, p) = [num |-> c * d, den |-> d + c * n]
  BY DEF Logistic
<1>. HIDE DEF n, d
<1>3. c * n <= c * d
  BY <1>1, ScaleBoth
<1>4. d * 1 <= d * c
  BY <1>1, ScaleBoth
<1>5. c * d \in Nat /\ c * n \in Nat
  BY <1>1
<1>. QED BY <1>1, <1>2, <1>3, <1>4, <1>5 DEF Fraction

LEMMA LogisticMonotone ==
  ASSUME NEW c \in Nat \ {0}, NEW p \in Fraction, NEW q \in Fraction, AtMost(q, p)
  PROVE  AtMost(Logistic(c, p), Logistic(c, q))
<1>. DEFINE n == p.num  d == p.den  m == q.num  e == q.den
<1>1. /\ n \in Nat /\ d \in Nat \ {0} /\ m \in Nat /\ e \in Nat \ {0}
      /\ m * d <= n * e
  BY DEF Fraction, AtMost
<1>2. /\ Logistic(c, p) = [num |-> c * d, den |-> d + c * n]
      /\ Logistic(c, q) = [num |-> c * e, den |-> e + c * m]
  BY DEF Logistic
<1>. HIDE DEF n, d, m, e
<1>3. (c * c) * (m * d) <= (c * c) * (n * e)
  BY <1>1, ScaleBoth
<1>4. (c * d) * (e + c * m) <= (c * e) * (d + c * n)
  BY <1>1, <1>3
<1>. QED BY <1>2, <1>4 DEF AtMost

\* The number of workers before the floors, for a queue of length n.
LEMMA RawFacts ==
  ASSUME NEW s \in ScalingConfig, Usable(s), NEW n \in Nat \ {0},
         NEW raw, raw = IF s.linear THEN Whole(n) ELSE Logistic(s.maxWorkers, s.decay[n])
  PROVE  raw \in Fraction /\ raw.den <= 2 * raw.num
<1>1. CASE s.linear
  BY <1>1, WholeIsFraction
<1>2. CASE ~s.linear
  <2>1. s.decay[n] \in Fraction /\ s.decay[n].num > 0 /\ AtMost(s.decay[n], Whole(1))
    BY <1>2 DEF ScalingConfig, Usable, Decaying
  <2>2. s.maxWorkers \in Nat \ {0}
    BY DEF ScalingConfig, Usable
  <2>. QED BY <1>2, <2>1, <2>2, LogisticFacts
<1>. QED BY <1>1, <1>2

LEMMA WantedFacts ==
  ASSUME NEW s \in ScalingConfig, Usable(s), NEW n \in Nat \ {0}
  PROVE  LET raw == IF s.linear THEN Whole(n) ELSE Logistic(s.maxWorkers, s.decay[n])
             W   == GreaterOf(LesserOf(raw, Whole(s.maxWorkers)), Whole(s.minWorkers))
         IN  /\ WantedWorkers(s, n) = W
             /\ W \in Fraction
             /\ W.den <= 2 * W.num
             /\ AtMost(Whole(s.minWorkers), W)
             /\ AtMost(W, Whole(s.maxWorkers))
<1>. DEFINE raw == IF s.linear THEN Whole(n) ELSE Logistic(s.maxWorkers, s.decay[n])
            C   == LesserOf(raw, Whole(s.maxWorkers))
            W   == GreaterOf(C, Whole(s.minWorkers))
<1>1. /\ s.minWorkers \in Nat /\ s.maxWorkers \in Nat \ {0}
      /\ s.minWorkers <= s.maxWorkers
  BY DEF ScalingConfig, Usable
<1>2. raw \in Fraction /\ raw.den <= 2 * raw.num
  BY RawFacts
<1>3. /\ Whole(s.minWorkers) \in Fraction /\ Whole(s.minWorkers).num = s.minWorkers
      /\ Whole(s.maxWorkers) \in Fraction /\ Whole(s.maxWorkers).num = s.maxWorkers
      /\ Whole(s.minWorkers).den = 1 /\ Whole(s.maxWorkers).den = 1
  BY <1>1, WholeIsFraction
<1>4. WantedWorkers(s, n) = IF W.num = 0 THEN Whole(1) ELSE W
  BY DEF WantedWorkers
<1>. HIDE DEF raw
<1>5. C \in Fraction /\ AtMost(C, Whole(s.maxWorkers)) /\ C.den <= 2 * C.num
  BY <1>1, <1>2, <1>3, LesserGreater DEF LesserOf
<1>. HIDE DEF C
<1>6. W \in Fraction /\ AtMost(Whole(s.minWorkers), W)
  BY <1>3, <1>5, LesserGreater
<1>7. AtMost(W, Whole(s.maxWorkers))
  BY <1>1, <1>3, <1>5 DEF GreaterOf, AtMost
<1>8. W.den <= 2 * W.num
  <2>1. CASE W = C
    BY <1>5, <2>1
  <2>2. CASE W # C
    <3>1. W = Whole(s.minWorkers) /\ ~AtMost(Whole(s.minWorkers), C)
      BY <2>2 DEF GreaterOf
    <3>2. s.minWorkers # 0
      BY <3>1, <1>3, <1>5 DEF AtMost, Fraction
    <3>. QED BY <3>1, <3>2, <1>1, <1>3
  <2>. QED BY <2>1, <2>2
<1>9. W.num # 0
  BY <1>6, <1>8 DEF Fraction
<1>. QED BY <1>4, <1>6, <1>7, <1>8, <1>9 DEF raw, C

-----------------------------------------------------------------------------
(***************************************************************************)
(* The value served for a workflow lies between its minRunners and its     *)
(* maxRunners, whatever the queue: the cap and the floor of GetOutput are  *)
(* not undone by the rounding or by the "at least one" rule after them.    *)
(***************************************************************************)
THEOREM OutputInBounds ==
  ASSUME NEW s \in ScalingConfig, Usable(s), NEW n \in Nat
  PROVE  s.minWorkers <= GetOutput(s, n) /\ GetOutput(s, n) <= s.maxWorkers
<1>1. s.minWorkers \in Nat /\ s.maxWorkers \in Nat /\ s.minWorkers <= s.maxWorkers
  BY DEF ScalingConfig, Usable
<1>2. CASE n = 0
  BY <1>1, <1>2 DEF GetOutput
<1>3. CASE n # 0
  <2>1. PICK W \in Fraction : /\ W = WantedWorkers(s, n)
                              /\ AtMost(Whole(s.minWorkers), W)
                              /\ AtMost(W, Whole(s.maxWorkers))
    BY <1>3, WantedFacts
  <2>2. /\ Round(Whole(s.minWorkers)) <= Round(W)
        /\ Round(W) <= Round(Whole(s.maxWorkers))
    BY <1>1, <2>1, RoundMonotone, WholeIsFraction
  <2>. QED BY <1>1, <1>3, <2>1, <2>2, RoundWhole DEF GetOutput
<1>. QED BY <1>2, <1>3

(***************************************************************************)
(* A queue that is not empty is never answered with zero runners: rounding *)
(* cannot take the curve below one for a scale factor of at least 0, so a  *)
(* queued job cannot wait for ever at zero replicas.                       *)
(***************************************************************************)
THEOREM QueueGetsARunner ==
  ASSUME NEW s \in ScalingConfig, Usable(s), NEW n \in Nat \ {0}
  PROVE  GetOutput(s, n) >= 1
<1>1. PICK W \in Fraction : W = WantedWorkers(s, n) /\ W.den <= 2 * W.num
  BY WantedFacts
<1>. QED BY <1>1, RoundHalf DEF GetOutput

(***************************************************************************)
(* A longer queue never asks for fewer runners, the minimum for an empty   *)
(* queue included.                                                         *)
(***************************************************************************)
THEOREM OutputMonotone ==
  ASSUME NEW s \in ScalingConfig, Usable(s), NEW m \in Nat, NEW n \in Nat, m <= n
  PROVE  GetOutput(s, m) <= GetOutput(s, n)
<1>1. s.minWorkers \in Nat /\ s.maxWorkers \in Nat \ {0}
  BY DEF ScalingConfig, Usable
<1>2. CASE m = 0
  BY <1>2, <1>1, OutputInBounds DEF GetOutput
<1>3. CASE m # 0
  <2>. DEFINE Raw(x) == IF s.linear THEN Whole(x) ELSE Logistic(s.maxWorkers, s.decay[x])
              Capped(x) == LesserOf(Raw(x), Whole(s.maxWorkers))
              W(x) == GreaterOf(Capped(x), Whole(s.minWorkers))
  <2>1. m \in Nat \ {0} /\ n \in Nat \ {0}
    BY <1>3
  <2>2. AtMost(Raw(m), Raw(n))
    <3>1. CASE s.linear
      BY <3>1, <2>1 DEF AtMost, Whole
    <3>2. CASE ~s.linear
      <4>1. /\ s.decay[m] \in Fraction /\ s.decay[n] \in Fraction
            /\ AtMost(s.decay[n], s.decay[m])
        BY <3>2 DEF ScalingConfig, Usable, Decaying
      <4>. QED BY <3>2, <4>1, <1>1, LogisticMonotone
    <3>. QED BY <3>1, <3>2
  <2>3. Raw(m) \in Fraction /\ Raw(n) \in Fraction
    BY <2>1, RawFacts
  <2>4. Whole(s.minWorkers) \in Fraction /\ Whole(s.maxWorkers) \in Fraction
    BY <1>1, WholeIsFraction
  <2>5. /\ WantedWorkers(s, m) = W(m) /\ W(m) \in Fraction
        /\ WantedWorkers(s, n) = W(n) /\ W(n) \in Fraction
    BY <2>1, WantedFacts
  <2>. HIDE DEF Raw
  <2>6. AtMost(Capped(m), Capped(n)) /\ Capped(m) \in Fraction /\ Capped(n) \in Fraction
    BY <2>2, <2>3, <2>4, ClampMonotone, LesserGreater
  <2>. HIDE DEF Capped
  <2>7. AtMost(W(m), W(n))
    BY <2>4, <2>6, ClampMonotone
  <2>. HIDE DEF W
  <2>8. Round(W(m)) <= Round(W(n))
    BY <2>5, <2>7, RoundMonotone
  <2>. QED BY <2>1, <2>5, <2>8 DEF GetOutput
<1>. QED BY <1>2, <1>3

=============================================================================
