---------------------------- MODULE BackoffProofs ----------------------------
(***************************************************************************)
(* Theorems about Backoff, for every width of the integers, every setting  *)
(* and every jitter source.                                                *)
(***************************************************************************)
EXTENDS Backoff, FiniteSetTheorems, TLAPS

(* A number already in the range of int64 is what it wraps to. *)
LEMMA WrapInRange ==
  ASSUME NEW x \in 0 .. MaxDuration
  PROVE  Wrap(x) = x
<1>1. x \in Int /\ MaxDuration \in Int /\ 0 <= x /\ x <= MaxDuration
  BY DurationAssumption
<1> DEFINE m == 2 * (MaxDuration + 1)
           y == x - MinDuration
<1>2. m \in Nat /\ m > 0 /\ y \in Nat /\ y < m
  BY <1>1, DurationAssumption DEF MinDuration
<1>3. y % m = y
  <2> HIDE DEF m, y
  <2> QED BY <1>2
<1> QED BY <1>1, <1>3 DEF Wrap, MinDuration

(* Wrapping gives an integer. *)
LEMMA WrapIsInt ==
  ASSUME NEW x \in Int
  PROVE  Wrap(x) \in Int
<1> DEFINE m == 2 * (MaxDuration + 1)
           y == x - MinDuration
<1>1. m \in Nat /\ m > 0 /\ y \in Int /\ MinDuration \in Int
  BY DurationAssumption DEF MinDuration
<1>2. y % m \in Int
  <2> HIDE DEF m, y
  <2> QED BY <1>1
<1> QED BY <1>1, <1>2 DEF Wrap

(* Below the guard of linearDelay the product is an int64. *)
LEMMA ProductInRange ==
  ASSUME NEW a \in Nat, NEW n \in Nat, a > 0, n > 0, ~(n > MaxDuration \div a)
  PROVE  a * n \in 1 .. MaxDuration
<1> DEFINE q == MaxDuration \div a
<1>1. q \in Nat /\ a * q <= MaxDuration
  BY DurationAssumption
<1>2. n <= q BY <1>1
<1>3. a * n <= a * q
  <2> HIDE DEF q
  <2> QED BY <1>1, <1>2
<1>4. a * n \in Nat /\ a * n >= 1
  OBVIOUS
<1> QED BY <1>1, <1>3, <1>4, DurationAssumption

(* linearDelay of a positive initial delay is positive and an int64. *)
LEMMA LinearInRange ==
  ASSUME NEW a \in 1 .. MaxDuration, NEW n \in Nat, n > 0
  PROVE  LinearDelay(a, n) \in 1 .. MaxDuration
<1>1. a \in Nat /\ a > 0 /\ MaxDuration \in Nat /\ MaxDuration >= 1
  BY DurationAssumption
<1>2. CASE n > MaxDuration \div a
  BY <1>1, <1>2 DEF LinearDelay
<1>3. CASE ~(n > MaxDuration \div a)
  <2>1. a * n \in 1 .. MaxDuration BY <1>1, <1>3, ProductInRange
  <2>2. a * n \in 0 .. MaxDuration BY <2>1, <1>1
  <2>3. Wrap(a * n) = a * n BY <2>2, WrapInRange
  <2> QED BY <1>1, <1>3, <2>1, <2>3 DEF LinearDelay
<1> QED BY <1>2, <1>3

(* linearDelay is an integer whatever the setting. *)
LEMMA LinearIsInt ==
  ASSUME NEW a \in Int, a <= MaxDuration, NEW n \in Nat, n > 0
  PROVE  LinearDelay(a, n) \in Int
<1>1. CASE a <= 0 BY <1>1 DEF LinearDelay
<1>2. CASE a > 0
  BY <1>2, LinearInRange, DurationAssumption
<1> QED BY <1>1, <1>2

(* Every outcome of the float64 arithmetic is an integer. *)
LEMMA ConvertedIsInt ==
  ASSUME NEW x \in Int, NEW f \in Int, NEW y \in Converted(x, f)
  PROVE  y \in Int
BY DurationAssumption DEF Converted, MinDuration

(* The factor of any jitter source is an integer. *)
LEMMA FactorIsInt ==
  ASSUME NEW f \in Int, NEW s \in Int
  PROVE  Factor(ClampUnit(f), ClampUnit(s)) \in Int
<1>1. ClampUnit(f) \in Int /\ ClampUnit(s) \in Int BY DenAssumption DEF ClampUnit
<1>2. Den \in Int BY DenAssumption
<1> QED BY <1>1, <1>2 DEF Factor

-----------------------------------------------------------------------------
Inv == TypeOK /\ BaseIsPositive /\ DelayIsCapped

(* Before the first delay the invariant holds. *)
LEMMA InvInit == Init => Inv
BY BackoffAssumption DEF Init, Inv, TypeOK, BaseIsPositive, DelayIsCapped

(* Every step of Duration keeps the delay capped, and positive where it must. *)
LEMMA InvNext == Inv /\ [Next]_vars => Inv'
<1> SUFFICES ASSUME Inv, [Next]_vars PROVE Inv' OBVIOUS
<1> USE DEF Inv, TypeOK, BaseIsPositive, DelayIsCapped
<1>0. /\ cfg.initial \in Int /\ cfg.max \in Int /\ cfg.jitter \in Int
      /\ cfg.initial <= MaxDuration /\ MaxDuration \in Nat /\ MaxAttempts \in Nat \ {0}
      /\ attempt \in Nat /\ attempt > 0 /\ i \in Nat /\ i > 0
  BY BackoffAssumption, DurationAssumption DEF Setting
<1>1. CASE Base
  <2>1. LinearDelay(cfg.initial, attempt) \in Int BY <1>0, LinearIsInt
  <2>2. cfg.initial > 0 => LinearDelay(cfg.initial, attempt) \in 1 .. MaxDuration
    <3> SUFFICES ASSUME cfg.initial > 0
                 PROVE  LinearDelay(cfg.initial, attempt) \in 1 .. MaxDuration
      OBVIOUS
    <3>1. cfg.initial \in 1 .. MaxDuration BY <1>0
    <3> QED BY <1>0, <3>1, LinearInRange
  <2> QED BY <1>0, <1>1, <2>1, <2>2 DEF Base
<1>2. CASE Double
  <2>1. CASE TooLargeToDouble
    BY <1>0, <1>2, <2>1 DEF Double, TooLargeToDouble
  <2>2. CASE ~TooLargeToDouble
    <3>1. cfg.initial > 0 => 2 * d \in 1 .. MaxDuration /\ Wrap(2 * d) = 2 * d
      BY <1>0, <1>2, <2>2, WrapInRange DEF Double, TooLargeToDouble
    <3>2. Wrap(2 * d) \in Int BY WrapIsInt
    <3> QED BY <1>0, <1>2, <2>2, <3>1, <3>2 DEF Double
  <2> QED BY <2>1, <2>2
<1>3. CASE EndDoubling BY <1>3 DEF EndDoubling
<1>4. CASE Clamp BY <1>0, <1>4 DEF Clamp, ClampMax
<1>5. ASSUME NEW sample \in Samples, Jitter(sample) PROVE Inv'
  <2>1. sample \in Int BY BackoffAssumption
  <2>2. Factor(ClampUnit(cfg.jitter), ClampUnit(sample)) \in Int
    BY <1>0, <2>1, FactorIsInt
  <2>3. PICK x \in Converted(d, Factor(ClampUnit(cfg.jitter), ClampUnit(sample))) :
          d' = ClampMax(cfg.max, NotNegative(x))
    BY <1>5 DEF Jitter
  <2>4. x \in Int BY <2>2, <2>3, ConvertedIsInt
  <2>5. d' \in Int /\ (cfg.max > 0 => d' <= cfg.max)
    BY <1>0, <2>3, <2>4 DEF ClampMax, NotNegative
  <2> QED BY <1>5, <2>5 DEF Jitter
<1>6. CASE NextAttempt BY <1>0, <1>6 DEF NextAttempt
<1>7. CASE UNCHANGED vars BY <1>7 DEF vars
<1> QED BY <1>1, <1>2, <1>3, <1>4, <1>5, <1>6, <1>7 DEF Next, Stop

(* The delays are integers and the loop stays within its bounds. *)
THEOREM TypeCorrect == Spec => []TypeOK
<1>1. Inv => TypeOK BY DEF Inv
<1> QED BY <1>1, InvInit, InvNext, PTL DEF Spec

(* No product of a positive initial delay wraps, at any attempt number. *)
THEOREM BasePositive == Spec => []BaseIsPositive
<1>1. Inv => BaseIsPositive BY DEF Inv
<1> QED BY <1>1, InvInit, InvNext, PTL DEF Spec

(* Whatever the jitter source returns, and whatever the processor makes of a   *)
(* float64 out of range, no delay is above --backoff-max.                      *)
THEOREM DelayCapped == Spec => []DelayIsCapped
<1>1. Inv => DelayIsCapped BY DEF Inv
<1> QED BY <1>1, InvInit, InvNext, PTL DEF Spec

-----------------------------------------------------------------------------
(* Comparing two multiples of a positive number compares the numbers. *)
LEMMA CancelFactor ==
  ASSUME NEW a \in Int, NEW b \in Int, NEW k \in Nat, k > 0
  PROVE  /\ k * a <= k * b => a <= b
         /\ k * a < k * b => a < b
<1>1. ASSUME a > b PROVE k * a > k * b
  <2>1. a - b >= 1 BY <1>1
  <2>2. k * (a - b) >= 1 BY <2>1
  <2>3. k * (a - b) = k * a - k * b OBVIOUS
  <2> QED BY <2>2, <2>3
<1>2. ASSUME a >= b PROVE k * a >= k * b
  <2>1. a - b \in Nat BY <1>2
  <2>2. k * (a - b) >= 0 BY <2>1
  <2>3. k * (a - b) = k * a - k * b OBVIOUS
  <2> QED BY <2>2, <2>3
<1> QED BY <1>1, <1>2

(* Multiplying by a natural number keeps the order. *)
LEMMA Multiplied ==
  ASSUME NEW a \in Int, NEW b \in Int, NEW k \in Nat, a <= b
  PROVE  k * a <= k * b
<1>1. b - a \in Nat OBVIOUS
<1>2. k * (b - a) >= 0 BY <1>1
<1>3. k * (b - a) = k * b - k * a OBVIOUS
<1> QED BY <1>2, <1>3

(* A quotient is between its fraction and the one below. *)
LEMMA QuotientBounds ==
  ASSUME NEW a \in Nat, NEW b \in Nat, b > 0
  PROVE  /\ a \div b \in Nat
         /\ b * (a \div b) <= a
         /\ a < b * (a \div b + 1)
OBVIOUS

(* The factor of a clamped fraction and sample is inside [1-F, 1+F]. *)
LEMMA FactorInWindow ==
  ASSUME NEW f \in 0 .. Den - 1, NEW s \in 0 .. Den - 1
  PROVE  /\ Den * (Den - f) <= Factor(f, s)
         /\ Factor(f, s) <= Den * (Den + f)
         /\ Factor(f, s) \in Nat
<1>1. Den \in Nat /\ Den > 0 /\ f \in Nat /\ s \in Nat /\ s <= Den /\ f < Den
  BY DenAssumption
<1>2. f * s >= 0 /\ f * s <= f * Den
  <2>1. f * s <= f * Den BY <1>1, Multiplied
  <2>2. f * s \in Nat BY <1>1
  <2> QED BY <2>1, <2>2
<1>3. Factor(f, s) = Den * Den - Den * f + 2 * (f * s)
  BY <1>1 DEF Factor
<1>4. /\ Den * (Den - f) = Den * Den - Den * f
      /\ Den * (Den + f) = Den * Den + Den * f
      /\ f * Den = Den * f
      /\ Den * (Den - f) >= 0
      /\ Den * Den \in Int /\ Den * f \in Int /\ f * s \in Int
  BY <1>1
<1> DEFINE dd == Den * Den
           df == Den * f
           fs == f * s
<1>5. /\ Factor(f, s) = dd - df + 2 * fs
      /\ fs >= 0 /\ fs <= df
      /\ Den * (Den - f) = dd - df /\ Den * (Den + f) = dd + df
      /\ Den * (Den - f) >= 0
      /\ dd \in Int /\ df \in Int /\ fs \in Int
  BY <1>2, <1>3, <1>4
<1> HIDE DEF dd, df, fs
<1> QED BY <1>5

(* Products in the order the window is stated in. *)
LEMMA Regroup ==
  ASSUME NEW x \in Int, NEW w \in Int, NEW p \in Int, NEW q \in Int
  PROVE  /\ x * (Den * w) * p = Den * (x * w * p)
         /\ (Den * Den * q) * p = Den * (p * Den * q)
         /\ x * w * p \in Int /\ p * Den * q \in Int
BY DenAssumption

(* What a positive delay of which the double is an int64 is converted to stays *)
(* in the window around it, as far as the arithmetic is precise.               *)
LEMMA ConvertedInWindow ==
  ASSUME NEW x \in Nat, x > 0, 2 * x <= MaxDuration,
         NEW f \in 0 .. MaxFraction, NEW s \in 0 .. MaxFraction,
         NEW y \in Converted(x, Factor(f, s))
  PROVE  /\ y \in Nat
         /\ (y + 1) * Den * Precision > x * (Den - f) * (Precision - 1)
         /\ y * Den * Precision <= x * (Den + f) * (Precision + 1)
<1> DEFINE F == Factor(f, s)
           P == x * F
           unit == Den * Den * Precision
           l == P * (Precision - 1)
           h == P * (Precision + 1)
           low == l \div unit
           high == h \div unit
<1>1. /\ Den \in Nat /\ Den > 0 /\ f \in Nat /\ f < Den /\ f <= MaxFraction
      /\ f \in 0 .. Den - 1 /\ s \in 0 .. Den - 1 /\ MaxFraction \in Nat
      /\ MaxDuration \in Nat /\ Precision \in Nat /\ Precision >= 1
      /\ Precision - 1 \in Nat /\ Precision + 1 \in Nat
      /\ Den - f \in Nat /\ Den + f \in Nat
  BY DenAssumption, DurationAssumption, PrecisionAssumption
<1>2. F \in Nat /\ Den * (Den - f) <= F /\ F <= Den * (Den + f)
  BY <1>1, FactorInWindow
<1>3. P \in Nat
  <2> HIDE DEF F
  <2> QED BY <1>2
<1>4. unit \in Nat /\ unit > 0
  <2>1. Den * Den \in Nat /\ Den * Den > 0 BY <1>1
  <2> QED BY <1>1, <2>1
<1>5. /\ P * Precision - Magnitude(P) = l
      /\ P * Precision + Magnitude(P) = h
      /\ l \in Nat /\ h \in Nat
  <2> HIDE DEF P
  <2> QED BY <1>1, <1>3 DEF Magnitude
<1>6. /\ low \in Nat /\ l < unit * (low + 1)
      /\ high \in Nat /\ unit * high <= h
  <2> HIDE DEF unit, l, h
  <2> QED BY <1>4, <1>5, QuotientBounds
<1>7. /\ x * (Den * (Den - f)) * (Precision - 1) <= l
      /\ h <= x * (Den * (Den + f)) * (Precision + 1)
  <2> DEFINE a == Den * (Den - f)
             b == Den * (Den + f)
  <2>1. a \in Nat /\ b \in Nat /\ a <= F /\ F <= b BY <1>1, <1>2
  <2> HIDE DEF a, b, F
  <2>2. x * a <= P /\ P <= x * b BY <1>2, <2>1, Multiplied
  <2>3. x * a \in Int /\ x * b \in Int BY <2>1
  <2>4. /\ (Precision - 1) * (x * a) <= (Precision - 1) * P
        /\ (Precision + 1) * P <= (Precision + 1) * (x * b)
    <3> HIDE DEF P
    <3> QED BY <1>1, <1>3, <2>2, <2>3, Multiplied
  <2>5. /\ (Precision - 1) * (x * a) = x * a * (Precision - 1)
        /\ (Precision + 1) * (x * b) = x * b * (Precision + 1)
        /\ (Precision - 1) * P = l /\ (Precision + 1) * P = h
    <3> HIDE DEF P
    <3> QED BY <1>1, <1>3, <2>3
  <2> QED BY <2>4, <2>5 DEF a, b
<1>8. high <= MaxDuration
  <2> DEFINE top == (Den + f) * (Precision + 1)
  <2>1. top <= 2 * Den * Precision
    <3>1. (Precision + 1) * (Den + f) <= (Precision + 1) * (Den + MaxFraction)
      BY <1>1, Multiplied
    <3>2. /\ (Precision + 1) * (Den + f) = top
          /\ (Precision + 1) * (Den + MaxFraction) = (Den + MaxFraction) * (Precision + 1)
      BY <1>1
    <3>3. /\ top \in Int /\ (Den + MaxFraction) * (Precision + 1) \in Int
          /\ 2 * Den * Precision \in Int
      BY <1>1
    <3> HIDE DEF top
    <3> QED BY <3>1, <3>2, <3>3, PrecisionAssumption
  <2>2. x * (Den * (Den + f)) * (Precision + 1) = (x * Den) * top
    BY <1>1
  <2>3. x * Den \in Nat /\ top \in Int /\ 2 * Den * Precision \in Int BY <1>1
  <2>4. (x * Den) * top <= (x * Den) * (2 * Den * Precision)
    <3> HIDE DEF top
    <3> QED BY <2>1, <2>3, Multiplied
  <2>5. (x * Den) * (2 * Den * Precision) = unit * (2 * x) BY <1>1
  <2>6. unit * (2 * x) <= unit * MaxDuration
    <3> HIDE DEF unit
    <3> QED BY <1>1, <1>4, Multiplied
  <2>7. unit * high <= unit * MaxDuration
    <3>1. (x * Den) * top \in Int BY <1>1
    <3>2. /\ unit * high \in Int /\ unit * (2 * x) \in Int /\ unit * MaxDuration \in Int
      <4> HIDE DEF unit, high
      <4> QED BY <1>1, <1>4, <1>6
    <3> HIDE DEF unit, high, h, top
    <3> QED BY <1>5, <1>6, <1>7, <2>2, <2>4, <2>5, <2>6, <3>1, <3>2
  <2> HIDE DEF unit, high
  <2> QED BY <1>1, <1>4, <1>6, <2>7, CancelFactor
<1>9. y \in low .. high
  <2>1. y \in low .. high \/ high > MaxDuration
    <3>1. Converted(x, F)
            = {z \in (P * Precision - Magnitude(P)) \div unit
                        .. (P * Precision + Magnitude(P)) \div unit : z <= MaxDuration}
                \cup {z \in {MinDuration, MaxDuration} :
                        (P * Precision + Magnitude(P)) \div unit > MaxDuration}
      BY DEF Converted
    <3>2. Converted(x, F) = {z \in low .. high : z <= MaxDuration}
                              \cup {z \in {MinDuration, MaxDuration} : high > MaxDuration}
      <4> HIDE DEF P, unit, l, h, F
      <4> QED BY <1>5, <3>1
    <3>3. y \in Converted(x, F) OBVIOUS
    <3> HIDE DEF low, high, F
    <3> QED BY <3>2, <3>3
  <2> HIDE DEF low, high
  <2> QED BY <1>1, <1>6, <1>8, <2>1
<1>10. y \in Nat /\ low <= y /\ y <= high
  <2> HIDE DEF low, high
  <2> QED BY <1>6, <1>9
<1>11. unit * (low + 1) <= unit * (y + 1) /\ unit * y <= unit * high
  <2> HIDE DEF low, high, unit
  <2> QED BY <1>4, <1>6, <1>10, Multiplied
<1> DEFINE least == x * (Den - f) * (Precision - 1)
           most == x * (Den + f) * (Precision + 1)
           up == (y + 1) * Den * Precision
           down == y * Den * Precision
<1>12. /\ x * (Den * (Den - f)) * (Precision - 1) = Den * least
       /\ x * (Den * (Den + f)) * (Precision + 1) = Den * most
       /\ unit * (y + 1) = Den * up /\ unit * y = Den * down
       /\ least \in Int /\ most \in Int /\ up \in Int /\ down \in Int
  BY <1>1, <1>10, Regroup
<1>13. Den * least < Den * up /\ Den * down <= Den * most
  <2>1. /\ unit * (low + 1) \in Int /\ unit * (y + 1) \in Int
        /\ unit * high \in Int /\ unit * y \in Int
    <3> HIDE DEF low, high, unit
    <3> QED BY <1>4, <1>6, <1>10
  <2>2. /\ Den * least \in Int /\ Den * most \in Int
    <3> HIDE DEF least, most
    <3> QED BY <1>1, <1>12
  <2> HIDE DEF low, high, unit, l, h, least, most, up, down
  <2> QED BY <1>5, <1>6, <1>7, <1>11, <1>12, <2>1, <2>2
<1>14. least < up /\ down <= most
  <2> HIDE DEF least, most, up, down
  <2> QED BY <1>1, <1>12, <1>13, CancelFactor
<1> QED BY <1>10, <1>14

(* The delay that jitter starts from is the capped base. *)
JitterOfBase == pc = "jitter" => base = d /\ (cfg.max > 0 => base <= cfg.max)

(* A delay cut to a cap that the base does not exceed is still in the window. *)
LEMMA CappedStays ==
  ASSUME NEW b \in Nat, NEW f \in 0 .. MaxFraction, NEW m \in Nat, NEW y \in Nat,
         b <= m, m < y
  PROVE  /\ (m + 1) * Den * Precision > b * (Den - f) * (Precision - 1)
         /\ m * Den * Precision <= y * Den * Precision
<1> DEFINE u == Den * Precision
<1>1. /\ Den \in Nat /\ Precision \in Nat /\ Precision >= 1 /\ f \in Nat /\ f < Den
      /\ Den - f \in Nat /\ Precision - 1 \in Nat /\ u \in Nat /\ u > 0
  <2>1. Den \in Nat /\ Den > 0 /\ Precision \in Nat /\ Precision > 0
    BY DenAssumption, PrecisionAssumption, DurationAssumption
  <2>2. u \in Nat /\ u > 0 BY <2>1
  <2> QED BY <2>1, <2>2, DenAssumption
<1>2. /\ (m + 1) * Den * Precision = u * (m + 1)
      /\ m * Den * Precision = u * m /\ y * Den * Precision = u * y
      /\ b * (Den - f) * (Precision - 1) = b * ((Den - f) * (Precision - 1))
  BY <1>1
<1>3. u * m <= u * y
  <2> HIDE DEF u
  <2> QED BY <1>1, Multiplied
<1>4. (Den - f) * (Precision - 1) <= u
  <2>1. (Den - f) * (Precision - 1) <= (Den - f) * Precision BY <1>1, Multiplied
  <2>2. Precision * (Den - f) <= Precision * Den BY <1>1, Multiplied
  <2>3. /\ Precision * (Den - f) = (Den - f) * Precision /\ Precision * Den = u
        /\ (Den - f) * (Precision - 1) \in Int /\ (Den - f) * Precision \in Int
    BY <1>1
  <2> HIDE DEF u
  <2> QED BY <1>1, <2>1, <2>2, <2>3
<1>5. b * ((Den - f) * (Precision - 1)) <= b * u
  <2>1. (Den - f) * (Precision - 1) \in Int BY <1>1
  <2> HIDE DEF u
  <2> QED BY <1>1, <1>4, <2>1, Multiplied
<1>6. b * u = u * b /\ u * b <= u * m /\ u * m + u = u * (m + 1)
  <2> HIDE DEF u
  <2> QED BY <1>1, Multiplied
<1>7. b * ((Den - f) * (Precision - 1)) \in Int BY <1>1
<1> DEFINE v == b * ((Den - f) * (Precision - 1))
<1>8. v <= u * b /\ v \in Int BY <1>5, <1>6, <1>7
<1>9. u * (m + 1) > v
  <2> HIDE DEF v
  <2>1. u * b \in Int /\ u * m \in Int /\ u * (m + 1) \in Int BY <1>1
  <2> HIDE DEF u
  <2> QED BY <1>1, <1>6, <1>8, <2>1
<1> QED BY <1>2, <1>3, <1>9

(* Every step keeps the delay in the window. *)
LEMMA WindowNext ==
  Inv /\ JitterOfBase /\ JitterStaysInWindow /\ [Next]_vars
    => JitterOfBase' /\ JitterStaysInWindow'
<1> SUFFICES ASSUME Inv, JitterOfBase, JitterStaysInWindow, [Next]_vars
             PROVE  JitterOfBase' /\ JitterStaysInWindow'
  OBVIOUS
<1>0. /\ cfg.max \in Int /\ cfg.jitter \in Int /\ Den \in Nat /\ Den > 1
      /\ MaxFraction \in 1 .. Den - 1 /\ Precision \in Nat /\ Precision >= 1
      /\ d \in Int /\ base \in Int /\ MaxDuration \in Nat
  BY BackoffAssumption, DenAssumption, DurationAssumption, PrecisionAssumption
     DEF Inv, TypeOK, Setting
<1>1. CASE Base \/ Double \/ EndDoubling \/ NextAttempt
  BY <1>1 DEF Base, Double, EndDoubling, NextAttempt, JitterOfBase, JitterStaysInWindow
<1>2. CASE Clamp
  <2>1. base' = d' /\ cfg' = cfg /\ (pc' = "done" => cfg.jitter <= 0)
    BY <1>2 DEF Clamp
  <2>2. cfg.max > 0 => d' <= cfg.max BY <1>0, <1>2 DEF Clamp, ClampMax
  <2> QED BY <1>0, <2>1, <2>2 DEF JitterOfBase, JitterStaysInWindow
<1>3. ASSUME NEW sample \in Samples, Jitter(sample)
      PROVE  JitterOfBase' /\ JitterStaysInWindow'
  <2> DEFINE f == ClampUnit(cfg.jitter)
             s == ClampUnit(sample)
  <2>1. sample \in Int BY BackoffAssumption
  <2>2. f \in 0 .. MaxFraction /\ s \in 0 .. MaxFraction
    BY <1>0, <2>1 DEF ClampUnit
  <2>3. pc' = "done" /\ cfg' = cfg /\ base' = base /\ base = d
    BY <1>3 DEF Jitter, JitterOfBase
  <2>4. PICK y \in Converted(base, Factor(f, s)) : d' = ClampMax(cfg.max, NotNegative(y))
    BY <1>3, <2>3 DEF Jitter
  <2> HIDE DEF f, s
  <2>5. ASSUME base > 0, 2 * base <= MaxDuration
        PROVE  /\ (d' + 1) * Den * Precision > base * (Den - f) * (Precision - 1)
               /\ d' * Den * Precision <= base * (Den + f) * (Precision + 1)
    <3>1. /\ y \in Nat
          /\ (y + 1) * Den * Precision > base * (Den - f) * (Precision - 1)
          /\ y * Den * Precision <= base * (Den + f) * (Precision + 1)
      BY <1>0, <2>2, <2>4, <2>5, ConvertedInWindow
    <3>2. NotNegative(y) = y BY <3>1 DEF NotNegative
    <3>3. CASE d' = y BY <3>1, <3>3
    <3>4. CASE d' = cfg.max /\ base <= d' /\ d' < y
      <4>1. /\ (d' + 1) * Den * Precision > base * (Den - f) * (Precision - 1)
            /\ d' * Den * Precision <= y * Den * Precision
        <5>1. base \in Nat /\ d' \in Nat BY <1>0, <2>5, <3>4
        <5> QED BY <2>2, <3>1, <3>4, <5>1, CappedStays
      <4>2. /\ d' * Den * Precision \in Int /\ y * Den * Precision \in Int
            /\ base * (Den + f) * (Precision + 1) \in Int
        BY <1>0, <2>2, <3>1, <3>4
      <4> QED BY <3>1, <4>1, <4>2
    <3>5. d' = y \/ (d' = cfg.max /\ base <= d' /\ d' < y)
      BY <1>0, <1>3, <2>4, <3>1, <3>2 DEF ClampMax, Jitter, JitterOfBase
    <3> QED BY <3>3, <3>4, <3>5
  <2>6. JitterStaysInWindow'
    BY <2>3, <2>5 DEF JitterStaysInWindow, f
  <2> QED BY <2>3, <2>6 DEF JitterOfBase
<1>4. CASE UNCHANGED vars BY <1>4 DEF vars, JitterOfBase, JitterStaysInWindow
<1> QED BY <1>1, <1>2, <1>3, <1>4 DEF Next, Stop

(* Jitter keeps the delay inside [1-F, 1+F] of the capped base, for every      *)
(* fraction and every sample, the invalid ones included, and for every         *)
(* rounding of the float64 arithmetic: up to its precision and the nanosecond  *)
(* that truncation takes.                                                      *)
THEOREM JitterCorrect == Spec => []JitterStaysInWindow
<1>1. Init => JitterOfBase /\ JitterStaysInWindow
  BY DEF Init, JitterOfBase, JitterStaysInWindow
<1> QED BY <1>1, InvInit, InvNext, WindowNext, PTL DEF Spec

-----------------------------------------------------------------------------
(* A set of n elements has 2^n subsets: the powers of two are natural numbers. *)
LEMMA SubsetCount ==
  ASSUME NEW n \in Nat
  PROVE  /\ IsFiniteSet(SUBSET (1 .. n))
         /\ Cardinality(SUBSET (1 .. n)) = 2 ^ n
         /\ 2 ^ n \in Nat
<1>1. IsFiniteSet(1 .. n) /\ Cardinality(1 .. n) = n
  BY FS_Interval
<1>2. IsFiniteSet(SUBSET (1 .. n)) /\ Cardinality(SUBSET (1 .. n)) = 2 ^ n
  BY <1>1, FS_SUBSET
<1> QED BY <1>2, FS_CardinalityType

(* One more element doubles the subsets: half of them have it. *)
LEMMA PowerOfTwo ==
  /\ 2 ^ 0 = 1
  /\ \A n \in Nat : 2 ^ n \in Nat /\ 2 ^ (n + 1) = 2 * 2 ^ n
<1>1. 2 ^ 0 = 1
  <2>1. SUBSET (1 .. 0) = {{}}
    <3>1. 1 .. 0 = {} OBVIOUS
    <3> QED BY <3>1
  <2>2. Cardinality(SUBSET (1 .. 0)) = 1 BY <2>1, FS_Singleton
  <2> QED BY <2>2, SubsetCount
<1>2. ASSUME NEW n \in Nat PROVE 2 ^ n \in Nat /\ 2 ^ (n + 1) = 2 * 2 ^ n
  <2> DEFINE Without == SUBSET (1 .. n)
             With == {s \in SUBSET (1 .. n + 1) : n + 1 \in s}
             Add == [s \in Without |-> s \cup {n + 1}]
  <2>1. IsFiniteSet(Without) /\ Cardinality(Without) = 2 ^ n /\ 2 ^ n \in Nat
    BY SubsetCount
  <2>2. Add \in Bijection(Without, With)
    <3>1. Add \in [Without -> With]
      <4>1. \A s \in SUBSET (1 .. n) : s \cup {n + 1} \in With OBVIOUS
      <4> QED BY <4>1
    <3>2. ASSUME NEW s \in Without, NEW t \in Without, Add[s] = Add[t]
          PROVE  s = t
      <4>1. s \cup {n + 1} = t \cup {n + 1} BY <3>2
      <4>2. n + 1 \notin s /\ n + 1 \notin t
        <5>1. n + 1 \notin 1 .. n OBVIOUS
        <5> QED BY <5>1
      <4> QED BY <4>1, <4>2
    <3>3. ASSUME NEW t \in With PROVE \E s \in Without : Add[s] = t
      <4>1. t \ {n + 1} \in Without OBVIOUS
      <4>2. (t \ {n + 1}) \cup {n + 1} = t OBVIOUS
      <4> QED BY <4>1, <4>2
    <3> HIDE DEF Add, With, Without
    <3> QED BY <3>1, <3>2, <3>3 DEF Bijection, Injection, Surjection, IsInjective
  <2>3. IsFiniteSet(With) /\ Cardinality(With) = 2 ^ n
    BY <2>1, <2>2, FS_Bijection DEF ExistsBijection
  <2>4. SUBSET (1 .. n + 1) = Without \cup With /\ Without \cap With = {}
    <3>1. 1 .. n + 1 = (1 .. n) \cup {n + 1} /\ n + 1 \notin 1 .. n OBVIOUS
    <3> QED BY <3>1
  <2>5. Cardinality(SUBSET (1 .. n + 1)) = 2 ^ n + 2 ^ n - Cardinality({})
    <3> HIDE DEF Without, With
    <3> QED BY <2>1, <2>3, <2>4, FS_Union
  <2>6. Cardinality(SUBSET (1 .. n + 1)) = 2 ^ (n + 1)
    BY SubsetCount
  <2> QED BY <2>1, <2>5, <2>6, FS_EmptySet
<1> QED BY <1>1, <1>2

(* A larger exponent gives no smaller power. *)
LEMMA PowerGrows ==
  ASSUME NEW m \in Nat, NEW n \in Nat, m <= n
  PROVE  2 ^ m <= 2 ^ n
<1>1. SUBSET (1 .. m) \in SUBSET (SUBSET (1 .. n)) OBVIOUS
<1>2. IsFiniteSet(SUBSET (1 .. n)) BY SubsetCount
<1>3. Cardinality(SUBSET (1 .. m)) <= Cardinality(SUBSET (1 .. n))
  BY <1>1, <1>2, FS_Subset
<1> QED BY <1>3, SubsetCount

(* Above the guard of linearDelay, and of one doubling, the product is above   *)
(* the largest int64.                                                          *)
LEMMA ProductTooLarge ==
  ASSUME NEW a \in Nat, NEW n \in Nat, a > 0, n > MaxDuration \div a
  PROVE  a * n > MaxDuration
<1> DEFINE q == MaxDuration \div a
<1>1. q \in Nat /\ MaxDuration < a * (q + 1)
  BY DurationAssumption, QuotientBounds
<1>2. q + 1 <= n BY <1>1
<1>3. a * (q + 1) <= a * n
  <2> HIDE DEF q
  <2> QED BY <1>1, <1>2, Multiplied
<1>4. a * (q + 1) \in Int /\ a * n \in Int /\ MaxDuration \in Int
  <2> HIDE DEF q
  <2> QED BY <1>1, DurationAssumption
<1> HIDE DEF q
<1> QED BY <1>1, <1>3, <1>4

(* linearDelay is the product of which everything above an int64 is cut off. *)
LEMMA LinearSaturates ==
  ASSUME NEW a \in 1 .. MaxDuration, NEW n \in Nat, n > 0
  PROVE  LinearDelay(a, n) = IF a * n > MaxDuration THEN MaxDuration ELSE a * n
<1>1. a \in Nat /\ a > 0 /\ MaxDuration \in Nat BY DurationAssumption
<1>2. CASE n > MaxDuration \div a
  <2>1. a * n > MaxDuration BY <1>1, <1>2, ProductTooLarge
  <2> QED BY <1>1, <1>2, <2>1 DEF LinearDelay
<1>3. CASE ~(n > MaxDuration \div a)
  <2>1. a * n \in 1 .. MaxDuration BY <1>1, <1>3, ProductInRange
  <2>2. a * n \in 0 .. MaxDuration BY <2>1, <1>1
  <2>3. Wrap(a * n) = a * n BY <2>2, WrapInRange
  <2>4. ~(a * n > MaxDuration) BY <1>1, <2>1
  <2> QED BY <1>1, <1>3, <2>3, <2>4 DEF LinearDelay
<1> QED BY <1>2, <1>3

(* Before its turn number i the loop of expDelay has doubled the initial delay *)
(* i - 1 times.                                                                *)
DoubledSoFar ==
  pc = "doubling" =>
    /\ cfg.strategy = "exponential" /\ cfg.initial > 0
    /\ i <= attempt
    /\ d = cfg.initial * 2 ^ (i - 1)

(* Every step of baseDelay keeps to the table of the documentation. *)
LEMMA ReferenceNext ==
  Inv /\ DoubledSoFar /\ BaseIsSaturatedReference /\ [Next]_vars
    => DoubledSoFar' /\ BaseIsSaturatedReference'
<1> SUFFICES ASSUME Inv, DoubledSoFar, BaseIsSaturatedReference, [Next]_vars
             PROVE  DoubledSoFar' /\ BaseIsSaturatedReference'
  OBVIOUS
<1>0. /\ cfg.initial \in Int /\ cfg.initial <= MaxDuration /\ MaxDuration \in Nat
      /\ cfg.strategy \in {"constant", "linear", "exponential"}
      /\ attempt \in Nat /\ attempt > 0 /\ i \in Nat /\ i > 0 /\ d \in Int
  BY BackoffAssumption, DurationAssumption DEF Inv, TypeOK, Setting
<1>1. CASE Base
  <2>1. cfg' = cfg /\ attempt' = attempt /\ i' = 1 /\ Reference' = Reference
    BY <1>1 DEF Base, Reference
  <2>2. CASE cfg.strategy = "exponential" /\ cfg.initial > 0
    <3>1. d' = cfg.initial /\ pc' = "doubling" BY <1>1, <2>2 DEF Base
    <3>2. cfg.initial = cfg.initial * 2 ^ (1 - 1) BY <1>0, PowerOfTwo
    <3> QED BY <1>0, <2>1, <2>2, <3>1, <3>2 DEF DoubledSoFar, BaseIsSaturatedReference
  <2>3. CASE cfg.initial <= 0
    <3>1. d' = cfg.initial /\ pc' = "clamp"
      BY <1>0, <1>1, <2>3 DEF Base, LinearDelay
    <3>2. Reference = cfg.initial BY <2>3 DEF Reference
    <3> QED BY <1>0, <2>1, <3>1, <3>2 DEF DoubledSoFar, BaseIsSaturatedReference
  <2>4. CASE cfg.initial > 0 /\ cfg.strategy = "constant"
    <3>1. d' = cfg.initial /\ pc' = "clamp" BY <1>1, <2>4 DEF Base
    <3>2. Reference = cfg.initial BY <1>0, <2>4 DEF Reference
    <3> QED BY <1>0, <2>1, <3>1, <3>2 DEF DoubledSoFar, BaseIsSaturatedReference
  <2>5. CASE cfg.initial > 0 /\ cfg.strategy = "linear"
    <3>1. d' = LinearDelay(cfg.initial, attempt) /\ pc' = "clamp"
      BY <1>1, <2>5 DEF Base
    <3>2. Reference = cfg.initial * attempt BY <1>0, <2>5 DEF Reference
    <3>3. cfg.initial \in 1 .. MaxDuration BY <1>0, <2>5
    <3>4. d' = IF Reference > MaxDuration THEN MaxDuration ELSE Reference
      BY <1>0, <3>1, <3>2, <3>3, LinearSaturates
    <3> QED BY <2>1, <3>1, <3>4 DEF DoubledSoFar, BaseIsSaturatedReference
  <2> QED BY <1>0, <2>2, <2>3, <2>4, <2>5
<1>2. CASE Double
  <2>1. /\ cfg.strategy = "exponential" /\ cfg.initial > 0 /\ i < attempt
        /\ d = cfg.initial * 2 ^ (i - 1) /\ d > 0 /\ d <= MaxDuration
        /\ cfg' = cfg /\ attempt' = attempt
    BY <1>0, <1>2 DEF Double, DoubledSoFar, Inv, BaseIsPositive
  <2>2. 2 * d = cfg.initial * 2 ^ i
    <3>1. 2 ^ (i - 1) \in Nat /\ 2 ^ ((i - 1) + 1) = 2 * 2 ^ (i - 1)
      BY <1>0, PowerOfTwo
    <3>2. (i - 1) + 1 = i BY <1>0
    <3> DEFINE w == 2 ^ (i - 1)
               v == 2 ^ i
    <3>3. v = 2 * w /\ w \in Nat /\ d = cfg.initial * w BY <2>1, <3>1, <3>2
    <3> HIDE DEF w, v
    <3>4. 2 * d = cfg.initial * v BY <1>0, <3>3
    <3> QED BY <3>4 DEF v
  <2>3. CASE TooLargeToDouble
    <3>1. d' = MaxDuration /\ pc' = "clamp" BY <1>2, <2>3 DEF Double
    <3>2. 2 * d > MaxDuration
      BY <1>0, <2>1, <2>3, ProductTooLarge DEF TooLargeToDouble
    <3>3. cfg.initial * 2 ^ i <= cfg.initial * 2 ^ (attempt - 1)
      <4>1. attempt - 1 \in Nat /\ i <= attempt - 1 BY <1>0, <2>1
      <4>2. 2 ^ i <= 2 ^ (attempt - 1) /\ 2 ^ i \in Nat /\ 2 ^ (attempt - 1) \in Nat
        BY <1>0, <4>1, PowerGrows, PowerOfTwo
      <4>3. cfg.initial \in Nat BY <1>0, <2>1
      <4> DEFINE w == 2 ^ (attempt - 1)
                 v == 2 ^ i
      <4>4. v <= w /\ v \in Int /\ w \in Int BY <4>2
      <4> HIDE DEF w, v
      <4>5. cfg.initial * v <= cfg.initial * w BY <4>3, <4>4, Multiplied
      <4> QED BY <4>5 DEF w, v
    <3>4. Reference = cfg.initial * 2 ^ (attempt - 1) /\ Reference' = Reference
      BY <1>0, <2>1 DEF Reference
    <3>5. Reference \in Int /\ cfg.initial * 2 ^ i \in Int
      <4>1. attempt - 1 \in Nat BY <1>0
      <4>2. 2 ^ i \in Nat /\ 2 ^ (attempt - 1) \in Nat BY <1>0, <4>1, PowerOfTwo
      <4> QED BY <1>0, <3>4, <4>2
    <3>6. Reference > MaxDuration
      BY <1>0, <2>2, <3>2, <3>3, <3>4, <3>5
    <3> QED BY <3>1, <3>4, <3>6 DEF DoubledSoFar, BaseIsSaturatedReference
  <2>4. CASE ~TooLargeToDouble
    <3>1. 2 * d \in 0 .. MaxDuration BY <1>0, <2>1, <2>4 DEF TooLargeToDouble
    <3>2. d' = 2 * d /\ i' = i + 1 /\ pc' = "doubling"
      BY <1>2, <2>4, <3>1, WrapInRange DEF Double
    <3>3. i' - 1 = i BY <1>0, <3>2
    <3>4. d' = cfg'.initial * 2 ^ (i' - 1) BY <2>1, <2>2, <3>2, <3>3
    <3> QED BY <1>0, <2>1, <3>2, <3>4 DEF DoubledSoFar, BaseIsSaturatedReference
  <2> QED BY <2>3, <2>4
<1>3. CASE EndDoubling
  <2>1. /\ cfg.strategy = "exponential" /\ cfg.initial > 0 /\ i = attempt
        /\ d = cfg.initial * 2 ^ (i - 1) /\ d <= MaxDuration
    BY <1>0, <1>3 DEF EndDoubling, DoubledSoFar, Inv, BaseIsPositive
  <2>2. d' = d /\ pc' = "clamp" /\ Reference' = Reference
    BY <1>3 DEF EndDoubling, Reference
  <2>3. Reference = d BY <1>0, <2>1 DEF Reference
  <2>4. d' = IF Reference' > MaxDuration THEN MaxDuration ELSE Reference'
    BY <1>0, <2>1, <2>2, <2>3
  <2> QED BY <2>2, <2>4 DEF DoubledSoFar, BaseIsSaturatedReference
<1>4. CASE Clamp \/ NextAttempt \/ \E sample \in Samples : Jitter(sample)
  BY <1>4 DEF Clamp, NextAttempt, Jitter, DoubledSoFar, BaseIsSaturatedReference
<1>5. CASE UNCHANGED vars
  BY <1>5 DEF vars, DoubledSoFar, BaseIsSaturatedReference, Reference
<1> QED BY <1>1, <1>2, <1>3, <1>4, <1>5 DEF Next, Stop

(* However large the attempt number and however wide the integers, the base    *)
(* delay is the documented one or the largest int64: linearDelay and expDelay  *)
(* saturate exactly where the product leaves the range.                        *)
THEOREM BaseCorrect == Spec => []BaseIsSaturatedReference
<1>1. Init => DoubledSoFar /\ BaseIsSaturatedReference
  BY DEF Init, DoubledSoFar, BaseIsSaturatedReference
<1> QED BY <1>1, InvInit, InvNext, ReferenceNext, PTL DEF Spec
=============================================================================
