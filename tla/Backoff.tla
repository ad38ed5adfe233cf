------------------------------- MODULE Backoff -------------------------------
(***************************************************************************)
(* retry.Duration (internal/retry/backoff.go): the delay before each of    *)
(* the retries of one call, in int64 nanoseconds, and the jitter on it in  *)
(* float64.  Engine.Do asks for attempt 1, 2, 3, ... in turn.              *)
(*                                                                         *)
(* Fractions and samples are multiples of 1/Den.  What the float64         *)
(* operations of the jitter make of them is not exact: 1 - 0.9 is          *)
(* 0.09999999999999998.  Each operation, the conversion of the delay       *)
(* included, is off by at most one part in 2^53, and the five of them      *)
(* together by less than one part in Precision; any result within that is  *)
(* an outcome.  So is, for a product that no int64 can hold, whatever the  *)
(* processor makes of it.                                                  *)
(***************************************************************************)
EXTENDS Integers

CONSTANTS
  MaxDuration,     \* math.MaxInt64: one less than a power of two
  Den,             \* the denominator of jitter fractions and samples
  MaxFraction,     \* maxJitterFraction, in units of 1/Den
  Precision,       \* the float64 arithmetic is off by at most 1/Precision
  Settings,        \* the backoff settings: see Setting
  Samples,         \* what the jitter source may return, in units of 1/Den
  MaxAttempts      \* bound on the attempt number

Setting == [strategy : {"constant", "linear", "exponential"},
            initial : Int, max : Int, jitter : Int]

ASSUME DurationAssumption == MaxDuration \in Nat /\ MaxDuration % 2 = 1

ASSUME DenAssumption == Den \in Nat \ {0, 1} /\ MaxFraction \in 1 .. Den - 1

(* No rounding takes the largest factor above two, nor the largest int64 by   *)
(* more than its own part.                                                    *)
ASSUME PrecisionAssumption ==
  /\ Precision \in 1 .. MaxDuration
  /\ (Den + MaxFraction) * (Precision + 1) <= 2 * Den * Precision

ASSUME BackoffAssumption ==
  /\ Settings \subseteq Setting
  /\ \A s \in Settings : s.initial <= MaxDuration
  /\ Samples \subseteq Int
  /\ MaxAttempts \in Nat \ {0}

VARIABLES
  cfg,       \* the backoff part of config.RetryConfig
  attempt,   \* the attempt Duration is asked about
  pc,        \* "base", "doubling", "clamp", "jitter" or "done"
  i,         \* the loop variable of expDelay
  d,         \* the delay being computed
  base       \* history: the delay before jitter

vars == <<cfg, attempt, pc, i, d, base>>

TypeOK ==
  /\ cfg \in Settings
  /\ attempt \in 1 .. MaxAttempts
  /\ pc \in {"base", "doubling", "clamp", "jitter", "done"}
  /\ i \in 1 .. MaxAttempts
  /\ d \in Int /\ base \in Int

Init ==
  /\ cfg \in Settings
  /\ attempt = 1 /\ pc = "base" /\ i = 1
  /\ d = 0 /\ base = 0

-----------------------------------------------------------------------------
(* int64 *)

MinDuration == -MaxDuration - 1

Wrap(x) == ((x - MinDuration) % (2 * (MaxDuration + 1))) + MinDuration

LinearDelay(initial, n) ==
  IF initial <= 0 THEN initial
  ELSE IF n > MaxDuration \div initial THEN MaxDuration
  ELSE Wrap(initial * n)

FaultyClampMax(max, x) == x

(* A cap of zero or less is no cap. *)
ClampMax(max, x) == IF max > 0 /\ x > max THEN max ELSE x

(* baseDelay, but for the loop of expDelay *)
Base ==
  /\ pc = "base"
  /\ IF cfg.strategy = "exponential" /\ cfg.initial > 0
       THEN d' = cfg.initial /\ pc' = "doubling"
       ELSE /\ d' = IF cfg.strategy = "linear"
                      THEN LinearDelay(cfg.initial, attempt) ELSE cfg.initial
            /\ pc' = "clamp"
  /\ i' = 1
  /\ UNCHANGED <<cfg, attempt, base>>

FaultyTooLargeToDouble == d > MaxDuration

TooLargeToDouble == d > MaxDuration \div 2

(* One turn of the loop of expDelay. *)
Double ==
  /\ pc = "doubling" /\ i < attempt
  /\ IF TooLargeToDouble
       THEN d' = MaxDuration /\ pc' = "clamp" /\ UNCHANGED i
       ELSE d' = Wrap(2 * d) /\ i' = i + 1 /\ UNCHANGED pc
  /\ UNCHANGED <<cfg, attempt, base>>

EndDoubling ==
  /\ pc = "doubling" /\ i >= attempt
  /\ pc' = "clamp"
  /\ UNCHANGED <<cfg, attempt, i, d, base>>

Clamp ==
  /\ pc = "clamp"
  /\ d' = ClampMax(cfg.max, d) /\ base' = d'
  /\ pc' = IF cfg.jitter <= 0 THEN "done" ELSE "jitter"
  /\ UNCHANGED <<cfg, attempt, i>>

-----------------------------------------------------------------------------
(* float64 *)

FaultyClampUnit(v) == IF v < 0 THEN 0 ELSE v

ClampUnit(v) ==
  IF v < 0 THEN 0 ELSE IF v > MaxFraction THEN MaxFraction ELSE v

(* 1 - fraction + sample*2*fraction, times Den * Den: what the float64         *)
(* operations come close to                                                    *)
Factor(fraction, sample) == Den * Den - Den * fraction + 2 * sample * fraction

Magnitude(x) == IF x < 0 THEN -x ELSE x

(* time.Duration(float64(d)*factor): within the precision of the product, and  *)
(* truncated (of a negative product only the sign matters).  Out of range,     *)
(* amd64 gives the smallest int64 and arm64 the nearest one.                   *)
Converted(x, factor) ==
  LET product == x * factor
      unit == Den * Den * Precision
      low  == (product * Precision - Magnitude(product)) \div unit
      high == (product * Precision + Magnitude(product)) \div unit
  IN  {y \in low .. high : y <= MaxDuration}
        \cup {y \in {MinDuration, MaxDuration} : high > MaxDuration}

NotNegative(x) == IF x > 0 THEN x ELSE 0

Jitter(sample) ==
  /\ pc = "jitter"
  /\ \E x \in Converted(d, Factor(ClampUnit(cfg.jitter), ClampUnit(sample))) :
       d' = ClampMax(cfg.max, NotNegative(x))
  /\ pc' = "done"
  /\ UNCHANGED <<cfg, attempt, i, base>>

(* The attempt after the wait failed too. *)
NextAttempt ==
  /\ pc = "done" /\ attempt < MaxAttempts
  /\ attempt' = attempt + 1
  /\ pc' = "base"
  /\ UNCHANGED <<cfg, i, d, base>>

Stop == pc = "done" /\ attempt = MaxAttempts /\ UNCHANGED vars

Next ==
  \/ Base \/ Double \/ EndDoubling \/ Clamp
  \/ \E sample \in Samples : Jitter(sample)
  \/ NextAttempt
  \/ Stop

Spec == Init /\ [][Next]_vars

-----------------------------------------------------------------------------
(* The table of docs/retry.md:101-105, in integers without a width. *)
Reference ==
  IF cfg.initial <= 0 THEN cfg.initial
  ELSE CASE cfg.strategy = "constant"    -> cfg.initial
         [] cfg.strategy = "linear"      -> cfg.initial * attempt
         [] cfg.strategy = "exponential" -> cfg.initial * 2 ^ (attempt - 1)

(* However large the attempt number, the base delay is the documented one or  *)
(* the largest there is: no product wraps (linearDelay, expDelay).            *)
BaseIsSaturatedReference ==
  pc = "clamp" => d = IF Reference > MaxDuration THEN MaxDuration ELSE Reference

(* What the arithmetic of a positive initial delay comes to is an int64, and   *)
(* positive: the guards of linearDelay and expDelay come before the product.  *)
BaseIsPositive ==
  pc \in {"doubling", "clamp"} /\ cfg.initial > 0 => d \in 1 .. MaxDuration

(* No delay, jittered or not, is above --backoff-max (backoff.go:36-37).      *)
DelayIsCapped == pc = "done" /\ cfg.max > 0 => d <= cfg.max

(* Jitter keeps the delay inside [1-F, 1+F] of the capped base, up to the     *)
(* rounding of the float64 arithmetic and the nanosecond that truncation       *)
(* takes, while twice the base is an int64 (docs/retry.md:107-109): in         *)
(* particular no delay of more than a few nanoseconds collapses to zero        *)
(* (backoff.go:12-15).                                                         *)
JitterStaysInWindow ==
  pc = "done" /\ cfg.jitter > 0 /\ base > 0 /\ 2 * base <= MaxDuration =>
    LET fraction == ClampUnit(cfg.jitter)
    IN  /\ (d + 1) * Den * Precision > base * (Den - fraction) * (Precision - 1)
        /\ d * Den * Precision <= base * (Den + fraction) * (Precision + 1)
=============================================================================
