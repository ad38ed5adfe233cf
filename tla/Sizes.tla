-------------------------------- MODULE Sizes --------------------------------
(***************************************************************************)
(* ParseSize and FormatSize (internal/config/config.go): byte sizes as     *)
(* text and as int64.  A text is its digits and its unit; the units stand  *)
(* to each other as B, KiB, MiB and GiB do.                                *)
(***************************************************************************)
EXTENDS Integers

CONSTANTS
  MaxInt,       \* math.MaxInt64: one less than a power of two
  Kilo          \* 1024

ASSUME SizesAssumption == MaxInt \in Nat /\ Kilo \in Nat \ {0, 1}

Units == {1, Kilo, Kilo * Kilo, Kilo * Kilo * Kilo}

(* Digits may be more than an int64 can hold; -1 stands for a text that is    *)
(* not digits and a unit.                                                     *)
SizeText == [digits : Nat \cup {-1}, unit : Units]

OutOfRange == -1

Wrap(x) == ((x + MaxInt + 1) % (2 * (MaxInt + 1))) - MaxInt - 1

FaultyParseSize(t) ==       \* looks for the overflow when it has happened
  IF t.digits < 0 \/ t.digits > MaxInt \/ Wrap(t.digits * t.unit) < 0
    THEN OutOfRange
    ELSE Wrap(t.digits * t.unit)

ParseSize(t) ==
  IF t.digits < 0 \/ t.digits > MaxInt \/ t.digits > MaxInt \div t.unit
    THEN OutOfRange
    ELSE Wrap(t.digits * t.unit)

(* The largest unit that divides n evenly. *)
FormatSize(n) ==
  LET fits == {u \in Units : n >= u /\ n % u = 0}
      unit == IF fits = {} THEN 1 ELSE CHOOSE u \in fits : \A v \in fits : v <= u
  IN  [digits |-> n \div unit, unit |-> unit]
=============================================================================
