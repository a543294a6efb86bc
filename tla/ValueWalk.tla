----------------------------- MODULE ValueWalk -----------------------------
(***************************************************************************)
(* The random walk of the simulated numeric values (updateSingle of        *)
(* Library/TestFolderLib.cpp and, line for line the same computation, of   *)
(* Library/TestStatusCode.cpp).                                            *)
(*                                                                         *)
(* A tick adds -4, ..., 4 percent of the type's span to the value, as a    *)
(* double, converts the sum back to the type, and clamps it.  Sums are     *)
(* computed in hundredths here, which is exact.  Between two ticks a       *)
(* client may write any value of the type: a behaviour begins with the     *)
(* value written and follows the ticks until the next write.               *)
(***************************************************************************)
EXTENDS Integers

CONSTANTS Half32,   \* 2^31, half the number of 32-bit values; smaller in TLC
          Half64,   \* 2^63, likewise
          Huge,     \* a bound on the magnitude of the floating-point values
          NaN

ASSUME WidthsAssumption ==
  /\ Half32 \in Nat /\ Half32 >= 512
  /\ Half64 \in Nat /\ Half64 >= 4096
  /\ Huge \in Nat /\ Huge >= 2048
ASSUME NaNAssumption == NaN \notin Int

-----------------------------------------------------------------------------
(* One row per case of the switch: the values the type represents, the     *)
(* range of the walk, where the first "if" puts a value below the range,   *)
(* and the factor that is multiplied by the percentage.                    *)
Row(min, max, lo, hi, low, span) ==
  [min |-> min, max |-> max, lo |-> lo, hi |-> hi, low |-> low, span |-> span]

Types ==
  [Byte   |-> Row(0, 255, 0, 64, 0, 64),
   Int16  |-> Row(-32768, 32767, -50, 100, -50, 150),
   UInt16 |-> Row(0, 65535, 0, 100, 0, 100),
   Int32  |-> Row(-Half32, Half32 - 1, 0, 360, 0, 360),
   UInt32 |-> Row(0, 2 * Half32 - 1, 0, 360, 0, 360),
   Int64  |-> Row(-Half64, Half64 - 1, -1000, 1000, 1000, 2000),
   UInt64 |-> Row(0, 2 * Half64 - 1, 0, 3000, 0, 3000),
   Float  |-> Row(-Huge, Huge, 0, 1000, 0, 1000),
   Double |-> Row(-Huge, Huge, 0, 1000, 0, 1000)]

Kinds == DOMAIN Types
Floating == {"Float", "Double"}

Representable(k) ==
  (Types[k].min..Types[k].max) \cup (IF k \in Floating THEN {NaN} ELSE {})

InRange(k, v) == v \in Types[k].lo..Types[k].hi

(* mySign() * myPercent(), in percent. *)
Percents == -4..4

(* Conversion of hundredths to an integer type drops the fraction. *)
Truncated(x) == IF x >= 0 THEN x \div 100 ELSE -((-x) \div 100)

(* The conversion of a number the type cannot represent is undefined in C++;
   builds wrap around, saturate, or give the processor's indefinite value. *)
Converted(k, x) ==
  LET t == Truncated(x)
      min == Types[k].min
      max == Types[k].max
  IN IF k \in Floating \/ t \in min..max THEN {t}
     ELSE {min + ((t - min) % (max - min + 1)),
           IF t < min THEN min ELSE max,
           IF min < 0 THEN min ELSE (max + 1) \div 2}

(* Mutants: the upper bound is forgotten, or replaced by the middle. *)
ClampBelowOnly(k, v) == IF v < Types[k].lo THEN Types[k].low ELSE v
ClampToMiddle(k, v) ==
  IF v < Types[k].lo THEN Types[k].low
  ELSE IF v > Types[k].hi THEN (Types[k].lo + Types[k].hi) \div 2 ELSE v

(* The two "if"s that follow the addition. *)
Clamp(k, v) ==
  IF v < Types[k].lo THEN Types[k].low
  ELSE IF v > Types[k].hi THEN Types[k].hi ELSE v

(* Mutant: the percentage is an integer, which is zero. *)
SumPercentZero(k, v, p) == 100 * v

Sum(k, v, p) == 100 * v + Types[k].span * p

(* The values a tick with percentage p may leave; NaN is neither below nor
   above the range. *)
Outcomes(k, v, p) ==
  IF v = NaN THEN {NaN} ELSE {Clamp(k, c) : c \in Converted(k, Sum(k, v, p))}

-----------------------------------------------------------------------------
VARIABLES kind,    \* the type of a node
          value,   \* its value
          updated  \* history: a tick has passed since the client's write

vars == << kind, value, updated >>

Init ==
  /\ kind \in Kinds
  /\ value \in Representable(kind)
  /\ updated = FALSE

Tick ==
  /\ \E p \in Percents : value' \in Outcomes(kind, value, p)
  /\ updated' = TRUE
  /\ UNCHANGED kind

Next == Tick

Spec == Init /\ [][Next]_vars

-----------------------------------------------------------------------------
TypeOK ==
  /\ kind \in Kinds
  /\ value \in Types[kind].min..Types[kind].max \/ (kind \in Floating /\ value = NaN)
  /\ updated \in BOOLEAN

(* After a tick of updateSingle a number lies inside the range of its type,
   whatever number a client has written before and whatever an undefined
   conversion produces. *)
TickInRange == updated /\ value # NaN => InRange(kind, value)

(* From inside the range a tick moves a value by at most 4 percent of the
   span, rounded up, or to an end of the range: an undefined conversion (a
   negative sum in an unsigned type) never lets it land anywhere else. *)
StaysNear ==
  [][InRange(kind, value) /\ value' # Types[kind].lo /\ value' # Types[kind].hi =>
       /\ 100 * (value' - value) < 4 * Types[kind].span + 100
       /\ 100 * (value - value') < 4 * Types[kind].span + 100]_vars

(* No number is a dead end of the simulation: the fraction dropped by the
   conversion and the clamping leave some tick that changes it. *)
NotStuck ==
  value # NaN => \E p \in Percents : \E v \in Outcomes(kind, value, p) : v # value
=============================================================================
