-------------------------- MODULE ValueWalkProofs --------------------------
(***************************************************************************)
(* Every tick leaves a number of every type inside its range and near where *)
(* it was, and some tick changes it, for all widths of the integers, all   *)
(* values clients write, and all outcomes of the undefined conversions.    *)
(***************************************************************************)
EXTENDS ValueWalk, TLAPS

(* The rows of the table are sane: bounds are integers, the range is not
   empty and representable, and a value below it is put inside it. *)
LEMMA RowsSane ==
  ASSUME NEW k \in Kinds
  PROVE  /\ Types[k].lo \in Int /\ Types[k].hi \in Int /\ Types[k].low \in Int
         /\ Types[k].min \in Int /\ Types[k].max \in Int /\ Types[k].span \in Int
         /\ Types[k].min <= Types[k].lo /\ Types[k].lo <= Types[k].hi
         /\ Types[k].hi <= Types[k].max
         /\ Types[k].lo <= Types[k].low /\ Types[k].low <= Types[k].hi
<1>1. Half32 \in Nat /\ Half32 >= 512 /\ Half64 \in Nat /\ Half64 >= 4096
        /\ Huge \in Nat /\ Huge >= 2048
  BY WidthsAssumption
<1>2. k \in {"Byte", "Int16", "UInt16", "Int32", "UInt32", "Int64", "UInt64", "Float", "Double"}
  BY DEF Kinds, Types
<1> QED
  BY <1>1, <1>2 DEF Types, Row

(* The two "if"s of updateSingle leave an integer inside the range. *)
LEMMA ClampInRange ==
  ASSUME NEW k \in Kinds, NEW v \in Int
  PROVE  InRange(k, Clamp(k, v))
BY RowsSane DEF InRange, Clamp

(* Dropping the fraction leaves an integer. *)
LEMMA TruncatedInt ==
  ASSUME NEW x \in Int
  PROVE  Truncated(x) \in Int
BY DEF Truncated

(* Whatever a conversion produces is an integer. *)
LEMMA ConvertedInt ==
  ASSUME NEW k \in Kinds, NEW x \in Int
  PROVE  Converted(k, x) \subseteq Int
<1> DEFINE t == Truncated(x)
           min == Types[k].min
           max == Types[k].max
<1>1. t \in Int
  BY TruncatedInt
<1>2. min \in Int /\ max \in Int /\ min <= max
  BY RowsSane
<1>3. (t - min) % (max - min + 1) \in Int
  BY <1>1, <1>2
<1>4. (max + 1) \div 2 \in Int
  BY <1>2
<1>5. Converted(k, x) \subseteq
        {t, min + ((t - min) % (max - min + 1)), min, max, (max + 1) \div 2}
  BY DEF Converted
<1> QED
  BY <1>1, <1>2, <1>3, <1>4, <1>5

(* A tick takes every number into the range, and leaves NaN alone. *)
LEMMA OutcomesInRange ==
  ASSUME NEW k \in Kinds, NEW v \in Int \cup {NaN}, NEW p \in Percents,
         NEW u \in Outcomes(k, v, p)
  PROVE  IF v = NaN THEN u = NaN ELSE InRange(k, u)
<1>1. CASE v = NaN
  BY <1>1 DEF Outcomes
<1>2. CASE v # NaN
  <2>1. v \in Int /\ p \in Int /\ Types[k].span \in Int
    BY <1>2, RowsSane DEF Percents
  <2>2. Sum(k, v, p) \in Int
    BY <2>1 DEF Sum
  <2>3. PICK c \in Converted(k, Sum(k, v, p)) : u = Clamp(k, c)
    BY <1>2 DEF Outcomes
  <2>4. c \in Int
    BY <2>2, <2>3, ConvertedInt
  <2> QED
    BY <1>2, <2>3, <2>4, ClampInRange
<1> QED
  BY <1>1, <1>2

(* A value in range is representable. *)
LEMMA RangeRepresentable ==
  ASSUME NEW k \in Kinds, NEW v, InRange(k, v)
  PROVE  v \in Types[k].min..Types[k].max
BY RowsSane DEF InRange

(* The inductive invariant: what TickInRange says of the past tick and the type
   of the value are all that the next tick needs. *)
WalkInv == TypeOK /\ TickInRange

LEMMA InitWalk == Init => WalkInv
<1> SUFFICES ASSUME Init PROVE WalkInv
  OBVIOUS
<1>1. TypeOK
  BY DEF Init, TypeOK, Representable
<1>2. TickInRange
  BY DEF Init, TickInRange
<1> QED
  BY <1>1, <1>2 DEF WalkInv

LEMMA NextWalk == WalkInv /\ [Next]_vars => WalkInv'
<1> SUFFICES ASSUME WalkInv, [Next]_vars PROVE WalkInv'
  OBVIOUS
<1> USE DEF WalkInv
<1>1. CASE Tick
  <2>1. PICK p \in Percents : value' \in Outcomes(kind, value, p)
    BY <1>1 DEF Tick
  <2>2. kind \in Kinds /\ kind' = kind /\ updated' = TRUE
    BY <1>1 DEF Tick, TypeOK
  <2>3. value \in Int \cup {NaN} /\ (value = NaN => kind \in Floating)
    <3>1. Types[kind].min \in Int /\ Types[kind].max \in Int
      BY <2>2, RowsSane
    <3> QED
      BY <3>1, NaNAssumption DEF TypeOK
  <2>4. IF value = NaN THEN value' = NaN ELSE InRange(kind, value')
    BY <2>1, <2>2, <2>3, OutcomesInRange
  <2>5. InRange(kind, value') => value' \in Types[kind].min..Types[kind].max /\ value' # NaN
    <3>1. Types[kind].lo \in Int /\ Types[kind].hi \in Int
      BY <2>2, RowsSane
    <3> QED
      BY <3>1, <2>2, RangeRepresentable, NaNAssumption DEF InRange
  <2>6. TypeOK'
    BY <2>2, <2>3, <2>4, <2>5 DEF TypeOK
  <2>7. TickInRange'
    BY <2>2, <2>3, <2>4 DEF TickInRange, InRange
  <2> QED
    BY <2>6, <2>7
<1>2. CASE UNCHANGED vars
  BY <1>2 DEF vars, TypeOK, TickInRange, InRange
<1> QED
  BY <1>1, <1>2 DEF Next

LEMMA AlwaysWalk == Spec => []WalkInv
BY InitWalk, NextWalk, PTL DEF Spec

(* Values keep their type (updateSingle writes back what it has read). *)
THEOREM WalkTypeCorrect == Spec => []TypeOK
<1>1. WalkInv => TypeOK
  BY DEF WalkInv
<1> QED
  BY AlwaysWalk, <1>1, PTL

(* After any tick of updateSingle a number lies in the range of its type. *)
THEOREM UpdateInRange == Spec => []TickInRange
<1>1. WalkInv => TickInRange
  BY DEF WalkInv
<1> QED
  BY AlwaysWalk, <1>1, PTL

-----------------------------------------------------------------------------
(* Near                                                                    *)

(* The ranges are wide enough for 4 percent of the span, and leave room at
   both ends: only a sum below zero in an unsigned type, whose range begins
   at zero, cannot be represented. *)
LEMMA RowsWide ==
  ASSUME NEW k \in Kinds
  PROVE  /\ Types[k].low \in {Types[k].lo, Types[k].hi}
         /\ Types[k].span >= 64 /\ Types[k].lo < Types[k].hi
         /\ 100 * Types[k].hi - 4 * Types[k].span >= 0
         /\ 100 * Types[k].hi - 4 * Types[k].span >= 100 * Types[k].lo
         /\ 100 * (Types[k].max - Types[k].hi) >= 4 * Types[k].span
         /\ Types[k].min < 0 => 100 * (Types[k].lo - Types[k].min) >= 4 * Types[k].span
         /\ Types[k].min >= 0 =>
              /\ Types[k].min = 0 /\ Types[k].lo = 0
              /\ Types[k].max + 1 >= 2 * Types[k].hi + 2
              /\ 100 * (Types[k].max + 1 - Types[k].hi) >= 4 * Types[k].span + 100
<1>1. Half32 \in Nat /\ Half32 >= 512 /\ Half64 \in Nat /\ Half64 >= 4096
        /\ Huge \in Nat /\ Huge >= 2048
  BY WidthsAssumption
<1>2. k \in {"Byte", "Int16", "UInt16", "Int32", "UInt32", "Int64", "UInt64", "Float", "Double"}
  BY DEF Kinds, Types
<1> QED
  BY <1>1, <1>2 DEF Types, Row

(* A conversion moves a sum by less than one. *)
LEMMA TruncatedNear ==
  ASSUME NEW x \in Int
  PROVE  100 * Truncated(x) - 100 < x /\ x < 100 * Truncated(x) + 100
BY DEF Truncated

(* A negative number that wraps around once. *)
LEMMA WrapsOnce ==
  ASSUME NEW m \in Nat, NEW t \in Int, t < 0, t + m >= 0
  PROVE  t % m = t + m
OBVIOUS

(* From inside the range, the conversion of a sum is the truncated sum, or it
   leaves a value that the "if"s take to an end of the range. *)
LEMMA ConvertedNear ==
  ASSUME NEW k \in Kinds, NEW v \in Int, InRange(k, v), NEW p \in Percents,
         NEW c \in Converted(k, Sum(k, v, p))
  PROVE  c = Truncated(Sum(k, v, p)) \/ c = Types[k].lo \/ c > Types[k].hi
<1> DEFINE lo == Types[k].lo
           hi == Types[k].hi
           min == Types[k].min
           max == Types[k].max
           span == Types[k].span
           x == Sum(k, v, p)
           t == Truncated(x)
<1>1. /\ lo \in Int /\ hi \in Int /\ min \in Int /\ max \in Int /\ span \in Int /\ span >= 64
      /\ v >= lo /\ v <= hi /\ p \in Int /\ p >= -4 /\ p <= 4
  BY RowsSane, RowsWide DEF InRange, Percents
<1>2. span * p >= -4 * span /\ span * p <= 4 * span /\ span * p \in Int
  BY <1>1
<1>3. x \in Int /\ x >= 100 * lo - 4 * span /\ x <= 100 * hi + 4 * span
  BY <1>1, <1>2 DEF Sum
<1>4. t \in Int /\ 100 * t - 100 < x /\ x < 100 * t + 100
  BY <1>3, TruncatedInt, TruncatedNear
<1> SUFFICES ASSUME c # t PROVE c = lo \/ c > hi
  OBVIOUS
<1>5. t \notin min..max
      /\ c \in {min + ((t - min) % (max - min + 1)), IF t < min THEN min ELSE max,
                IF min < 0 THEN min ELSE (max + 1) \div 2}
  BY DEF Converted
<1> HIDE DEF x, t
<1>6. t <= max
  BY <1>1, <1>3, <1>4, RowsWide
<1>7. t < min /\ min = 0 /\ lo = 0
  BY <1>1, <1>3, <1>4, <1>5, <1>6, RowsWide
<1>8. t + (max + 1) > hi /\ (max + 1) \div 2 > hi /\ hi >= 0
  <2>1. hi >= 0 /\ max + 1 >= 2 * hi + 2 /\ 100 * (max + 1 - hi) >= 4 * span + 100
    BY <1>1, <1>7, RowsWide
  <2>2. (max + 1) \div 2 > hi
    BY <1>1, <2>1
  <2>3. 100 * t > -4 * span - 100
    BY <1>1, <1>3, <1>4, <1>7
  <2>4. t + (max + 1) > hi
    BY <1>1, <1>4, <2>1, <2>3
  <2> QED
    BY <2>1, <2>2, <2>4
<1>9. (t - min) % (max - min + 1) = t + (max + 1)
  <2>1. t - min = t /\ max - min + 1 = max + 1
    BY <1>1, <1>4, <1>7
  <2>2. max + 1 \in Nat /\ t < 0 /\ t + (max + 1) >= 0
    BY <1>1, <1>4, <1>7, <1>8
  <2>3. t % (max + 1) = t + (max + 1)
    BY <1>4, <2>2, WrapsOnce
  <2> QED
    BY <2>1, <2>3
<1>10. c \in {min + (t + (max + 1)), min, (max + 1) \div 2}
  BY <1>5, <1>7, <1>9
<1> QED
  BY <1>1, <1>4, <1>7, <1>8, <1>10

Near(k, v, u) ==
  u # Types[k].lo /\ u # Types[k].hi =>
    /\ 100 * (u - v) < 4 * Types[k].span + 100
    /\ 100 * (v - u) < 4 * Types[k].span + 100

(* A tick from inside the range moves a value by 4 percent at most, or to an
   end of the range. *)
LEMMA OutcomesNear ==
  ASSUME NEW k \in Kinds, NEW v \in Int, InRange(k, v), NEW p \in Percents,
         NEW u \in Outcomes(k, v, p)
  PROVE  Near(k, v, u)
<1> DEFINE x == Sum(k, v, p)
           t == Truncated(x)
<1>1. /\ Types[k].lo \in Int /\ Types[k].hi \in Int /\ Types[k].span \in Int
      /\ Types[k].low \in {Types[k].lo, Types[k].hi} /\ Types[k].span >= 64
      /\ p \in Int /\ p >= -4 /\ p <= 4
  BY RowsSane, RowsWide DEF Percents
<1>2. Types[k].span * p >= -4 * Types[k].span /\ Types[k].span * p <= 4 * Types[k].span
        /\ Types[k].span * p \in Int
  BY <1>1
<1>3. x \in Int /\ x - 100 * v >= -4 * Types[k].span /\ x - 100 * v <= 4 * Types[k].span
  BY <1>1, <1>2 DEF Sum
<1>4. t \in Int /\ 100 * t - 100 < x /\ x < 100 * t + 100
  BY <1>3, TruncatedInt, TruncatedNear
<1>5. PICK c \in Converted(k, x) : u = Clamp(k, c)
  BY NaNAssumption DEF Outcomes
<1>6. c = t \/ c = Types[k].lo \/ c > Types[k].hi
  BY <1>5, ConvertedNear
<1>7. c \in Int
  BY <1>3, <1>5, ConvertedInt
<1> HIDE DEF x, t
<1>8. u = t \/ u = Types[k].lo \/ u = Types[k].hi
  BY <1>1, <1>4, <1>5, <1>6, <1>7 DEF Clamp
<1> QED
  BY <1>1, <1>3, <1>4, <1>8 DEF Near

(* From inside the range a tick of updateSingle moves a number by at most 4
   percent of the span, rounded up, or to an end of the range, whatever the
   undefined conversion of a negative sum produces. *)
THEOREM WalkStaysNear == Spec => StaysNear
<1> DEFINE A == InRange(kind, value) /\ value' # Types[kind].lo /\ value' # Types[kind].hi =>
                  /\ 100 * (value' - value) < 4 * Types[kind].span + 100
                  /\ 100 * (value - value') < 4 * Types[kind].span + 100
<1>1. WalkInv /\ [Next]_vars => [A]_vars
  <2> SUFFICES ASSUME WalkInv, Next PROVE A
    OBVIOUS
  <2> SUFFICES ASSUME InRange(kind, value) PROVE Near(kind, value, value')
    BY DEF Near
  <2>1. kind \in Kinds
    BY DEF WalkInv, TypeOK
  <2>2. value \in Int
    BY <2>1, RowsSane DEF InRange
  <2>3. PICK p \in Percents : value' \in Outcomes(kind, value, p)
    BY DEF Next, Tick
  <2> QED
    BY <2>1, <2>2, <2>3, OutcomesNear
<1> QED
  BY <1>1, AlwaysWalk, PTL DEF Spec, StaysNear

-----------------------------------------------------------------------------
(* No dead ends                                                            *)

(* A conversion always produces something. *)
LEMMA SomeOutcome ==
  ASSUME NEW k \in Kinds, NEW v \in Int, NEW p \in Percents
  PROVE  \E u : u \in Outcomes(k, v, p)
<1>1. \E c : c \in Converted(k, Sum(k, v, p))
  BY DEF Converted
<1> QED
  BY <1>1, NaNAssumption DEF Outcomes

(* A sum that the type can represent is truncated and then clamped. *)
LEMMA RepresentedOutcome ==
  ASSUME NEW k \in Kinds, NEW v \in Int, NEW p \in Percents,
         Truncated(Sum(k, v, p)) \in Types[k].min..Types[k].max
  PROVE  Clamp(k, Truncated(Sum(k, v, p))) \in Outcomes(k, v, p)
BY NaNAssumption DEF Outcomes, Converted

(* A value below the upper end can rise, the upper end can fall: 4 percent of
   any span is more than 2. *)
LEMMA SomeTickMoves ==
  ASSUME NEW k \in Kinds, NEW v \in Int, InRange(k, v)
  PROVE  \E p \in Percents : \E u \in Outcomes(k, v, p) : u # v
<1> DEFINE lo == Types[k].lo
           hi == Types[k].hi
           min == Types[k].min
           max == Types[k].max
           span == Types[k].span
<1>1. /\ lo \in Int /\ hi \in Int /\ min \in Int /\ max \in Int /\ span \in Int /\ span >= 64
      /\ v >= lo /\ v <= hi /\ min <= lo /\ hi <= max /\ lo < hi
      /\ 100 * hi - 4 * span >= 0 /\ 100 * hi - 4 * span >= 100 * lo
      /\ 100 * (max - hi) >= 4 * span
  BY RowsSane, RowsWide DEF InRange
<1>2. 4 \in Percents /\ -4 \in Percents
  BY DEF Percents
<1>3. CASE v < hi
  <2> DEFINE x == Sum(k, v, 4)
             t == Truncated(x)
  <2>1. x = 100 * v + 4 * span /\ x \in Int
    BY <1>1 DEF Sum
  <2>2. t \in Int /\ 100 * t - 100 < x /\ x < 100 * t + 100
    BY <2>1, TruncatedInt, TruncatedNear
  <2>3. t > v /\ t <= max
    <3> HIDE DEF x, t
    <3> QED
      BY <1>1, <1>3, <2>1, <2>2
  <2>4. Clamp(k, t) \in Outcomes(k, v, 4)
    BY <1>1, <1>2, <2>2, <2>3, RepresentedOutcome
  <2>5. Clamp(k, t) # v
    BY <1>1, <1>3, <2>2, <2>3 DEF Clamp
  <2> QED
    BY <1>2, <2>4, <2>5
<1>4. CASE v = hi
  <2> DEFINE x == Sum(k, v, -4)
             t == Truncated(x)
  <2>1. x = 100 * hi - 4 * span /\ x \in Int
    BY <1>1, <1>4 DEF Sum
  <2>2. t \in Int /\ 100 * t <= x /\ x < 100 * t + 100
    BY <1>1, <2>1 DEF Truncated
  <2>3. t < hi /\ t >= lo
    <3> HIDE DEF x, t
    <3> QED
      BY <1>1, <2>1, <2>2
  <2>4. Clamp(k, t) \in Outcomes(k, v, -4)
    BY <1>1, <1>2, <2>2, <2>3, RepresentedOutcome
  <2>5. Clamp(k, t) # v
    BY <1>1, <1>4, <2>2, <2>3 DEF Clamp
  <2> QED
    BY <1>2, <2>4, <2>5
<1> QED
  BY <1>1, <1>3, <1>4

(* Some tick changes a number of every type, whatever the number: the
   simulation does not get stuck. *)
THEOREM WalkNeverStuck == Spec => []NotStuck
<1>1. WalkInv => NotStuck
  <2> SUFFICES ASSUME WalkInv, value # NaN
               PROVE  \E p \in Percents : \E u \in Outcomes(kind, value, p) : u # value
    BY DEF NotStuck
  <2>1. kind \in Kinds /\ value \in Int
    BY RowsSane DEF WalkInv, TypeOK
  <2>2. CASE InRange(kind, value)
    BY <2>1, <2>2, SomeTickMoves
  <2>3. CASE ~InRange(kind, value)
    <3>1. 0 \in Percents
      BY DEF Percents
    <3>2. PICK u : u \in Outcomes(kind, value, 0)
      BY <2>1, <3>1, SomeOutcome
    <3>3. InRange(kind, u)
      BY <2>1, <3>1, <3>2, OutcomesInRange
    <3> QED
      BY <2>3, <3>1, <3>2, <3>3
  <2> QED
    BY <2>2, <2>3
<1> QED
  BY AlwaysWalk, <1>1, PTL
=============================================================================
