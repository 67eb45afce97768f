-------------------------------- MODULE Score --------------------------------
(***************************************************************************)
(* gempba::score, a number with a tag for its type, and io.gempba.value.   *)
(* Score, its Java twin.  The two sides exchange the bits of the number as *)
(* a 64-bit integer, and the tag.                                          *)
(*                                                                         *)
(* The payload is a number below Full, the number of patterns of 8 bytes;  *)
(* the types of 4 bytes use those below Half.  Both are small: what counts *)
(* is which bits are copied, where the sign is and how patterns compare.   *)
(* A floating-point pattern is a sign and a magnitude, the number is half  *)
(* the magnitude, and the largest magnitude stands for NaN.                *)
(***************************************************************************)
EXTENDS Integers

CONSTANTS Half, Full

\* Half is even and leaves room for more than one finite number, and 8 bytes hold more than 4.
ASSUME WidthAssumption ==
    /\ Half \in Nat /\ Half >= 6 /\ Half % 2 = 0
    /\ Full \in Nat /\ Full > Half /\ Full % 2 = 0

\* The types that cross the boundary: ScoreType has no unsigned ones, and to_raw and from_raw
\* abort for F128.
score_type == {"I32", "I64", "F32", "F64"}
Kinds4 == {"I32", "F32"}
Integral == {"I32", "I64"}

Patterns(kind) == IF kind \in Kinds4 THEN Half ELSE Full
\* The payload is zero above the width of the type.
score == UNION {[kind : {k}, payload : 0 .. Patterns(k) - 1] : k \in score_type}

\* read_as: two's complement, or sign and magnitude, in halves.
negative(s) == s.payload >= Patterns(s.kind) \div 2
magnitude(s) == s.payload % (Patterns(s.kind) \div 2)
is_nan(s) == s.kind \notin Integral /\ magnitude(s) = Patterns(s.kind) \div 2 - 1

to_long_double(s) ==
    CASE s.kind \in Integral /\ negative(s) -> 2 * (s.payload - Patterns(s.kind))
      [] s.kind \in Integral /\ ~negative(s) -> 2 * s.payload
      [] s.kind \notin Integral /\ negative(s) -> - magnitude(s)
      [] s.kind \notin Integral /\ ~negative(s) -> magnitude(s)

\* operator<=>: a NaN is neither less nor greater.  Numbers of one type compare like their
\* conversions to long double, which is exact for all of them.
less(a, b) == ~is_nan(a) /\ ~is_nan(b) /\ to_long_double(a) < to_long_double(b)

\* The bits of v: the value of an integer, or the magnitude with a sign of a floating-point
\* number.
bits(kind, v) ==
    IF kind \in Integral THEN v % Patterns(kind)
    ELSE IF v < 0 THEN Patterns(kind) \div 2 - v ELSE v

\* score::make.
make(kind, v) == [kind |-> kind, payload |-> bits(kind, v)]

\* Mutant: Score.make of an int widens it with its sign.
MakeSignExtended(kind, v) ==
    [kind |-> kind, payload |-> IF kind = "I32" THEN v % Full ELSE bits(kind, v)]

\* Score.make in Java: 4 bytes are widened with toUnsignedLong.
Score_make(kind, v) == [kind |-> kind, payload |-> bits(kind, v)]

\* Score.getValue of a Score that fromRaw returned: the low 4 bytes, or all 8.
getValue(kind, raw) == to_long_double([kind |-> kind, payload |-> raw % Patterns(kind)])

\* memcpy of the width of the type into a zeroed payload.
from_raw(kind, raw) == [kind |-> kind, payload |-> raw % Patterns(kind)]

\* memcpy of the width of the type into a zeroed 64-bit integer.
to_raw(s) == s.payload % Patterns(s.kind)

\* utils::get_default_score.  The floating-point default of a maximisation is FLT_MIN, the
\* least positive number.
get_default_score(goal, kind) ==
    CASE kind \in Integral /\ goal = "MAXIMISE" -> make(kind, - (Patterns(kind) \div 2))
      [] kind \in Integral /\ goal = "MINIMISE" -> make(kind, Patterns(kind) \div 2 - 1)
      [] kind \notin Integral /\ goal = "MAXIMISE" -> make(kind, 1)
      [] kind \notin Integral /\ goal = "MINIMISE" -> make(kind, Patterns(kind) \div 2 - 2)
=============================================================================
