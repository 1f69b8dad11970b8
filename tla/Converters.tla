----------------------------- MODULE Converters -----------------------------
(****************************************************************************)
(* pa_converters.c and pa_dither.c: the formats a host is asked for, and how   *)
(* one sample is changed from one into another.                                *)
(*                                                                            *)
(* A byte has B bits. Integer samples are integers, those of 3 bytes too. A     *)
(* Float32 is a number of ticks, of which One are 1.0, and has no rounding of   *)
(* its own. A conversion is the set of its possible results: what the dither     *)
(* adds is random, and C leaves open what a float out of range becomes.          *)
(****************************************************************************)
EXTENDS Integers, Sequences

CONSTANTS B,        \* bits of a byte
          Points    \* samples of a format that are tried

ASSUME BitsAssumption == B \in Nat \ {0} /\ Points \in Nat \ {0}

\* The formats in the order of their flags, which is that of their quality.
Formats == <<"Float32", "Int32", "Int24", "Int16", "Int8", "UInt8">>
Format == {Formats[i] : i \in DOMAIN Formats}
Flags == SUBSET {"paClipOff", "paDitherOff"}

One == 2 ^ (4 * B - 1)
Mid == 2 ^ (B - 1)         \* 128
Bytes(t) == CASE t \in {"Float32", "Int32"} -> 4
              [] t = "Int24" -> 3
              [] t = "Int16" -> 2
              [] OTHER -> 1
Lo(t) == IF t = "UInt8" THEN 0 ELSE -(2 ^ (Bytes(t) * B - 1))
Hi(t) == Lo(t) + 2 ^ (Bytes(t) * B) - 1

-----------------------------------------------------------------------------
(* Selection *)

Rank(t) == CHOOSE i \in DOMAIN Formats : Formats[i] = t

\* The format itself, else the next better one there is, else the next worse.
SelectClosestAvailableFormat(available, format) ==
    LET r == Rank(format)
        have == {i \in DOMAIN Formats : Formats[i] \in available}
        better == {i \in have : i <= r}
        worse == {i \in have : i > r}
    IN  Formats[IF better # {} THEN CHOOSE i \in better : \A j \in better : j <= i
                ELSE CHOOSE i \in worse : \A j \in worse : i <= j]

-----------------------------------------------------------------------------
(* Dither, and C's conversions *)

PA_DITHER_BITS == 2 * B - 1

\* The sum of two random numbers less the previous one, which any two of their sums may
\* be; the extremes and the middle.
Currents == {-(2 ^ (PA_DITHER_BITS - 1)), 0, 2 ^ (PA_DITHER_BITS - 1) - 2}
TriangularDither == {a - b : a, b \in Currents}
FloatScale == 2 ^ PA_DITHER_BITS - 1

Wrap(n, bits) == ((n + 2 ^ (bits - 1)) % 2 ^ bits) - 2 ^ (bits - 1)
UWrap(n, bits) == n % 2 ^ bits
Toward0(n, d) == IF n < 0 THEN -((-n) \div d) ELSE n \div d
Shr(n, bits) == n \div 2 ^ bits
Shl(n, bits) == n * 2 ^ bits

PA_CLIP(n, t) == IF n < Lo(t) THEN Lo(t) ELSE IF n > Hi(t) THEN Hi(t) ELSE n

\* (int) of a float x times a scale, whole or with the smaller scale and a dither.
Scaled(x, scale, flags) ==
    IF "paDitherOff" \in flags THEN {Toward0(x * scale, One)}
    ELSE {Toward0(x * (scale - 1) * FloatScale + d * One, One * FloatScale) : d \in TriangularDither}

\* What a float cast to an integer of format t can be.
Cast(n, t) == IF n \in Lo(t) .. Hi(t) THEN {n} ELSE Lo(t) .. Hi(t)

-----------------------------------------------------------------------------
(* From Float32 *)

Float32_To_Int32(x, flags) ==
    UNION {IF "paClipOff" \in flags THEN Cast(n, "Int32") ELSE {PA_CLIP(n, "Int32")} :
              n \in Scaled(x, Hi("Int32"), flags)}

\* Convert to 32 bits and drop the low ones.
Float32_To_Int24(x, flags) == {Shr(n, B) : n \in Float32_To_Int32(x, flags)}

Float32_To_Int16(x, flags) ==
    UNION {IF "paClipOff" \in flags THEN Cast(n, "Int16") ELSE {PA_CLIP(n, "Int16")} :
              n \in Scaled(x, Hi("Int16"), flags)}

\* With dither the float is cast to 32 bits first, which wraps.
Float32_To_Int8(x, flags) ==
    UNION {IF "paClipOff" \notin flags THEN {PA_CLIP(n, "Int8")}
           ELSE IF "paDitherOff" \in flags THEN Cast(n, "Int8") ELSE {Wrap(n, B)} :
              n \in Scaled(x, Hi("Int8"), flags)}

\* Mutant: clipped before it is centred.
Float32_To_UInt8_ClippedFirst(x, flags) ==
    UNION {IF "paClipOff" \notin flags THEN {Mid + PA_CLIP(n, "UInt8")}
           ELSE IF "paDitherOff" \notin flags THEN {UWrap(Mid + n, B)}
           ELSE {UWrap(Mid + m, B) : m \in IF n \in 0 .. Hi("UInt8") THEN {n} ELSE {0, UWrap(n, B)}} :
              n \in Scaled(x, Hi("Int8"), flags)}

\* Without either, a negative float is cast to an unsigned char: it wraps or becomes 0.
Float32_To_UInt8(x, flags) ==
    UNION {IF "paClipOff" \notin flags THEN {PA_CLIP(Mid + n, "UInt8")}
           ELSE IF "paDitherOff" \notin flags THEN {UWrap(Mid + n, B)}
           ELSE {UWrap(Mid + m, B) : m \in IF n \in 0 .. Hi("UInt8") THEN {n} ELSE {0, UWrap(n, B)}} :
              n \in Scaled(x, Hi("Int8"), flags)}

-----------------------------------------------------------------------------
(* From integers; the flags say only whether there is dither *)

\* 32 bits, half of them with dither, down to bits; UInt8 is moved up afterwards.
Dithered(v, dither, bits) == {Shr(Shr(v, 1) + d, 4 * B - 1 - bits) : d \in dither}
Dither32 == TriangularDither
Dither8 == {Shl(d, B) : d \in TriangularDither}

Int32_To_Float32(v) == {v}
\* With dither it is not implemented, and writes nothing.
Int32_To_Int24(v, flags) == IF "paDitherOff" \in flags THEN {Shr(v, B)} ELSE {}
Int32_To_Int16(v, flags) ==
    IF "paDitherOff" \in flags THEN {Shr(v, 2 * B)}
    ELSE {Wrap(n, 2 * B) : n \in Dithered(v, Dither32, 2 * B)}
Int32_To_Int8(v, flags) ==
    IF "paDitherOff" \in flags THEN {Shr(v, 3 * B)}
    ELSE {Wrap(n, B) : n \in Dithered(v, Dither8, B)}
Int32_To_UInt8(v, flags) ==
    IF "paDitherOff" \in flags THEN {UWrap(Shr(v, 3 * B) + Mid, B)}
    ELSE {UWrap(n + Mid, B) : n \in Dithered(v, Dither8, B)}

Int24_To_Float32(v) == {Shl(v, B)}
Int24_To_Int32(v) == {Shl(v, B)}
Int24_To_Int16(v, flags) ==
    IF "paDitherOff" \in flags THEN {Shr(v, B)}
    ELSE {Wrap(n, 2 * B) : n \in Dithered(Shl(v, B), Dither32, 2 * B)}
Int24_To_Int8(v, flags) ==
    IF "paDitherOff" \in flags THEN {Shr(v, 2 * B)}
    ELSE {Wrap(n, B) : n \in Dithered(Shl(v, B), Dither8, B)}
Int24_To_UInt8(v, flags) ==
    IF "paDitherOff" \in flags THEN {UWrap(UWrap(Shr(v, 2 * B), B) + Mid, B)}
    ELSE {UWrap(n + Mid, B) : n \in Dithered(Shl(v, B), Dither8, B)}

Int16_To_Float32(v) == {Shl(v, 2 * B)}
Int16_To_Int32(v) == {Shl(v, 2 * B)}
Int16_To_Int24(v) == {Shl(v, B)}
Int16_To_Int8(v, flags) ==
    IF "paDitherOff" \in flags THEN {Shr(v, B)}
    ELSE {Wrap(n, B) : n \in Dithered(Shl(v, 2 * B), Dither8, B)}
Int16_To_UInt8(v, flags) ==
    IF "paDitherOff" \in flags THEN {UWrap(Shr(v, B) + Mid, B)}
    ELSE {UWrap(n + Mid, B) : n \in Dithered(Shl(v, 2 * B), Dither8, B)}

Int8_To_Float32(v) == {Shl(v, 3 * B)}
Int8_To_Int32(v) == {Shl(v, 3 * B)}
Int8_To_Int24(v) == {Shl(v, 2 * B)}
Int8_To_Int16(v) == {Shl(v, B)}
Int8_To_UInt8(v) == {UWrap(v + Mid, B)}

UInt8_To_Float32(v) == {Shl(v - Mid, 3 * B)}
UInt8_To_Int32(v) == {Shl(v - Mid, 3 * B)}
UInt8_To_Int24(v) == {Shl(Wrap(v - Mid, B), 2 * B)}
UInt8_To_Int16(v) == {Shl(v - Mid, B)}
UInt8_To_Int8(v) == {Wrap(v - Mid, B)}

Copy(v) == {v}
-----------------------------------------------------------------------------
(* PaUtil_SelectConverter and PaUtil_SelectZeroer *)

FromFloat32(to, x, flags) ==
    CASE to = "Int32" -> Float32_To_Int32(x, flags)
      [] to = "Int24" -> Float32_To_Int24(x, flags)
      [] to = "Int16" -> Float32_To_Int16(x, flags)
      [] to = "Int8"  -> Float32_To_Int8(x, flags)
      [] to = "UInt8" -> Float32_To_UInt8(x, flags)
FromInt32(to, v, flags) ==
    CASE to = "Float32" -> Int32_To_Float32(v)
      [] to = "Int24"   -> Int32_To_Int24(v, flags)
      [] to = "Int16"   -> Int32_To_Int16(v, flags)
      [] to = "Int8"    -> Int32_To_Int8(v, flags)
      [] to = "UInt8"   -> Int32_To_UInt8(v, flags)
FromInt24(to, v, flags) ==
    CASE to = "Float32" -> Int24_To_Float32(v)
      [] to = "Int32"   -> Int24_To_Int32(v)
      [] to = "Int16"   -> Int24_To_Int16(v, flags)
      [] to = "Int8"    -> Int24_To_Int8(v, flags)
      [] to = "UInt8"   -> Int24_To_UInt8(v, flags)
FromInt16(to, v, flags) ==
    CASE to = "Float32" -> Int16_To_Float32(v)
      [] to = "Int32"   -> Int16_To_Int32(v)
      [] to = "Int24"   -> Int16_To_Int24(v)
      [] to = "Int8"    -> Int16_To_Int8(v, flags)
      [] to = "UInt8"   -> Int16_To_UInt8(v, flags)
FromInt8(to, v) ==
    CASE to = "Float32" -> Int8_To_Float32(v)
      [] to = "Int32"   -> Int8_To_Int32(v)
      [] to = "Int24"   -> Int8_To_Int24(v)
      [] to = "Int16"   -> Int8_To_Int16(v)
      [] to = "UInt8"   -> Int8_To_UInt8(v)
FromUInt8(to, v) ==
    CASE to = "Float32" -> UInt8_To_Float32(v)
      [] to = "Int32"   -> UInt8_To_Int32(v)
      [] to = "Int24"   -> UInt8_To_Int24(v)
      [] to = "Int16"   -> UInt8_To_Int16(v)
      [] to = "Int8"    -> UInt8_To_Int8(v)

\* The possible results of the converter selected for two formats and the flags.
SelectConverter(from, to, flags, v) ==
    CASE from = to        -> Copy(v)
      [] from = "Float32" -> FromFloat32(to, v, flags)
      [] from = "Int32"   -> FromInt32(to, v, flags)
      [] from = "Int24"   -> FromInt24(to, v, flags)
      [] from = "Int16"   -> FromInt16(to, v, flags)
      [] from = "Int8"    -> FromInt8(to, v)
      [] from = "UInt8"   -> FromUInt8(to, v)

\* What the zeroer of a format writes.
SelectZeroer(t) == IF t = "UInt8" THEN Mid ELSE 0

-----------------------------------------------------------------------------
(* Reference: what a sample means, in ticks *)

Lsb(t) == 2 ^ ((4 - Bytes(t)) * B)
Ticks(t, v) == IF t = "UInt8" THEN (v - Mid) * Lsb(t) ELSE v * Lsb(t)
Abs(n) == IF n < 0 THEN -n ELSE n
Clamp(to, x) == IF to = "Float32" THEN x ELSE IF x > One THEN One ELSE IF x < -One THEN -One ELSE x

\* Within the last place of `to` and what its scale loses, twice with dither.
Close(from, to, flags, v, w) ==
    LET x == Clamp(to, Ticks(from, v))
        times == IF "paDitherOff" \in flags THEN 1 ELSE 2
    IN  Abs(Ticks(to, w) - x) * One <= times * Lsb(to) * (One + Abs(x))

\* Integers wrap when a dither takes them past full scale.
Overflows(from, to, flags, v) ==
    /\ from # "Float32" /\ Bytes(to) < Bytes(from) /\ "paDitherOff" \notin flags
    /\ One - Abs(Ticks(from, v)) <= Lsb(to)

\* A float unclipped, out of range, or below 0 to an unsigned char.
Undefined(from, to, flags, v) ==
    /\ from = "Float32" /\ "paClipOff" \in flags
    /\ \/ Abs(v) > One
       \/ to = "UInt8" /\ "paDitherOff" \in flags /\ v < 0

\* Points of the range of a format; of a Float32 beyond 1.0 too.
Samples(t) == LET lo == IF t = "Float32" THEN -((3 * One) \div 2) ELSE Lo(t)
                  hi == IF t = "Float32" THEN (3 * One) \div 2 ELSE Hi(t)
              IN  {lo + (k * (hi - lo)) \div Points : k \in 0 .. Points}

\* A conversion says the same in the other format, and silence stays silence.
Faithful(from, to, flags) ==
    /\ \A v \in Samples(from) :
          \/ Overflows(from, to, flags, v) \/ Undefined(from, to, flags, v)
          \/ LET ws == SelectConverter(from, to, flags, v)
             IN  ws # {} /\ \A w \in ws : Close(from, to, flags, v, w)
    /\ Ticks(to, SelectZeroer(to)) = 0
=============================================================================
