------------------------------ MODULE Strings ------------------------------
(***************************************************************************)
(* The conversions of utils/Str.cpp and the two static buffers they share. *)
(* A string is the sequence of its chars, as codes; a buffer is a function *)
(* from indexes to chars and keeps what earlier calls left in it. Only the *)
(* main thread converts, so a call is a step.                              *)
(***************************************************************************)
EXTENDS Integers, Sequences

CONSTANTS
  Width,         \* bits of the integer types
  IntegerValues, \* the integers converted, of the signed or the unsigned type
  HexValues,     \* the values shown in hexadecimal: bytes, the lowest first
  Unit,          \* the fractions converted are counted in 1/Unit
  DecimalValues, \* the fractions
  IntLimit,      \* an int holds less than this
  Precisions,    \* the precisions asked for
  PrecisionCap,  \* to_string's bound on them
  Literals,      \* the texts padded that are no conversion's
  Counts,        \* the widths asked for
  MaxCalls       \* bound on the calls

OutputSize == 128
PadOutputSize == 256
CountCap == 127

Abs(n) == IF n < 0 THEN -n ELSE n
Least(m, n) == IF m < n THEN m ELSE n

\* The powers of base.
Power(base) ==
  LET power[n \in Nat] == IF n = 0 THEN 1 ELSE base * power[n - 1] IN power

MostNegative == -Power(2)[Width - 1]

\* A fraction is cast to an integer towards zero.
Whole(value) ==
  IF value < 0 THEN -(Abs(value) \div Unit) ELSE value \div Unit

\* The widest types have 64 bits. Longer literals make str_padright's 8-bit index
\* go round for ever. Unit is a power of two, so that the steps of the code on a
\* double are exact; the cast of a value no integer holds is not defined.
ASSUME TextsAssumption ==
  /\ Width \in 1 .. 64 /\ PrecisionCap \in 0 .. 16 /\ MaxCalls \in Nat
  /\ Unit \in {Power(2)[k] : k \in 0 .. 10} /\ IntLimit \in Nat
  /\ IntegerValues \subseteq MostNegative .. Power(2)[Width] - 1
  /\ DecimalValues \subseteq Int
  /\ \A v \in DecimalValues : Whole(v) \in MostNegative .. -MostNegative - 1
  /\ Precisions \subseteq Nat /\ Counts \subseteq Nat
  /\ \A bytes \in HexValues : bytes \in Seq(0 .. 255) /\ Len(bytes) <= 8
  /\ \A text \in Literals : text \in Seq(1 .. 127) /\ Len(text) < 256

VARIABLES
  OutputBuffer, PadOutputBuffer,
  call,       \* history: the last call and its arguments
  calls       \* history: how many there were

stringsVars == <<OutputBuffer, PadOutputBuffer, call, calls>>

\* What a caller reads at the start of a buffer, with strlen or _print.
TextIn(buffer) ==
  LET end == CHOOSE i \in DOMAIN buffer :
               buffer[i] = 0 /\ \A j \in 0 .. i - 1 : buffer[j] # 0
  IN [i \in 1 .. end |-> buffer[i - 1]]

\* The buffer with chars at its start and the terminating zero at index end.
Written(buffer, chars, end) ==
  [i \in DOMAIN buffer |->
     CASE i = end                        -> 0
       [] i # end /\ i < Len(chars)      -> chars[i + 1]
       [] i # end /\ i \notin 0 .. Len(chars) - 1 -> buffer[i]]

-----------------------------------------------------------------------------
(***************************************************************************)
(* Conversions. ensureBufferSafety leaves the buffers alone: it takes the  *)
(* chars far behind them for a pointer and writes its zero through that.   *)
(***************************************************************************)

\* What k divisions by ten leave of value.
Quotients(value) ==
  LET left[k \in 0 .. Width] == IF k = 0 THEN value ELSE left[k - 1] \div 10
  IN left

\* MUTANT FORM of Digits: the places are counted one too few.
DigitsRounded(value) ==
  LET left == Quotients(value)
      size == CHOOSE k \in 0 .. Width : left[k] < 20 /\ \A j \in 0 .. k - 1 : left[j] >= 20
  IN [i \in 1 .. size + 1 |-> 48 + (left[size + 1 - i] % 10)]

\* C divides towards zero: of a value left negative only its last digit is
\* written, and subtracted from '0'.
Digits(value) ==
  LET left == Quotients(value)
      size == CHOOSE k \in 0 .. Width : left[k] < 10 /\ \A j \in 0 .. k - 1 : left[j] >= 10
  IN IF value < 0 THEN <<48 - ((-value) % 10)>>
                  ELSE [i \in 1 .. size + 1 |-> 48 + (left[size + 1 - i] % 10)]

\* The most negative value is its own opposite.
IntegerText(value) ==
  IF value < 0 THEN <<45>> \o Digits(IF value = MostNegative THEN value ELSE -value)
               ELSE Digits(value)

\* What is left of a fraction behind each of its places.
Rests(value, places) ==
  LET rest[i \in 0 .. places] ==
        IF i = 0 THEN value % Unit ELSE (10 * rest[i - 1]) % Unit
  IN rest

\* The digits of a fraction; the fraction of a value whose integer part is no
\* int is lost, since the conversion then yields the smallest int, whose lowest
\* byte is 0.
FractionText(value, places) ==
  [i \in 1 .. places |->
     IF value \div Unit < IntLimit THEN 48 + ((10 * Rests(value, places)[i - 1]) \div Unit)
                                   ELSE 48]

\* The integer part is converted with its sign; the cast drops what is behind
\* the point, and with it the sign of a value between -1 and 0.
DecimalText(value, precision) ==
  IntegerText(Whole(value)) \o <<46>>
  \o FractionText(Abs(value), Least(precision, PrecisionCap))

HexDigit(n) == IF n > 9 THEN n + 55 ELSE n + 48

\* MUTANT FORM of HexText: the two digits of a byte are swapped.
HexTextSwapped(bytes) ==
  [k \in 1 .. 2 * Len(bytes) |->
     LET byte == bytes[Len(bytes) - (k - 1) \div 2]
     IN HexDigit(IF k % 2 = 0 THEN byte \div 16 ELSE byte % 16)]

\* From the byte at the lowest address, two chars each, backwards.
HexText(bytes) ==
  [k \in 1 .. 2 * Len(bytes) |->
     LET byte == bytes[Len(bytes) - (k - 1) \div 2]
     IN HexDigit(IF k % 2 = 1 THEN byte \div 16 ELSE byte % 16)]

Convert(request, text) ==
  /\ OutputBuffer' = Written(OutputBuffer, text, Len(text))
  /\ call' = request
  /\ UNCHANGED PadOutputBuffer

to_string ==
  \/ \E v \in IntegerValues :
       Convert([name |-> "integer", value |-> v], IntegerText(v))
  \/ \E v \in DecimalValues, p \in Precisions :
       Convert([name |-> "decimal", value |-> v, precision |-> p], DecimalText(v, p))

to_hstring ==
  \E v \in HexValues : Convert([name |-> "hex", value |-> v], HexText(v))

-----------------------------------------------------------------------------
(***************************************************************************)
(* Padding.                                                                *)
(***************************************************************************)

Spaces(n) == [i \in 1 .. n |-> 32]

\* A conversion's text while it is in its buffer, or another of the kernel's.
Paddable ==
  Literals \cup (IF call.name \in {"integer", "decimal", "hex"}
                 THEN {TextIn(OutputBuffer)} ELSE {})

\* A text that does not fit is returned as it came.
str_padleft ==
  \E text \in Paddable, n \in Counts :
    LET count == Least(n, CountCap)
        fits  == count > 0 /\ count >= Len(text)
    IN /\ call' = [name |-> "padleft", text |-> text, count |-> n, inPlace |-> ~fits]
       /\ PadOutputBuffer' =
            IF fits THEN Written(PadOutputBuffer, Spaces(count - Len(text)) \o text, count)
                    ELSE PadOutputBuffer
       /\ UNCHANGED OutputBuffer

\* MUTANT FORM of PaddedRight: the zero is written behind the text.
PaddedRightUncut(buffer, text, count) ==
  Written(buffer, text \o Spaces(count - Len(text)),
          IF count < Len(text) THEN Len(text) ELSE count)

\* The text is written whole, then cut.
PaddedRight(buffer, text, count) ==
  Written(buffer, text \o Spaces(count - Len(text)), count)

str_padright ==
  \E text \in Paddable, n \in Counts :
    /\ call' = [name |-> "padright", text |-> text, count |-> n]
    /\ PadOutputBuffer' = PaddedRight(PadOutputBuffer, text, Least(n, CountCap))
    /\ UNCHANGED OutputBuffer

StringsInit ==
  /\ OutputBuffer = [i \in 0 .. OutputSize - 1 |-> 0]
  /\ PadOutputBuffer = [i \in 0 .. PadOutputSize - 1 |-> 0]
  /\ call = [name |-> "none"] /\ calls = 0

StringsNext ==
  /\ calls < MaxCalls /\ calls' = calls + 1
  /\ to_string \/ to_hstring \/ str_padleft \/ str_padright

StringsSpec == StringsInit /\ [][StringsNext]_stringsVars

-----------------------------------------------------------------------------
(***************************************************************************)
(* Properties: what a reader of the text makes of it.                      *)
(***************************************************************************)

\* The numbers the first chars of a text stand for: digits 0 to 9, or A to F for
\* 10 to 15; and the number the text stands for.
NumbersIn(text, base) ==
  LET number[i \in 0 .. Len(text)] ==
        IF i = 0 THEN 0
        ELSE base * number[i - 1] + (IF text[i] > 57 THEN text[i] - 55 ELSE text[i] - 48)
  IN number

NumberIn(text, base) == NumbersIn(text, base)[Len(text)]

IntegerIn(text) ==
  IF Head(text) = 45 THEN -NumberIn(Tail(text), 10) ELSE NumberIn(text, 10)

\* The numbers the last, highest bytes stand for.
NumbersOf(bytes) ==
  LET number[i \in 0 .. Len(bytes)] ==
        IF i = 0 THEN 0 ELSE 256 * number[i - 1] + bytes[Len(bytes) + 1 - i]
  IN number

DecimalIsTrue(text, value, precision) ==
  LET point    == CHOOSE i \in DOMAIN text : text[i] = 46
      whole    == SubSeq(text, 1, point - 1)
      fraction == SubSeq(text, point + 1, Len(text))
      digits   == NumberIn(fraction, 10)
      rest     == (Abs(value) % Unit) * Power(10)[Len(fraction)]
  IN /\ Len(fraction) = Least(precision, PrecisionCap)
     /\ Abs(IntegerIn(whole)) = Abs(value) \div Unit
     /\ value <= -Unit => IntegerIn(whole) < 0
     /\ Abs(value) \div Unit < IntLimit => digits * Unit <= rest /\ rest < (digits + 1) * Unit

\* Read back, a conversion's text is the value converted, whatever longer text
\* the buffer held before: an integer, except the most negative one; a decimal,
\* cut after its places, except for the sign of a value between -1 and 0 and the
\* fraction of a value too large for an int; the bytes in hexadecimal.
TextSaysTheValue ==
  LET text == TextIn(OutputBuffer)
  IN /\ call.name = "integer" /\ call.value # MostNegative =>
          IntegerIn(text) = call.value /\ text[Len(text)] \in 48 .. 57
     /\ call.name = "decimal" /\ Whole(call.value) # MostNegative =>
          DecimalIsTrue(text, call.value, call.precision)
     /\ call.name = "hex" =>
          /\ Len(text) = 2 * Len(call.value)
          /\ NumberIn(text, 16) = NumbersOf(call.value)[Len(call.value)]

\* What a padding call returns has the width asked for, up to CountCap, and the
\* text on its side of it: cut to the width by str_padright, and returned whole,
\* wider than that, by str_padleft.
PaddedToItsWidth ==
  LET width == Least(call.count, CountCap)
      text  == IF call.name = "padleft" /\ call.inPlace THEN call.text
                                                       ELSE TextIn(PadOutputBuffer)
      free  == Len(text) - Len(call.text)
  IN call.name \in {"padleft", "padright"} =>
       /\ Len(text) = IF call.name = "padleft" /\ width < Len(call.text)
                      THEN Len(call.text) ELSE width
       /\ IF call.name = "padleft"
          THEN /\ SubSeq(text, free + 1, Len(text)) = call.text
               /\ \A i \in 1 .. free : text[i] = 32
          ELSE /\ \A i \in DOMAIN text :
                    text[i] = IF i <= Len(call.text) THEN call.text[i] ELSE 32
=============================================================================
