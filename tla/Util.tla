-------------------------------- MODULE Util --------------------------------
(***************************************************************************)
(* The number formats of src/util.cc: sizes with a unit of K, M or G and   *)
(* durations in nanoseconds, read from options and shown by --help.  A     *)
(* text is its digits, the minus sign there may be before them, and what   *)
(* follows them; uint64_t has MaxUint for its maximum, and a unit is worth *)
(* what Worth says.                                                        *)
(***************************************************************************)
EXTENDS Integers, Sequences

CONSTANTS MaxUint,   \* std::numeric_limits<uint64_t>::max()
          Worth      \* unit |-> its size: "K", "M", "G", "ns", "us", "ms", "s", "m", "h"

SizeUnits == {"K", "M", "G"}
DurationUnits == {"ns", "us", "ms", "s", "m", "h"}

\* Nothing follows the digits.
NoUnit == "none"

\* uint64_t holds every digit and every unit.
ASSUME UtilAssumption ==
  /\ MaxUint \in Nat /\ MaxUint >= 9
  /\ \A unit \in SizeUnits \cup DurationUnits : Worth[unit] \in 1 .. MaxUint
  /\ Worth["ns"] = 1

\* A text: whether a minus sign comes first, its digits, and whatever follows them.
IsText(text) == text.negative \in BOOLEAN /\ text.digits \in Seq(0 .. 9)

Error == -1

\* uint64_t arithmetic.
Wrap(n) == n % (MaxUint + 1)

-----------------------------------------------------------------------------
(* Mutant: the digit is forgotten in the test. *)
PushDigitUnguarded(res, d) ==
  IF res = Error \/ res > MaxUint \div 10 THEN Error ELSE Wrap(Wrap(res * 10) + d)

\* One turn of parse_uint_internal's loop.
PushDigit(res, d) ==
  IF res = Error \/ res > (MaxUint - d) \div 10 THEN Error ELSE Wrap(res * 10 + d)

\* The loop: res after each of the digits.
PushDigits(digits) ==
  LET res[i \in 0 .. Len(digits)] ==
        IF i = 0 THEN 0 ELSE PushDigit(res[i - 1], digits[i])
  IN res[Len(digits)]

\* parse_uint_internal: the empty string is an error, an empty number is 0.
parse_uint_internal(text) ==
  IF text.digits = <<>> /\ text.rest = NoUnit THEN Error ELSE PushDigits(text.digits)

\* The end that parse_uint_iec and parse_duration share.
Times(res, m) == IF res > MaxUint \div m THEN Error ELSE Wrap(res * m)

\* A text whose rest is no unit is an error, and so is one with a sign, in which
\* no digit is read and which is no unit; an error stays one.
ParseWith(text, units) ==
  LET res == parse_uint_internal(text)
  IN IF text.negative \/ res = Error THEN Error
     ELSE IF text.rest = NoUnit THEN res
     ELSE IF text.rest \in units THEN Times(res, Worth[text.rest])
     ELSE Error

parse_uint_iec(text) == ParseWith(text, SizeUnits)

\* No unit means nanoseconds, whatever --help says.
parse_duration(text) == ParseWith(text, DurationUnits)

-----------------------------------------------------------------------------
\* format_uint: the digits of n, the last of them by n % 10.
format_uint(n) ==
  LET res[k \in 0 .. n] ==
        Append(IF k < 10 THEN <<>> ELSE res[k \div 10], k % 10)
  IN res[n]

\* The largest of the units that divides n, NoUnit if none does: format_uint_iec
\* and format_duration try them from the largest.
LargestUnit(n, units) ==
  LET dividing == {u \in units : n >= Worth[u] /\ n % Worth[u] = 0}
  IN IF dividing = {} THEN NoUnit ELSE CHOOSE u \in dividing : \A v \in dividing : Worth[v] <= Worth[u]

FormatWith(n, unit) ==
  [negative |-> FALSE, digits |-> format_uint(IF unit = NoUnit THEN n ELSE n \div Worth[unit]), rest |-> unit]

format_uint_iec(n) == FormatWith(n, LargestUnit(n, SizeUnits))

format_duration(n) ==
  LET unit == LargestUnit(n, DurationUnits)
  IN FormatWith(n, IF unit = NoUnit THEN "ns" ELSE unit)

-----------------------------------------------------------------------------
\* What a text says, without a limit.
Number(digits) ==
  LET number[i \in 0 .. Len(digits)] ==
        IF i = 0 THEN 0 ELSE 10 * number[i - 1] + digits[i]
  IN number[Len(digits)]

Says(text) == Number(text.digits) * (IF text.rest = NoUnit THEN 1 ELSE Worth[text.rest])

(***************************************************************************)
(* What --help shows for a number is read back as that number; and a text  *)
(* is read as what it says, or refused when that does not fit or is        *)
(* negative: no number of digits and no unit makes it wrap.  A duration    *)
(* says something only with a unit: without one --help of both programs    *)
(* says seconds and the code nanoseconds.                                  *)
(***************************************************************************)
ReadsAs(n, text) ==
  LET said == IF text.negative \/ Says(text) > MaxUint THEN Error ELSE Says(text) IN
  /\ parse_uint_iec(format_uint_iec(n)) = n
  /\ parse_duration(format_duration(n)) = n
  /\ text.rest \in DurationUnits => parse_duration(text) = said
  /\ text.rest \in SizeUnits \cup {NoUnit} => parse_uint_iec(text) = said
=============================================================================
