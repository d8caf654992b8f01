------------------------------- MODULE Values -------------------------------
(***************************************************************************)
(* How numbers, hashes and times are read and written: hex.rs, hash.rs,    *)
(* fmt.rs, amount.rs, BlockId::parse (chain.rs) and the split 128-bit      *)
(* values of types.rs.                                                     *)
(*                                                                         *)
(* A character is its ASCII code and a text a sequence of characters; a    *)
(* number that is a word in the code is below Word.                        *)
(***************************************************************************)
EXTENDS Integers, Sequences

CONSTANTS
  Word,         \* 2^64 in the code
  HashHexLen,   \* HASH_HEX_LEN, 64
  HeightChars,  \* longest text BlockId::parse takes for a height, 8
  Decimals,     \* DECIMALS, 12
  MaxSecs       \* 9999-12-31 23:59:59

ASSUME ValueWordAssumption == Word \in Nat /\ Word > 1
ASSUME TextAssumption ==
  /\ HashHexLen \in Nat \ {0} /\ HashHexLen % 2 = 0
  /\ HeightChars \in 1..(HashHexLen - 1)
ASSUME AmountAssumption == Decimals \in Nat \ {0} /\ MaxSecs \in Nat

-----------------------------------------------------------------------------
\* Text.
Zero == 48
Nine == 57
UpperA == 65
UpperF == 70
LowerA == 97
LowerF == 102

IsDigit(c) == c \in Zero..Nine
IsHex(c) == c \in Zero..Nine \cup UpperA..UpperF \cup LowerA..LowerF
AllOf(text, Test(_)) == \A i \in DOMAIN text : Test(text[i])

\* A value that may be missing, an Option or a Result whose error says nothing.
Some(v) == [some |-> TRUE, value |-> v]
None == [some |-> FALSE]

digit(nibble) == IF nibble <= 9 THEN Zero + nibble ELSE LowerA + nibble - 10

value(c) ==
  CASE c \in Zero..Nine -> c - Zero
    [] c \in LowerA..LowerF -> c - LowerA + 10
    [] c \in UpperA..UpperF -> c - UpperA + 10

\* Two characters for each byte, the high nibble first.
encode(bytes) ==
  [i \in 1..(2 * Len(bytes)) |->
     IF i % 2 = 1 THEN digit(bytes[(i + 1) \div 2] \div 16) ELSE digit(bytes[i \div 2] % 16)]

\* Into a buffer of n bytes: text of any other length is refused.
decode_to_slice(text, n) ==
  IF Len(text) = 2 * n /\ AllOf(text, IsHex)
  THEN Some([i \in 1..n |-> 16 * value(text[2 * i - 1]) + value(text[2 * i])])
  ELSE None

decode(text) == decode_to_slice(text, Len(text) \div 2)

\* Hash32::from_str: the length, then the alphabet.
from_str(text) ==
  CASE Len(text) # HashHexLen -> [error |-> "WrongLength"]
    [] Len(text) = HashHexLen /\ ~AllOf(text, IsHex) -> [error |-> "NotHex"]
    [] OTHER -> [hash |-> decode_to_slice(text, HashHexLen \div 2).value]

\* The number a text of digits writes.
Number(text) ==
  LET upto[i \in 0..Len(text)] == IF i = 0 THEN 0 ELSE 10 * upto[i - 1] + (text[i] - Zero)
  IN  upto[Len(text)]

\* Digits and nothing else, not even a sign, within a word.
decimal(text) ==
  IF text # <<>> /\ AllOf(text, IsDigit) /\ Number(text) < Word
  THEN Some(Number(text)) ELSE None

\* BlockId::parse: by the length of the text, a hash or a height.
parse(text) ==
  CASE Len(text) = HashHexLen ->
         IF "hash" \in DOMAIN from_str(text) THEN [hash |-> from_str(text).hash]
         ELSE [error |-> "NotAHash"]
    [] Len(text) # HashHexLen /\ Len(text) <= HeightChars ->
         IF decimal(text).some THEN [height |-> decimal(text).value]
         ELSE [error |-> "NotAHeight"]
    [] OTHER -> [error |-> "Unrecognised"]

-----------------------------------------------------------------------------
\* Amounts, in atomic units.
ATOMIC_PER_XMR == 10^Decimals

\* The last n digits of a number.
LastDigits(number, n) == [i \in 1..n |-> Zero + ((number \div 10^(n - i)) % 10)]

\* How many digits a number has.
Places(number) == CHOOSE n \in 1..20 : number < 10^n /\ (n = 1 \/ number >= 10^(n - 1))

\* `{frac:0width$}`: the fraction has all its places.
to_xmr_string(atomic) ==
  LET whole == atomic \div ATOMIC_PER_XMR
  IN  [whole |-> LastDigits(whole, Places(whole)),
       frac  |-> LastDigits(atomic % ATOMIC_PER_XMR, Decimals)]

\* Trailing zeros go, but one place stays.
to_trimmed_xmr_string(atomic) ==
  LET full == to_xmr_string(atomic)
      kept == {n \in 1..Decimals : full.frac[n] # Zero}
      last == IF kept = {} THEN 1 ELSE CHOOSE n \in kept : \A m \in kept : m <= n
  IN  [full EXCEPT !.frac = SubSeq(full.frac, 1, last)]

-----------------------------------------------------------------------------
\* Times.
YEAR == 31536000
DAY == 86400

\* A day counted from a March, month index mp, in March-based year y.
March(y, doy, mp) ==
  LET m == IF mp < 10 THEN mp + 3 ELSE mp - 9
  IN  [year  |-> IF m <= 2 THEN y + 1 ELSE y,
       month |-> m,
       day   |-> doy - ((153 * mp + 2) \div 5) + 1]

OfYear(y, doy) == March(y, doy, (5 * doy + 2) \div 153)

\* Fault: a century is taken for a leap year.
yoe_julian(doe) == (doe - (doe \div 1460)) \div 365

\* The year of an era that its day doe falls in.
yoe(doe) == (doe - (doe \div 1460) + (doe \div 36524) - (doe \div 146096)) \div 365

\* Days since 1970-01-01 to a date: eras of 400 years that begin in March.
civil_from_days(days) ==
  LET z   == days + 719468
      doe == z % 146097
      yr  == yoe(doe)
  IN  OfYear(yr + 400 * (z \div 146097), doe - (365 * yr + (yr \div 4) - (yr \div 100)))

\* Clamped, never wrapped.
timestamp_utc(secs) ==
  LET clamped == IF secs < MaxSecs THEN secs ELSE MaxSecs
      rem     == clamped % DAY
  IN  [date   |-> civil_from_days(clamped \div DAY),
       hour   |-> rem \div 3600,
       minute |-> (rem % 3600) \div 60,
       second |-> rem % 60]

\* The gap between two times, whichever is later, in flat years of 365 days;
\* the larger fields are written only when they are not zero.
age(t1, t2) ==
  LET diff    == IF t1 < t2 THEN t2 - t1 ELSE t1 - t2
      days    == (diff % YEAR) \div DAY
      hours   == (diff % DAY) \div 3600
      minutes == (diff % 3600) \div 60
  IN  CASE diff >= YEAR -> <<diff \div YEAR, days, hours, minutes, diff % 60>>
        [] diff < YEAR /\ days > 0 -> <<days, hours, minutes, diff % 60>>
        [] OTHER -> <<hours, minutes, diff % 60>>

-----------------------------------------------------------------------------
\* 128-bit values, which monerod sends as a low and a high word.

reassemble_u128(low, top64) == top64 * Word + low

\* Difficulty over the block time, at most a word.
hash_rate(difficulty, target) ==
  IF target = 0 THEN 0
  ELSE IF difficulty \div target < Word THEN difficulty \div target ELSE Word - 1

-----------------------------------------------------------------------------
\* What the conversions are checked against.

Lower(c) == IF c \in UpperA..UpperF THEN c + (LowerA - UpperA) ELSE c

IsLeap(year) == (year % 4 = 0 /\ year % 100 # 0) \/ year % 400 = 0

DaysIn(month, year) ==
  CASE month = 2 -> IF IsLeap(year) THEN 29 ELSE 28
    [] month \in {4, 6, 9, 11} -> 30
    [] OTHER -> 31

\* The day after a date.
DayAfter(d) ==
  CASE d.day < DaysIn(d.month, d.year) -> [d EXCEPT !.day = @ + 1]
    [] d.day >= DaysIn(d.month, d.year) /\ d.month < 12 -> [d EXCEPT !.day = 1, !.month = @ + 1]
    [] OTHER -> [year |-> d.year + 1, month |-> 1, day |-> 1]

\* The units each field of an age stands for, the least significant last.
AgeUnits == <<YEAR, DAY, 3600, 60, 1>>
=============================================================================
