--------------------------- MODULE PrivateLookup ----------------------------
(***************************************************************************)
(* The rules of the k-anonymous lookup (handlers.rs): which postfixes of a *)
(* transaction hash it serves on a chain of a given size, and the request  *)
(* it makes of the daemon for one (types.rs).                              *)
(*                                                                         *)
(* A hash is a sequence of HashLen characters; a character of a postfix may*)
(* be no hex digit at all.  Case has been folded.                          *)
(***************************************************************************)
EXTENDS Integers, Sequences

CONSTANTS
  BitsPerChar,             \* bits a hex character stands for, 4 in the code
  HexChars,                \* the characters of a hash
  HashLen,                 \* characters of a hash, 64
  MIN_ANONYMITY_SET,       \* 20
  MAX_PRIVATE_TX_MATCHES,  \* 1000
  Limits                   \* the configured bounds

Radix == 2^BitsPerChar

ASSUME HashTextAssumption ==
  BitsPerChar \in Nat \ {0} /\ HashLen \in Nat /\ HashLen % 2 = 0

\* The const assertion: a band at least one character wide.
ASSUME BandAssumption ==
  /\ MIN_ANONYMITY_SET \in Nat \ {0} /\ MAX_PRIVATE_TX_MATCHES \in Nat
  /\ MAX_PRIVATE_TX_MATCHES \div MIN_ANONYMITY_SET >= Radix

\* What the command line accepts, and limits() lets pass.
ASSUME LimitsAssumption ==
  /\ Limits.postfix_min \in 1..HashLen /\ Limits.postfix_max \in 1..HashLen
  /\ Limits.postfix_min <= Limits.postfix_max
  /\ Limits.block_range \in Nat \ {0} /\ Limits.recent_blocks \in Nat \ {0}

-----------------------------------------------------------------------------
\* The last n characters.
LastChars(text, n) == SubSeq(text, Len(text) - n + 1, Len(text))

EndsWith(text, postfix) ==
  Len(postfix) <= Len(text) /\ LastChars(text, Len(postfix)) = postfix

IsHexText(text) == \A i \in DOMAIN text : text[i] \in HexChars

\* tx_count of the daemon leaves the coinbases out, one for each block.
total_transactions(info) == info.tx_count + info.height

\* How many transactions share a postfix of n characters, on average.
Expected(tx_count, n) == tx_count \div Radix^n

InBand(expected) ==
  CASE expected < MIN_ANONYMITY_SET -> "TooLongToBeAnonymous"
    [] expected > MAX_PRIVATE_TX_MATCHES -> "TooShortToServe"
    [] OTHER -> "Ok"

\* Length, then alphabet, then the set the postfix is expected to name.
check_postfix(postfix, tx_count) ==
  CASE Len(postfix) \notin Limits.postfix_min..Limits.postfix_max -> "Length"
    [] Len(postfix) \in Limits.postfix_min..Limits.postfix_max /\ ~IsHexText(postfix) -> "NotHex"
    [] OTHER -> InBand(Expected(tx_count, Len(postfix)))

Sample(n) == [i \in 1..n |-> CHOOSE c \in HexChars : TRUE]

postfix_lengths_for(tx_count) ==
  {n \in Limits.postfix_min..Limits.postfix_max : check_postfix(Sample(n), tx_count) = "Ok"}

\* What the documentation page lists.
acceptable_postfix_lengths(info) == postfix_lengths_for(total_transactions(info))

\* Fault: the front of an odd-length postfix is searched for.
whole_byte_prefix(postfix) == SubSeq(postfix, 1, Len(postfix) - (Len(postfix) % 2))

\* Two characters make a byte; the leading one of an odd number is left out.
whole_byte_suffix(postfix) == LastChars(postfix, Len(postfix) - (Len(postfix) % 2))

\* A request names whole bytes of a suffix, one byte at least: the template is
\* the suffix below zeros, and the bits are those of the suffix.
from_hex_suffix(suffix) ==
  IF suffix # <<>> /\ Len(suffix) % 2 = 0 /\ Len(suffix) <= HashLen /\ IsHexText(suffix)
  THEN {[txid_template     |-> [i \in 1..(HashLen - Len(suffix)) |-> 0] \o suffix,
         num_matching_bits |-> BitsPerChar * Len(suffix)]}
  ELSE {}

\* get_txids_loose: the hashes that agree with the template in its low bits.
Matches(hash, request) ==
  EndsWith(hash, LastChars(request.txid_template, request.num_matching_bits \div BitsPerChar))
=============================================================================
