------------------------------ MODULE Decoding ------------------------------
(***************************************************************************)
(* Everything that turns what arrives into what is shown: the decoder of   *)
(* the extra field, which runs step by step, and the conversions that are a*)
(* function of their input, each tried on the samples it is given.         *)
(***************************************************************************)
EXTENDS TxExtraFields, Values, Transaction, Wire, PageParts

CONSTANT Samples  \* records with a kind, and what that kind of sample needs

\* What a sample of a kind is.
ASSUME SamplesAssumption ==
  \A s \in Samples :
    /\ s.kind = "tx" => IsTransaction(s.tx) /\ s.split \in BOOLEAN
    /\ s.kind = "reply" => s.struct \in Structs
    /\ s.kind = "table" =>
         /\ s.rows \in Seq([waiting_secs : Nat, fee_atomic : Nat, size : Nat, place : Nat])
         /\ \A i \in DOMAIN s.rows : s.rows[i].place = i
    /\ s.kind = "strip" =>
         /\ s.heights \in Seq(Nat) /\ s.spent_at \in Nat
         /\ \A i \in DOMAIN s.heights : Since(s.heights[i], s.spent_at) < Len(Log)

VARIABLE sample

NoSample == [kind |-> "none"]

\* The state of a decoder that has nothing to decode.
Unused == extra = <<>> /\ fields = <<>> /\ consumed = 0 /\ error = NoError /\ done = TRUE

Start == (ParseInit /\ sample = NoSample) \/ (Unused /\ sample \in Samples)

DecodingSpec == Start /\ [][ParseNext /\ UNCHANGED sample]_<<parse_vars, sample>>

-----------------------------------------------------------------------------
\* A sample of this kind, with the property its conversions owe it.
Sampled(kind, P(_)) == sample.kind = kind => P(sample)

\* Bytes written as hex read back as themselves, and in lower case.
HexReadsBack(s) ==
  /\ decode(encode(s.bytes)) = Some(s.bytes)
  /\ \A i \in DOMAIN encode(s.bytes) : Lower(encode(s.bytes)[i]) = encode(s.bytes)[i]

\* What decodes is hex of even length, written again but for its case; a text is
\* read as a hash only if it is one, and as a height only if it is all digits.
TextReadsBack(s) ==
  LET got == decode(s.text)
      id  == parse(s.text)
  IN  /\ got.some <=> AllOf(s.text, IsHex) /\ Len(s.text) % 2 = 0
      /\ got.some => encode(got.value) = [i \in DOMAIN s.text |-> Lower(s.text[i])]
      /\ "hash" \in DOMAIN id => encode(id.hash) = [i \in DOMAIN s.text |-> Lower(s.text[i])]
      /\ "height" \in DOMAIN id =>
           Len(s.text) <= HeightChars /\ AllOf(s.text, IsDigit) /\ id.height = Number(s.text)
      /\ "error" \in DOMAIN id =>
           ~(Len(s.text) = HashHexLen /\ AllOf(s.text, IsHex))

\* No digit of an amount is lost, in full or trimmed.
AmountReadsBack(s) ==
  LET Worth(x, places) ==
        Number(x.whole) * ATOMIC_PER_XMR + Number(x.frac) * 10^(Decimals - places)
      full    == to_xmr_string(s.atomic)
      trimmed == to_trimmed_xmr_string(s.atomic)
  IN  /\ Worth(full, Decimals) = s.atomic
      /\ Len(trimmed.frac) >= 1 /\ Worth(trimmed, Len(trimmed.frac)) = s.atomic
      /\ Len(trimmed.frac) > 1 => Last(trimmed.frac) # Zero

\* Dates follow one another from 1970-01-01 as the calendar has them.
DateCountsDays(s) ==
  /\ civil_from_days(0) = [year |-> 1970, month |-> 1, day |-> 1]
  /\ civil_from_days(s.day + 1) = DayAfter(civil_from_days(s.day))

\* A time is its date and the seconds since, clamped; an age adds up to the gap.
TimeReadsBack(s) ==
  LET t == timestamp_utc(s.secs)
      a == age(s.secs, s.now)
      units == SubSeq(AgeUnits, 6 - Len(a), 5)
      gap   == IF s.secs < s.now THEN s.now - s.secs ELSE s.secs - s.now
  IN  /\ t.hour \in 0..23 /\ t.minute \in 0..59 /\ t.second \in 0..59
      /\ s.secs <= MaxSecs =>
           s.secs % DAY = 3600 * t.hour + 60 * t.minute + t.second
      /\ s.secs > MaxSecs => t = timestamp_utc(MaxSecs)
      /\ Total([i \in DOMAIN a |-> a[i] * units[i]]) = gap
      /\ a[1] = 0 => Len(a) = 3

\* The high word is not lost, and the hash rate is a word.
WideReadsBack(s) ==
  /\ reassemble_u128(s.wide % Word, s.wide \div Word) = s.wide
  /\ hash_rate(s.wide, s.target) \in 0..(Word - 1)

\* What is rendered is what was given: hex, hashes and heights, amounts, dates,
\* times, ages and 128-bit values (hex.rs, hash.rs, chain.rs, amount.rs, fmt.rs,
\* types.rs).
ValuesReadBack ==
  /\ Sampled("bytes", HexReadsBack)
  /\ Sampled("text", TextReadsBack)
  /\ Sampled("amount", AmountReadsBack)
  /\ Sampled("day", DateCountsDays)
  /\ Sampled("secs", TimeReadsBack)
  /\ Sampled("wide", WideReadsBack)

-----------------------------------------------------------------------------
Factual(s) ==
  LET tx   == JsonOf(s.tx, s.split)
      got  == from_entry(EntryOf(s.tx, s.split), tx)
      pool == from_pool([blob_size |-> 3, fee |-> Paid(s.tx)], tx)
  IN  /\ got.coinbase = s.tx.coinbase
      /\ got.fee = Paid(s.tx) /\ pool.fee = Paid(s.tx)
      /\ got.rct_type = IF s.tx.version = 2 THEN s.tx.scheme ELSE 0
      /\ got.ring_size = IF s.tx.coinbase THEN 0 ELSE s.tx.ins[1].ring
      /\ got.size = IF Prunable(s.tx) /\ s.tx.lost THEN 1 ELSE Len(Parts(s.tx).prefix \o Parts(s.tx).rest)
      /\ CarriesPseudo(s.tx) <=> pseudo_outs(tx) # <<>>
      /\ CarriesPseudo(s.tx) => pseudo_outs(tx) = s.tx.pseudo
      /\ s.tx.version = 1 /\ ~s.tx.coinbase =>
           \A i \in DOMAIN s.tx.ins : ring_signatures_for_input(tx, i) = s.tx.ins[i].ring

\* The facts shown of a transaction are those of the transaction, for every era,
\* scheme and form it may be sent in: its fee (of a version 1 transaction too),
\* ring size, bytes, scheme, pseudo-outputs and ring signatures (TxFacts, TxJson).
FactsAreTrue == Sampled("tx", Factual)

\* A transaction is called pruned exactly when this node has pruned it, by the
\* entry and by the document alike, and never a coinbase or one that was sent in
\* one piece (prunable_missing, looks_pruned).
PruningIsSeen ==
  LET Seen(s) ==
        LET tx == JsonOf(s.tx, s.split)
        IN  /\ prunable_missing(EntryOf(s.tx, s.split), tx) <=> Prunable(s.tx) /\ s.tx.lost
            /\ looks_pruned(tx) <=> Prunable(s.tx) /\ s.tx.lost
  IN  Sampled("tx", Seen)

\* A reply decodes to what the daemon meant, whichever of the fields it may leave
\* out are missing: empty arrays, optional fields at their default, and those a
\* newer daemon no longer has (types.rs).
RepliesDecode ==
  LET Decoded(s) == \A lack \in Lacking(s.struct) : Decodes(s.struct, lack)
  IN  Sampled("reply", Decoded)

-----------------------------------------------------------------------------
\* A table under a sort: its rows, each with its place in the daemon's list.
Ordered(s) ==
  LET active == active_sort(s.sort, s.dir)
      rows   == sort_pool_rows(s.rows, active)
      Worth(row, key) == IF key = "fee" THEN row.fee_atomic
                         ELSE IF key = "size" THEN row.size ELSE row.waiting_secs
  IN  /\ active = {} => rows = s.rows
      /\ Range(rows) = Range(s.rows) /\ Len(rows) = Len(s.rows)
      /\ \A a \in active, i, j \in DOMAIN rows : i < j =>
           LET m == Worth(rows[i], a.key)
               n == Worth(rows[j], a.key)
           IN  /\ IF a.dir = "asc" THEN m <= n ELSE m >= n
               /\ m = n => rows[i].place < rows[j].place

\* A header of the table, followed: the page is sorted by it, the other way round
\* if it was already, and its mark says which way.
Linked(s) ==
  \A key \in {"waiting", "fee", "size"} :
    LET active == active_sort(s.sort, s.dir)
        header == column_sort(key, active)
        then   == active_sort(header.href.sort, header.href.dir)
    IN  /\ \E a \in then : a.key = key
        /\ column_sort(key, then).state = header.href.dir
        /\ then # active
        /\ header.state # "none" <=> \E a \in active : a.key = key

\* A strip: every mark lies on it, older members never right of younger ones, and
\* the ends are the oldest and the spend.
Drawn(s) ==
  LET heights == s.heights
      oldest  == axis_span(Range(heights), s.spent_at)
      strip   == age_strip(heights, s.spent_at, oldest)
      Age(i)   == Since(heights[i], s.spent_at)
  IN  /\ \A i \in DOMAIN heights :
           /\ Age(i) <= oldest
           /\ strip.marks[i] >= 0 /\ strip.marks[i] + HaloWidth <= StripWidth
           /\ Age(i) = oldest /\ oldest > 0 => strip.marks[i] = 0
           /\ Age(i) = 0 => strip.marks[i] = StripWidth - HaloWidth
      /\ \A i, j \in DOMAIN heights : Age(i) <= Age(j) => strip.marks[i] >= strip.marks[j]
      /\ \A at \in DOMAIN strip.ticks : strip.ticks[at] \in 0..StripWidth
      /\ \A i \in DOMAIN heights :
           LET l == age_label(Age(i)) IN l.count * l.unit <= 2 * Age(i) /\ 2 * Age(i) < (l.count + 1) * l.unit

\* The tables and strips show what they were given, in the order they claim: no
\* row lost, equal rows as the daemon had them in both directions, every link
\* doing what its mark says, no mark off its strip (sort_rows, column_sort,
\* age_strip of html.rs).
ListingsHold ==
  /\ Sampled("table", Ordered)
  /\ Sampled("table", Linked)
  /\ Sampled("strip", Drawn)
=============================================================================
