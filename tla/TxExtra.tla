------------------------------ MODULE TxExtra -------------------------------
(***************************************************************************)
(* The decoder of a transaction's extra field (tx_extra.rs): a loop that   *)
(* takes one field after another off a blob of bytes until the blob ends or*)
(* a field cannot be decoded.  What was decoded before that is kept.       *)
(*                                                                         *)
(* Positions count from 0, as in the code.  A byte has Digit value bits and*)
(* one continuation bit; a varint is at most Width bits wide.              *)
(***************************************************************************)
EXTENDS Integers, SequencesExt

CONSTANTS
  Blobs,       \* the extra fields to decode
  Digit,       \* value bits in a byte of a varint, 7 in the code
  Width,       \* bits of a varint's value, 64
  HashLen,     \* HASH_LEN, 32
  NonceMax,    \* NONCE_MAX_COUNT, 255
  PaddingMax,  \* PADDING_MAX_COUNT, 255
  MinerGate    \* TAG_MINERGATE, 0xDE

Base == 2^Digit  \* the continuation bit
Byte == 0..(2 * Base - 1)

TAG_PADDING == 0
TAG_PUBKEY == 1
TAG_NONCE == 2
TAG_MERGE_MINING == 3
TAG_ADDITIONAL_PUBKEYS == 4

ASSUME WidthAssumption == Digit \in Nat \ {0} /\ Width \in Nat /\ Width > Digit
\* True of every Digit; the provers know no laws of powers.
ASSUME BaseAssumption == Base \in Nat \ {0}
ASSUME LengthAssumption ==
  HashLen \in Nat \ {0} /\ NonceMax \in Nat /\ PaddingMax \in Nat \ {0}
ASSUME TagAssumption == MinerGate \in Byte \ 0..4
ASSUME BlobAssumption == Blobs \subseteq Seq(Byte)

VARIABLES
  extra,     \* the blob
  fields,    \* the fields decoded so far
  consumed,  \* bytes they cover
  error,     \* why decoding stopped, or NoError
  done

parse_vars == <<extra, fields, consumed, error, done>>

NoError == [kind |-> "None", offset |-> 0]

-----------------------------------------------------------------------------
At(buf, pos) == buf[pos + 1]
Slice(buf, from, to) == SubSeq(buf, from + 1, to)
First(S) == CHOOSE n \in S : \A m \in S : n <= m

\* The digits a varint may have: shifts 0, Digit, 2 * Digit... below Width.
Digits == (Width + Digit - 1) \div Digit

Overflows(byte, i) ==
  (i + 1) * Digit >= Width /\ byte >= 2^(Width - i * Digit)

\* Fault: a byte of zero that adds nothing is read as the last digit.
NonCanonicalRead(byte, i) == FALSE

NonCanonical(byte, i) == byte = 0 /\ i # 0

\* The value of n digits, least significant first.
Value(buf, pos, n) ==
  LET sum[i \in 0..n] ==
        IF i = 0 THEN 0 ELSE sum[i - 1] + (At(buf, pos + i - 1) % Base) * Base^(i - 1)
  IN  sum[n]

\* Fault: a varint cut off by the end of the blob is refused.
CutOffIsGood_never(n) == FALSE

\* A varint cut off by the end of the blob stands, unless nothing was read.
CutOffIsGood(n) == n >= 1

\* The index of the byte at which the loop of read_varint returns.
Stop(buf, pos) ==
  First({i \in 0..Digits :
           \/ i = Digits \/ pos + i >= Len(buf)
           \/ Overflows(At(buf, pos + i), i)
           \/ NonCanonical(At(buf, pos + i), i)
           \/ At(buf, pos + i) < Base})

Read(buf, pos, digits, bytes, good) ==
  [value |-> Value(buf, pos, digits), pos |-> pos + bytes, good |-> good]

ReadTo(buf, pos, n) ==
  CASE n = Digits -> Read(buf, pos, n, n, FALSE)
    [] n < Digits /\ pos + n >= Len(buf) -> Read(buf, pos, n, n, CutOffIsGood(n))
    [] OTHER -> IF Overflows(At(buf, pos + n), n) \/ NonCanonical(At(buf, pos + n), n)
                THEN Read(buf, pos, n, n + 1, FALSE)
                ELSE Read(buf, pos, n + 1, n + 1, TRUE)

\* The value, the position after it, and whether it is good.
read_varint(buf, pos) == ReadTo(buf, pos, Stop(buf, pos))

-----------------------------------------------------------------------------
FieldOk(field, next) == [ok |-> TRUE, field |-> field, next |-> next]
FieldErr(offset, kind) == [ok |-> FALSE, error |-> [kind |-> kind, offset |-> offset]]

\* How many zero bytes follow, PaddingMax at most.
Zeros(buf, pos) ==
  First({i \in 0..PaddingMax :
           i = PaddingMax \/ pos + i >= Len(buf) \/ At(buf, pos + i) # 0})

\* n zero bytes, to the end of the blob; `size` counts the tag.
padding(buf, pos, n) ==
  CASE n = PaddingMax -> FieldErr(pos + n, "PaddingTooLong")
    [] n < PaddingMax /\ pos + n >= Len(buf) ->
         FieldOk([tag |-> TAG_PADDING, size |-> n + 1], pos + n)
    [] OTHER -> FieldErr(pos + n, "PaddingNonZero")

pub_key(buf, pos) ==
  IF pos + HashLen > Len(buf) THEN FieldErr(pos, "TruncatedPubKey")
  ELSE FieldOk([tag |-> TAG_PUBKEY, data |-> Slice(buf, pos, pos + HashLen)], pos + HashLen)

\* `len`, a varint, and that many bytes.  A bad varint leaves nothing
\* available, so only a length of zero gets past it.
Counted(buf, len) ==
  LET avail == IF len.good THEN Len(buf) - len.pos ELSE 0
      end   == len.pos + len.value
  IN  CASE avail < len.value -> FieldErr(len.pos, "LengthBeyondEnd")
        [] avail >= len.value /\ ~len.good -> FieldErr(end, "BadVarint")
        [] OTHER -> FieldOk(Slice(buf, len.pos, end), end)

NonceTooLong(n) == n > NonceMax

nonce(got) ==
  CASE ~got.ok -> got
    [] got.ok /\ NonceTooLong(Len(got.field)) -> FieldErr(got.next, "NonceTooLong")
    [] OTHER -> FieldOk([tag |-> TAG_NONCE, data |-> got.field], got.next)

minergate(got) ==
  IF got.ok THEN FieldOk([tag |-> MinerGate, data |-> got.field], got.next) ELSE got

\* The inner blob must be a depth and a root, exactly.
ConsumedInner(depth, inner) == depth.pos + HashLen = Len(inner)

\* Where a bad inner blob is reported: after it.
InnerOffset(depth, end) == end

DepthAndRoot(inner, depth, end) ==
  IF depth.good /\ ConsumedInner(depth, inner)
  THEN FieldOk([tag |-> TAG_MERGE_MINING, depth |-> depth.value,
           root |-> Slice(inner, depth.pos, depth.pos + HashLen)], end)
  ELSE FieldErr(InnerOffset(depth, end), "MergeMiningBlob")

merge_mining(got) ==
  IF got.ok THEN DepthAndRoot(got.field, read_varint(got.field, 0), got.next) ELSE got

\* The varint counts keys, but is held against the bytes that remain.
additional_pub_keys(buf, count) ==
  LET avail == Len(buf) - count.pos
      whole == avail \div HashLen
      KeyAt(i) == count.pos + (i - 1) * HashLen
  IN  CASE ~count.good -> FieldErr(count.pos, "BadVarint")
        [] count.good /\ avail < count.value -> FieldErr(count.pos, "LengthBeyondEnd")
        [] count.good /\ avail >= count.value /\ whole < count.value ->
             FieldErr(KeyAt(whole + 1), "TruncatedAdditionalKeys")
        [] OTHER ->
             FieldOk([tag |-> TAG_ADDITIONAL_PUBKEYS,
                 keys |-> [i \in 1..count.value |-> Slice(buf, KeyAt(i), KeyAt(i + 1))]],
                KeyAt(count.value + 1))

parse_field(buf, start) ==
  LET tag == At(buf, start)
      pos == start + 1
  IN  CASE tag = TAG_PADDING -> padding(buf, pos, Zeros(buf, pos))
        [] tag = TAG_PUBKEY -> pub_key(buf, pos)
        [] tag = TAG_NONCE -> nonce(Counted(buf, read_varint(buf, pos)))
        [] tag = TAG_MERGE_MINING -> merge_mining(Counted(buf, read_varint(buf, pos)))
        [] tag = TAG_ADDITIONAL_PUBKEYS -> additional_pub_keys(buf, read_varint(buf, pos))
        [] tag = MinerGate -> minergate(Counted(buf, read_varint(buf, pos)))
        [] OTHER -> FieldErr(start, "UnknownTag")

-----------------------------------------------------------------------------
ParseInit ==
  /\ extra \in Blobs
  /\ fields = <<>> /\ consumed = 0 /\ error = NoError /\ done = FALSE

\* One turn of parse's loop.
Field ==
  /\ ~done /\ consumed < Len(extra)
  /\ \E got \in {parse_field(extra, consumed)} :
       \/ /\ got.ok /\ got.next > consumed
          /\ fields' = Append(fields, got.field)
          /\ consumed' = got.next
          /\ UNCHANGED <<error, done>>
       \/ /\ ~(got.ok /\ got.next > consumed)
          /\ error' = IF got.ok THEN [kind |-> "BadVarint", offset |-> consumed]
                      ELSE got.error
          /\ done' = TRUE
          /\ UNCHANGED <<fields, consumed>>
  /\ UNCHANGED extra

AtEnd ==
  /\ ~done /\ consumed >= Len(extra)
  /\ done' = TRUE
  /\ UNCHANGED <<extra, fields, consumed, error>>

ParseNext == Field \/ AtEnd

ParseSpec == ParseInit /\ [][ParseNext]_parse_vars

-----------------------------------------------------------------------------
\* The format, stated as an encoding: what the decoder is checked against.

\* n in as few bytes as it takes, every byte but the last marked to continue.
Varint(n) ==
  LET len == First({d \in 1..Digits : n < Base^d})
  IN  [i \in 1..len |->
         ((n \div Base^(i - 1)) % Base) + (IF i < len THEN Base ELSE 0)]

Encoded(f) ==
  CASE f.tag = TAG_PADDING -> [i \in 1..f.size |-> 0]
    [] f.tag = TAG_PUBKEY -> <<TAG_PUBKEY>> \o f.data
    [] f.tag \in {TAG_NONCE, MinerGate} -> <<f.tag>> \o Varint(Len(f.data)) \o f.data
    [] f.tag = TAG_MERGE_MINING ->
         LET inner == Varint(f.depth) \o f.root
         IN  <<TAG_MERGE_MINING>> \o Varint(Len(inner)) \o inner
    [] f.tag = TAG_ADDITIONAL_PUBKEYS ->
         <<TAG_ADDITIONAL_PUBKEYS>> \o Varint(Len(f.keys)) \o FlattenSeq(f.keys)

EncodedAll(fs) == FlattenSeq([i \in DOMAIN fs |-> Encoded(fs[i])])

\* A field that declares no content and whose varint the blob's end cut off.
CutOff(tail) ==
  /\ Len(tail) > 1
  /\ tail[1] \in {TAG_NONCE, MinerGate, TAG_ADDITIONAL_PUBKEYS}
  /\ \A i \in 2..Len(tail) : tail[i] = Base

\* Whether bytes begin with the varint of n and at least m bytes after it.
Declares(bytes, n, m) ==
  IsPrefix(Varint(n), bytes) /\ Len(bytes) >= Len(Varint(n)) + m

\* Whether bytes begin with a field that the format allows there.
StartsWithField(bytes) ==
  LET body == Tail(bytes)
      lens == 0..Len(bytes)
  IN  \/ CutOff(bytes) /\ Len(bytes) <= Digits
      \/ Len(bytes) <= PaddingMax /\ \A i \in DOMAIN bytes : bytes[i] = TAG_PADDING
      \/ bytes[1] = TAG_PUBKEY /\ Len(body) >= HashLen
      \/ bytes[1] = TAG_NONCE /\ \E n \in lens : n <= NonceMax /\ Declares(body, n, n)
      \/ bytes[1] = MinerGate /\ \E n \in lens : Declares(body, n, n)
      \/ bytes[1] = TAG_ADDITIONAL_PUBKEYS /\ \E n \in lens : Declares(body, n, n * HashLen)
      \/ /\ bytes[1] = TAG_MERGE_MINING
         /\ \E n \in lens, depth \in 0..(2^Width - 1) :
              /\ Declares(body, n, n)
              /\ n = Len(Varint(depth)) + HashLen
              /\ IsPrefix(Varint(n) \o Varint(depth), body)

TxExtraErrorKind == {"None", "UnknownTag", "PaddingNonZero", "PaddingTooLong", "TruncatedPubKey",
          "BadVarint", "LengthBeyondEnd", "NonceTooLong", "MergeMiningBlob",
          "TruncatedAdditionalKeys"}

\* The fields decoded, encoded again, are the bytes they were decoded from,
\* but for a last one whose varint the end of the blob cut off (parse).
RoundTrip ==
  LET bytes == Slice(extra, 0, consumed)
      front == IF fields = <<>> THEN <<>> ELSE EncodedAll(Front(fields))
  IN  \/ EncodedAll(fields) = bytes
      \/ /\ consumed = Len(extra)
         /\ IsPrefix(front, bytes)
         /\ CutOff(Slice(bytes, Len(front), Len(bytes)))

\* A turn of the loop decodes a field exactly where one that the format allows
\* begins: what the pages call undecodable is, and nothing the format refuses
\* (a nonce over its cap, a byte after a merge-mining root, padding that does
\* not reach the blob's end) gets through.
DecodesTheFormat ==
  [][ Field => (error' = NoError <=> StartsWithField(Slice(extra, consumed, Len(extra))))
    ]_parse_vars

=============================================================================
