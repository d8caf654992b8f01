----------------------------- MODULE MCDecoding -----------------------------
(***************************************************************************)
(* An instance of Decoding for TLC: every blob of up to MaxLen bytes of an *)
(* alphabet that has all tags, an unknown one and continuation bytes, and  *)
(* samples at the edges of each conversion.                                *)
(***************************************************************************)
EXTENDS Decoding

CONSTANTS
  MaxLen,     \* bound: bytes in a blob
  Alphabet,   \* bytes in a blob
  HexBytes,   \* bytes written as hex
  Chars,      \* characters of a text
  MaxText,    \* bound: characters in a text
  Atomics,    \* bound: amounts are below
  WideMax,    \* bound: 128-bit values are below
  RingMax     \* bound: members of a ring

UpTo(n, S) == UNION {[1..i -> S] : i \in 0..n}

MCBlobs == UpTo(MaxLen, Alphabet)

ByteSamples == [kind : {"bytes"}, bytes : UpTo(2, HexBytes)]
TextSamples == [kind : {"text"}, text : UpTo(MaxText, Chars)]
AmountSamples == [kind : {"amount"}, atomic : 0..(Atomics - 1)]

\* The first four years, the turns of centuries, and the last days of 9999.
Days == 0..1462 \cup 10950..11060 \cup 47480..47545 \cup 2932800..2932895
DaySamples == [kind : {"day"}, day : Days]

\* Around a minute, an hour, a day, a year and the last second shown.
Edges == UNION {{n - 1, n, n + 1} : n \in {1, 60, 3600, DAY, DAY + 60, YEAR, YEAR + 3600, MaxSecs}}
SecsSamples == [kind : {"secs"}, secs : Edges, now : Edges]

WideSamples == [kind : {"wide"}, wide : 0..(WideMax - 1), target : 0..3]

Ins == [amount : {4, 7}, ring : 1..RingMax]
Common == [coinbase : BOOLEAN, early : BOOLEAN, lost : BOOLEAN,
           ins : UNION {[1..n -> Ins] : n \in 1..2},
           outs : {<<>>, <<1>>, <<1, 3>>}, fee : {2}, pseudo : {<<5>>}]
Txs ==
  {t \in {c @@ [version |-> v, scheme |-> k] : c \in Common, v \in {1, 2}, k \in 0..7} :
     /\ t.version = 1 => t.scheme = 0
     /\ t.version = 2 => (t.coinbase <=> t.scheme = 0)
     /\ t.coinbase => t.ins = <<[amount |-> 4, ring |-> 1]>>
     /\ t.scheme # 7 => ~t.early}
TxSamples == [kind : {"tx"}, tx : Txs, split : BOOLEAN]

ReplySamples == [kind : {"reply"}, struct : Structs]

RowValues == {<<0, 1, 1>>, <<1, 1, 0>>, <<1, 0, 2>>}
RowsOf(v) == [i \in DOMAIN v |->
  [waiting_secs |-> v[i][1], fee_atomic |-> v[i][2], size |-> v[i][3], place |-> i]]
TableSamples == [kind : {"table"}, rows : {RowsOf(v) : v \in UpTo(4, RowValues)},
                 sort : {"none", "fee", "size", "waiting"}, dir : {"none", "asc", "desc"}]

\* 100 ln n, to the next whole number.
MCLog == <<0, 69, 110, 139, 161, 179, 195, 208, 220, 230, 240, 248, 256, 264, 271>>

StripSamples == [kind : {"strip"}, heights : UpTo(3, 0..13), spent_at : {0, 7, 12}]

MCSamples == ByteSamples \cup TextSamples \cup AmountSamples \cup DaySamples \cup SecsSamples
             \cup WideSamples \cup TxSamples \cup ReplySamples \cup TableSamples
             \cup StripSamples
=============================================================================
