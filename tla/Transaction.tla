----------------------------- MODULE Transaction ----------------------------
(***************************************************************************)
(* What the explorer derives of a transaction from the documents monerod   *)
(* sends about it: the entry of /get_transactions and the JSON inside it   *)
(* (types.rs), and the facts both front ends show (tx.rs).                 *)
(*                                                                         *)
(* A document is a record that has a key only where the JSON has it.  A    *)
(* blob is the sequence of its parts.                                      *)
(***************************************************************************)
EXTENDS Integers, Functions, Sift

CONSTANTS
  MaxAmount,   \* u64::MAX, where sums saturate
  SigHexLen,   \* RING_SIGNATURE_HEX_LEN, 128
  FullHexLen,  \* ECDH_FULL_HEX_LEN, 64
  CompactHexLen \* ECDH_COMPACT_HEX_LEN, 16

ASSUME TransactionAssumption ==
  /\ MaxAmount \in Nat
  /\ {SigHexLen, FullHexLen, CompactHexLen} \subseteq Nat \ {0}
  /\ FullHexLen # CompactHexLen

Has(doc, key) == key \in DOMAIN doc

-----------------------------------------------------------------------------
\* The RingCT scheme.
Schemes == <<"Full", "Simple", "Bulletproof", "Bulletproof2", "Clsag", "BulletproofPlus">>

from_raw(raw) ==
  IF raw = 0 THEN [scheme |-> "Null"]
  ELSE IF raw \in 1..6 THEN [scheme |-> Schemes[raw]] ELSE [scheme |-> "Unknown", raw |-> raw]

to_raw(type) ==
  CASE type.scheme = "Null" -> 0
    [] type.scheme = "Unknown" -> type.raw
    [] OTHER -> CHOOSE raw \in 1..6 : Schemes[raw] = type.scheme

pseudo_outs_location(type) ==
  CASE type.scheme = "Simple" -> "Base"
    [] type.scheme \in {"Bulletproof", "Bulletproof2", "Clsag", "BulletproofPlus"} -> "Prunable"
    [] OTHER -> "Absent"

ecdh_form(type) ==
  CASE type.scheme \in {"Full", "Simple", "Bulletproof"} -> "Full"
    [] type.scheme \in {"Bulletproof2", "Clsag", "BulletproofPlus"} -> "Compact"
    [] OTHER -> "None"

\* Told by the widths, whatever the scheme: what monerod does not emit is no form.
form(info) ==
  CASE Has(info, "mask") /\ info.amount = FullHexLen /\ info.mask = FullHexLen -> "Full"
    [] ~Has(info, "mask") /\ info.amount = CompactHexLen -> "Compact"
    [] OTHER -> "None"

-----------------------------------------------------------------------------
\* The JSON of a transaction: version, vin, vout, and the halves it may have.

is_gen(in) == in.tag = "gen"
as_key(in) == in.tag = "key"

is_coinbase(tx) == Len(tx.vin) = 1 /\ is_gen(tx.vin[1])

is_v1(tx) == tx.version <= 1

\* "None" for a transaction that has no RingCT half, unlike scheme Null.
rct_type(tx) ==
  IF Has(tx, "rct_signatures") THEN from_raw(tx.rct_signatures.type) ELSE [scheme |-> "None"]

Held(doc, half, key, otherwise) ==
  IF Has(doc, half) /\ Has(doc[half], key) THEN doc[half][key] ELSE otherwise

\* In the half where the scheme puts them; in either for one not known.
pseudo_outs(tx) ==
  LET base     == Held(tx, "rct_signatures", "pseudoOuts", <<>>)
      prunable == Held(tx, "rctsig_prunable", "pseudoOuts", <<>>)
      either   == Held(tx, "rctsig_prunable", "pseudoOuts", base)
  IN  CASE rct_type(tx).scheme = "Unknown" -> either
        [] pseudo_outs_location(rct_type(tx)) = "Base" -> base
        [] pseudo_outs_location(rct_type(tx)) = "Prunable" -> prunable
        [] OTHER -> <<>>

\* Whether the document lacks a half that the transaction has.
looks_pruned(tx) ==
  /\ ~is_coinbase(tx)
  /\ \/ is_v1(tx) /\ ~Has(tx, "signatures")
     \/ /\ ~is_v1(tx)
        /\ rct_type(tx).scheme \notin {"None", "Null"}
        /\ ~Has(tx, "rctsig_prunable")

\* One input's signatures are one text, `width` characters long: a ring member's
\* every SigHexLen.  The result is how many there are, 0 for none that are whole.
split_ring_signatures(width) ==
  IF width > 0 /\ width % SigHexLen = 0 THEN width \div SigHexLen ELSE 0

\* As many signatures as the input's ring has members, or none.
ring_signatures_for_input(tx, i) ==
  IF /\ Has(tx, "signatures") /\ i \in DOMAIN tx.signatures
     /\ i \in DOMAIN tx.vin /\ as_key(tx.vin[i])
     /\ split_ring_signatures(tx.signatures[i]) = Len(tx.vin[i].key_offsets)
  THEN split_ring_signatures(tx.signatures[i]) ELSE 0

\* A key stands alone or in an object with its view tag.
public_key(target) ==
  CASE target.tag = "key" -> target.key
    [] target.tag = "tagged_key" -> target.body.key
    [] OTHER -> "None"

view_tag(target) == IF target.tag = "tagged_key" THEN target.body.view_tag ELSE "None"

-----------------------------------------------------------------------------
\* The entry around the document.

\* What raw bytes the daemon gave, in one piece or put together from two.
raw_hex(entry) ==
  CASE entry.as_hex # <<>> -> entry.as_hex
    [] entry.as_hex = <<>> /\ entry.pruned_as_hex = <<>> -> <<>>
    [] OTHER -> entry.pruned_as_hex \o entry.prunable_as_hex

\* Fault: an empty blob is taken for a pruned one.
prunable_missing_by_hex(entry, tx) == entry.as_hex = <<>>

\* This node no longer has the prunable half; a coinbase and a version 1
\* transaction have none to lose.
prunable_missing(entry, tx) ==
  /\ entry.as_hex = <<>> /\ entry.prunable_as_hex = <<>>
  /\ ~is_coinbase(tx)
  /\ tx.version > 1

-----------------------------------------------------------------------------
\* TxFacts.
Saturating(n) == IF n > MaxAmount THEN MaxAmount ELSE n

\* The sum of the amounts, stopping at MaxAmount.
SumOf(amounts) ==
  LET upto[i \in 0..Len(amounts)] ==
        IF i = 0 THEN 0 ELSE Saturating(upto[i - 1] + amounts[i])
  IN  upto[Len(amounts)]

Less(m, n) == IF m < n THEN 0 ELSE m - n

\* Fault: a transaction that states no fee has none.
fee_stated_only(tx, stated, paid) ==
  Held(tx, "rct_signatures", "txnFee", IF stated = {} THEN 0 ELSE CHOOSE f \in stated : TRUE)

\* Nothing for a coinbase; as stated by the pool, else by the transaction, else
\* what the inputs did not pay out.
fee(tx, stated, paid) ==
  CASE is_coinbase(tx) -> 0
    [] ~is_coinbase(tx) /\ stated # {} -> CHOOSE f \in stated : TRUE
    [] OTHER -> Held(tx, "rct_signatures", "txnFee", paid)

Keys(tx) == Within(tx.vin, {in \in Range(tx.vin) : as_key(in)})

derive(tx, size, stated) ==
  LET ins  == SumOf([i \in DOMAIN Keys(tx) |-> Keys(tx)[i].amount])
      outs == SumOf([i \in DOMAIN tx.vout |-> tx.vout[i].amount])
  IN  [coinbase    |-> is_coinbase(tx),
       version     |-> tx.version,
       rct_type    |-> IF Has(tx, "rct_signatures") THEN to_raw(rct_type(tx)) ELSE 0,
       ring_size   |-> IF Keys(tx) = <<>> THEN 0 ELSE Len(Keys(tx)[1].key_offsets),
       fee         |-> fee(tx, stated, Less(ins, outs)),
       size        |-> size,
       xmr_inputs  |-> ins,
       xmr_outputs |-> outs]

from_entry(entry, tx) == derive(tx, Len(raw_hex(entry)), {})

from_pool(info, tx) == derive(tx, info.blob_size, {info.fee})

-----------------------------------------------------------------------------
\* What a transaction is, and how monerod writes it down: the daemon's side of
\* the documents above.  A transaction is a record of its version, coinbase,
\* scheme, ins (amount and ring), outs, fee and pseudo-outputs; `lost` says that
\* this node has pruned it.

Total(amounts) == LET upto[i \in 0..Len(amounts)] == IF i = 0 THEN 0 ELSE upto[i - 1] + amounts[i]
                  IN  upto[Len(amounts)]

\* Version 1 has no scheme and pays out no more than it takes in; version 2 has
\* scheme 0 if it is a coinbase and only then; 7 is a scheme not known, which may
\* hold its pseudo-outputs early.  No sum of amounts is out of range.
IsTransaction(t) ==
  /\ {t.coinbase, t.early, t.lost} \subseteq BOOLEAN
  /\ t.version \in {1, 2} /\ t.scheme \in 0..7
  /\ t.ins \in Seq([amount : Nat, ring : Nat \ {0}]) /\ t.ins # <<>>
  /\ t.outs \in Seq(Nat) /\ t.fee \in Nat /\ t.pseudo # <<>>
  /\ t.version = 1 => t.scheme = 0
  /\ t.version = 2 => (t.coinbase <=> t.scheme = 0)
  /\ t.early => t.scheme = 7
  /\ LET ins == Total([i \in DOMAIN t.ins |-> t.ins[i].amount])
     IN  /\ ins <= MaxAmount /\ Total(t.outs) <= MaxAmount
         /\ t.version = 1 /\ ~t.coinbase => Total(t.outs) <= ins

Prunable(t) == t.version = 2 /\ ~t.coinbase

Parts(t) ==
  [prefix |-> <<"prefix">>, rest |-> IF t.coinbase THEN <<>> ELSE <<"rest", "rest">>]

\* The split form is sent on request, and whenever there is no prunable half.
EntryOf(t, split) ==
  LET prunable == IF Prunable(t) /\ t.lost THEN <<>> ELSE Parts(t).rest
  IN  IF split \/ prunable = <<>>
      THEN [as_hex |-> <<>>, pruned_as_hex |-> Parts(t).prefix, prunable_as_hex |-> prunable]
      ELSE [as_hex |-> Parts(t).prefix \o prunable, pruned_as_hex |-> <<>>,
            prunable_as_hex |-> <<>>]

With(doc, condition, key, what) ==
  IF condition THEN [k \in DOMAIN doc \cup {key} |-> IF k = key THEN what ELSE doc[k]] ELSE doc

Inputs(t) ==
  IF t.coinbase THEN <<[tag |-> "gen"]>>
  ELSE [i \in DOMAIN t.ins |->
          [tag |-> "key", amount |-> t.ins[i].amount,
           key_offsets |-> [m \in 1..t.ins[i].ring |-> m]]]

BaseOf(t) ==
  LET typed == [type |-> t.scheme]
      feed  == With(typed, ~t.coinbase, "txnFee", t.fee)
  IN  With(feed, t.scheme = 2 \/ (t.scheme = 7 /\ t.early), "pseudoOuts", t.pseudo)

\* A version 2 transaction has the RingCT base, and the prunable half unless it
\* is a coinbase or the node has lost it; version 1 has its signatures.
JsonOf(t, split) ==
  LET plain  == [version |-> t.version, vin |-> Inputs(t),
                 vout |-> [i \in DOMAIN t.outs |-> [amount |-> t.outs[i]]]]
      signed == With(plain, t.version = 1 /\ ~(t.coinbase /\ split), "signatures",
                     IF t.coinbase THEN <<>>
                     ELSE [i \in DOMAIN t.ins |-> SigHexLen * t.ins[i].ring])
      based  == With(signed, t.version = 2, "rct_signatures", BaseOf(t))
      late   == t.scheme \in 3..6 \/ (t.scheme = 7 /\ ~t.early)
  IN  With(based, Prunable(t) /\ ~t.lost, "rctsig_prunable",
           IF late THEN [pseudoOuts |-> t.pseudo] ELSE [nbp |-> 0])

\* Whether the document still carries the transaction's pseudo-outputs.
CarriesPseudo(t) ==
  /\ t.version = 2 /\ ~t.coinbase /\ t.scheme # 1
  /\ t.scheme = 2 \/ (t.scheme = 7 /\ t.early) \/ ~t.lost

\* What a transaction pays: a coinbase nothing, version 1 what its inputs have
\* over its outputs, version 2 the fee it states.
Paid(t) ==
  CASE t.coinbase -> 0
    [] t.version = 1 /\ ~t.coinbase ->
         Total([i \in DOMAIN t.ins |-> t.ins[i].amount]) - Total(t.outs)
    [] OTHER -> t.fee
=============================================================================
