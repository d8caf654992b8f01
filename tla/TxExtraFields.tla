--------------------------- MODULE TxExtraFields ----------------------------
(***************************************************************************)
(* What the pages ask of a decoded extra field (tx_extra.rs): the keys, the*)
(* payment id, the merge-mining tag.  A tag may repeat; which occurrence is*)
(* taken is part of each answer.                                           *)
(***************************************************************************)
EXTENDS TxExtra, Sift

CONSTANT PaymentId8Len  \* PAYMENT_ID8_LEN, 8

ASSUME PaymentIdAssumption == PaymentId8Len \in Nat \ {0} /\ PaymentId8Len # HashLen

NONCE_PAYMENT_ID == 0
NONCE_ENCRYPTED_PAYMENT_ID == 1

Tagged(tag) == Within(fields, {f \in Range(fields) : f.tag = tag})

\* The first that has the tag, as a set of at most one.
FirstTagged(tag) == IF Tagged(tag) = <<>> THEN {} ELSE {Tagged(tag)[1]}

is_complete == error = NoError

undecoded_tail == Slice(extra, consumed, Len(extra))

pub_keys == [i \in DOMAIN Tagged(TAG_PUBKEY) |-> Tagged(TAG_PUBKEY)[i].data]

tx_pub_key == {f.data : f \in FirstTagged(TAG_PUBKEY)}

\* The second key where there are two: what every explorer of this API shows.
tx_pub_key_explorer_compat ==
  IF Len(pub_keys) > 1 THEN {pub_keys[2]} ELSE tx_pub_key

additional_pub_keys_of == UNION {Range(f.keys) : f \in FirstTagged(TAG_ADDITIONAL_PUBKEYS)}

merge_mining_tag == {<<f.depth, f.root>> : f \in FirstTagged(TAG_MERGE_MINING)}

\* Fault: the last nonce is the one that counts.
nonce_asked_last == IF Tagged(TAG_NONCE) = <<>> THEN {} ELSE {Last(Tagged(TAG_NONCE)).data}

\* Only the first nonce is looked at.
nonce_asked == {f.data : f \in FirstTagged(TAG_NONCE)}

\* A nonce of exactly the length of a payment id, and the byte that says which.
payment_id_from_nonce(data) ==
  CASE Len(data) = PaymentId8Len + 1 /\ data[1] = NONCE_ENCRYPTED_PAYMENT_ID ->
         {[form |-> "Encrypted", id |-> Tail(data)]}
    [] Len(data) = HashLen + 1 /\ data[1] = NONCE_PAYMENT_ID ->
         {[form |-> "Long", id |-> Tail(data)]}
    [] OTHER -> {}

\* None at all for a blob that did not decode to its end.
payment_id == IF is_complete THEN UNION {payment_id_from_nonce(n) : n \in nonce_asked} ELSE {}

\* A field decoded later never changes what the earlier ones answer: the key, the
\* additional keys, the merge-mining tag and the payment id stand once they are
\* known, but that the pages' key becomes the second of two, and that a failure
\* takes the payment id away (ParsedTxExtra).
FirstFieldsStand ==
  [][ /\ tx_pub_key \subseteq tx_pub_key'
      /\ merge_mining_tag \subseteq merge_mining_tag'
      /\ additional_pub_keys_of # {} => additional_pub_keys_of' = additional_pub_keys_of
      /\ payment_id \subseteq payment_id' \/ error' # NoError
      /\ tx_pub_key_explorer_compat' # tx_pub_key_explorer_compat => Len(pub_keys') \in 1..2
      /\ payment_id' # {} => Len(undecoded_tail') < Len(extra)
    ]_parse_vars
=============================================================================
