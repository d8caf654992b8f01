-------------------------------- MODULE Wire --------------------------------
(***************************************************************************)
(* The replies of monerod as they arrive (types.rs).  Its serializer leaves*)
(* fields out: an empty array, and an optional field at its own default;   *)
(* newer daemons have dropped fields altogether.  A reply decodes if every *)
(* field the struct requires is there; the rest take the struct's default. *)
(*                                                                         *)
(* A struct is the set of the fields it requires and of those with a       *)
(* default.  Nested structs are structs of their own.                      *)
(***************************************************************************)
EXTENDS Integers

Struct(required, defaulted) == [required |-> required, defaulted |-> defaulted]

\* The tail that most replies share, and the shorter one.
Basic == {"status", "untrusted"}
Access == Basic \cup {"credits", "top_hash"}

GetInfo == Struct(
  {"height", "target_height", "difficulty", "difficulty_top64", "target", "tx_count",
   "tx_pool_size", "alt_blocks_count", "outgoing_connections_count",
   "incoming_connections_count", "white_peerlist_size", "grey_peerlist_size", "testnet",
   "stagenet", "nettype", "top_block_hash", "cumulative_difficulty",
   "cumulative_difficulty_top64", "block_size_limit", "block_size_median", "start_time",
   "version", "restricted"},
  Access \cup
  {"wide_difficulty", "rpc_connections_count", "mainnet", "wide_cumulative_difficulty",
   "block_weight_limit", "block_weight_median", "adjusted_time", "free_space", "offline",
   "bootstrap_daemon_address", "height_without_bootstrap", "was_bootstrap_ever_used",
   "database_size", "update_available", "busy_syncing", "synchronized"})

BlockHeader == Struct(
  {"major_version", "minor_version", "timestamp", "prev_hash", "nonce", "orphan_status",
   "height", "depth", "hash", "difficulty", "difficulty_top64", "wide_difficulty",
   "cumulative_difficulty", "cumulative_difficulty_top64", "wide_cumulative_difficulty",
   "reward", "block_size", "num_txes", "pow_hash", "miner_tx_hash"},
  {"block_weight", "long_term_weight"})

GetBlockHeader == Struct({"block_header"}, Access)

GetBlockHeadersRange == Struct({}, Access \cup {"headers"})

GetBlockCount == Struct({"count"}, Basic)

GetBlock == Struct({"block_header", "miner_tx_hash", "blob", "json"}, Access \cup {"tx_hashes"})

FeeEstimate == Struct({"fee"}, Access \cup {"quantization_mask", "fees"})

ChainInfo == Struct(
  {"block_hash", "height", "length", "difficulty", "difficulty_top64", "wide_difficulty",
   "main_chain_parent_block"},
  {"block_hashes"})

GetAlternateChains == Struct({}, Basic \cup {"chains"})

GetTxidsLooseResponse == Struct({}, Access \cup {"txids"})

GetHeight == Struct({"height", "hash"}, Basic)

GetTransactionsResponse == Struct({},
  Access \cup {"txs", "missed_tx", "txs_as_hex", "txs_as_json"})

\* Fault: the arrays of an entry are taken for granted.
TxEntryStrict == Struct(
  {"tx_hash", "in_pool", "output_indices"},
  {"as_hex", "pruned_as_hex", "prunable_as_hex", "prunable_hash", "as_json",
   "double_spend_seen", "block_height", "confirmations", "block_timestamp", "relayed",
   "received_timestamp"})

TxEntry == Struct(
  {"tx_hash", "in_pool"},
  {"as_hex", "pruned_as_hex", "prunable_as_hex", "prunable_hash", "as_json",
   "double_spend_seen", "block_height", "confirmations", "block_timestamp",
   "output_indices", "relayed", "received_timestamp"})

GetTransactionPool == Struct({}, Access \cup {"transactions", "spent_key_images"})

PoolTxInfo == Struct(
  {"id_hash", "blob_size", "fee", "max_used_block_id_hash", "max_used_block_height",
   "kept_by_block", "last_failed_height", "last_failed_id_hash", "receive_time", "relayed",
   "last_relayed_time", "do_not_relay", "double_spend_seen", "tx_blob"},
  {"tx_json", "weight"})

SpentKeyImageInfo == Struct({"id_hash"}, {"txs_hashes"})

GetTransactionPoolStats == Struct({}, Access \cup {"pool_stats"})

PoolStats == Struct({}, {"bytes_total", "txs_total"})

GetOutsResponse == Struct({}, Access \cup {"outs"})

OutKey == Struct({"key", "mask", "unlocked", "height"}, {"txid"})

IsKeyImageSpentResponse == Struct({}, Access \cup {"spent_status"})

Structs == {
  GetInfo, BlockHeader, GetBlockHeader, GetBlockHeadersRange, GetBlockCount, GetBlock,
  FeeEstimate, ChainInfo, GetAlternateChains, GetTxidsLooseResponse, GetHeight,
  GetTransactionsResponse, TxEntry, GetTransactionPool, PoolTxInfo, SpentKeyImageInfo,
  GetTransactionPoolStats, PoolStats, GetOutsResponse, OutKey, IsKeyImageSpentResponse}

Fields(struct) == struct.required \cup struct.defaulted

\* The one default that is not zero, empty or false.
default_quantization_mask == 1

\* What a field that is left out is decoded as.
Default(field) == IF field = "quantization_mask" THEN default_quantization_mask ELSE 0

-----------------------------------------------------------------------------
\* The daemon's side: which fields may be missing from a reply, and what it
\* means when they are.

\* Arrays, which vanish when they are empty.
Arrays == {
  "headers", "tx_hashes", "fees", "chains", "block_hashes", "txids", "txs", "missed_tx",
  "txs_as_hex", "txs_as_json", "output_indices", "transactions", "spent_key_images",
  "txs_hashes", "outs", "spent_status"}

\* Optional fields, which vanish at the default monerod declares for them.
Optional == {"block_weight_limit", "block_weight_median", "block_weight", "long_term_weight",
             "quantization_mask", "weight"}

\* What a newer daemon no longer has.
Retired == {"bootstrap_daemon_address", "height_without_bootstrap", "was_bootstrap_ever_used"}

\* Sent for a mined transaction only, and for one in the pool only.
MinedOnly == {"block_height", "confirmations", "block_timestamp", "output_indices"}
PoolOnly == {"relayed", "received_timestamp"}

\* What monerod means by leaving a field out.
Vanished(field) == IF field = "quantization_mask" THEN 1 ELSE 0

\* The sets of fields a reply may lack.
Lacking(struct) ==
  LET bare == Fields(struct) \cap (Arrays \cup Optional \cup Retired)
  IN  IF "in_pool" \in struct.required
      THEN {lack \cup some : lack \in SUBSET bare, some \in {MinedOnly, PoolOnly}}
      ELSE SUBSET bare

\* Whether a reply that lacks these fields decodes, to what the daemon meant.
Decodes(struct, lack) ==
  /\ struct.required \cap lack = {}
  /\ \A f \in lack : Default(f) = Vanished(f)
=============================================================================
