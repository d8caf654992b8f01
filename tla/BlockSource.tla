----------------------------- MODULE BlockSource ----------------------------
(***************************************************************************)
(* RpcChainSource::block (rpc_source.rs) and its two caches, under         *)
(* concurrent requests against a daemon whose chain reorganises.           *)
(*                                                                         *)
(* A request looks in the cache its id names, and on a miss sends get_block*)
(* and waits.  The daemon reads its chain at one moment, the reply is      *)
(* handled at a later one, and in between the chain may move and other     *)
(* requests may fill either cache.  A request that times out is dropped    *)
(* with whatever it was waiting for.                                       *)
(*                                                                         *)
(* Eviction is what LruCache shows a full cache may do: an insert may lose *)
(* any other entry, and never the one it stores.                           *)
(***************************************************************************)
EXTENDS Chain, ChainError

CONSTANTS
  Requests,      \* concurrent requests
  Ids,           \* the block ids clients ask for: ByHeight(h) or ByHash(x)
  Window,        \* REORG_WINDOW, 60 in the code
  ServesOrphans  \* whether get_block by hash answers for an abandoned block

ASSUME WindowAssumption == Window \in Nat
ASSUME OrphanAssumption == ServesOrphans \in BOOLEAN

Hash == [height : Nat, block : Block]

ByHeight(h) == [by |-> "height", height |-> h]
ByHash(x)   == [by |-> "hash", hash |-> x]

ASSUME IdAssumption ==
  \A id \in Ids : \/ id.by = "height" /\ id.height \in Nat
                  \/ id.by = "hash" /\ id.hash \in Hash

VARIABLES
  blocks_by_hash,    \* hash -> GetBlock
  blocks_by_height,  \* height -> GetBlock
  req                \* request -> where it is and what it holds

cacheVars == <<blocks_by_hash, blocks_by_height>>
vars == <<height, chain, pool, blocks_by_hash, blocks_by_height, req>>

\* The reply to get_block, reduced to its header: the hash, and the depth the
\* daemon counted when it answered.
GetBlock == [hash : Hash, depth : Int]

\* Fault: the window is one block short.
safe_one_short(depth) == depth + 1 >= Window

safe_to_cache_by_height(depth) == depth >= Window

-----------------------------------------------------------------------------
\* The daemon's side of get_block.

OnChain(x) == x.height < height /\ chain[x.height] = x.block

Holds(id) ==
  \/ id.by = "height" /\ id.height < height
  \/ id.by = "hash" /\ OnChain(id.hash)

Found(x) == [kind |-> "found", got |-> [hash |-> x, depth |-> Depth(x.height)]]

\* An error reply; `held` records, for the properties only, whether the
\* daemon held the block when it answered.
Failed(id, code) == [kind |-> "failed", code |-> code, held |-> Holds(id)]

\* A busy, restricted or unreachable daemon fails whatever it holds.
Faults(id) ==
  {Failed(id, c) : c \in {CORE_BUSY, METHOD_NOT_FOUND, RESTRICTED, OTHER_CODE, NO_CODE}}

Replies(id) ==
  Faults(id) \cup
  CASE Holds(id) /\ id.by = "height" ->
         {Found([height |-> id.height, block |-> chain[id.height]])}
    [] Holds(id) /\ id.by = "hash" -> {Found(id.hash)}
    [] ~Holds(id) /\ id.by = "height" -> {Failed(id, TOO_BIG_HEIGHT)}
    [] ~Holds(id) /\ id.by = "hash" ->
         {Failed(id, INTERNAL)} \cup
         IF ServesOrphans /\ id.hash.height < height THEN {Found(id.hash)} ELSE {}

-----------------------------------------------------------------------------
Idle == [at |-> "idle"]

Init ==
  /\ ChainInit
  /\ blocks_by_hash = [x \in {} |-> 0]
  /\ blocks_by_height = [h \in {} |-> 0]
  /\ req = [r \in Requests |-> Idle]

\* Fault: a hash is looked up under the height its block is at.
KeptUnderHeight(id) ==
  LET h == IF id.by = "hash" THEN id.hash.height ELSE id.height
  IN  {blocks_by_height[k] : k \in {h} \cap DOMAIN blocks_by_height}

\* The reply kept for id, if there is one, in the cache its kind names.
Kept(id) ==
  IF id.by = "hash"
  THEN {blocks_by_hash[x] : x \in {id.hash} \cap DOMAIN blocks_by_hash}
  ELSE {blocks_by_height[h] : h \in {id.height} \cap DOMAIN blocks_by_height}

Free(r) == req[r].at \in {"idle", "done"}

BlockHit(r, id) ==
  /\ Free(r)
  /\ \E hit \in Kept(id) :
       req' = [req EXCEPT ![r] = [at |-> "done", id |-> id, result |-> "Ok", served |-> hit]]
  /\ UNCHANGED <<chainVars, cacheVars>>

BlockMiss(r, id) ==
  /\ Free(r)
  /\ Kept(id) = {}
  /\ req' = [req EXCEPT ![r] = [at |-> "sent", id |-> id]]
  /\ UNCHANGED <<chainVars, cacheVars>>

DaemonReplies(r) ==
  /\ req[r].at = "sent"
  /\ \E reply \in Replies(req[r].id) :
       req' = [req EXCEPT ![r] = [at |-> "replied", id |-> req[r].id, reply |-> reply]]
  /\ UNCHANGED <<chainVars, cacheVars>>

\* Cache::insert: k is stored, and of the rest only `kept` remain.
Inserted(c, kept, k, v) == [j \in kept \cup {k} |-> IF j = k THEN v ELSE c[j]]

BlockReceived(r) ==
  /\ req[r].at = "replied"
  /\ req[r].reply.kind = "found"
  /\ LET fresh == req[r].reply.got IN
     /\ \E kept \in SUBSET DOMAIN blocks_by_hash :
          blocks_by_hash' = Inserted(blocks_by_hash, kept, fresh.hash, fresh)
     /\ IF safe_to_cache_by_height(fresh.depth)
        THEN \E kept \in SUBSET DOMAIN blocks_by_height :
               blocks_by_height' =
                 Inserted(blocks_by_height, kept, fresh.hash.height, fresh)
        ELSE UNCHANGED blocks_by_height
     /\ req' = [req EXCEPT ![r] = [at |-> "done", id |-> req[r].id, result |-> "Ok",
                                   served |-> fresh]]
  /\ UNCHANGED chainVars

BlockFailed(r) ==
  /\ req[r].at = "replied"
  /\ req[r].reply.kind = "failed"
  /\ req' = [req EXCEPT ![r] =
               [at |-> "done", id |-> req[r].id,
                result |-> classify_block_error(req[r].reply.code),
                held |-> req[r].reply.held]]
  /\ UNCHANGED <<chainVars, cacheVars>>

\* The request's deadline passes and its future is dropped mid-call.
Cancelled(r) ==
  /\ ~Free(r)
  /\ req' = [req EXCEPT ![r] = Idle]
  /\ UNCHANGED <<chainVars, cacheVars>>

Next ==
  \/ ChainNext /\ UNCHANGED <<cacheVars, req>>
  \/ \E r \in Requests, id \in Ids : BlockHit(r, id) \/ BlockMiss(r, id)
  \/ \E r \in Requests :
       DaemonReplies(r) \/ BlockReceived(r) \/ BlockFailed(r) \/ Cancelled(r)

Spec == Init /\ [][Next]_vars

-----------------------------------------------------------------------------
CacheTypeOK ==
  /\ DOMAIN blocks_by_hash \subseteq Hash
  /\ blocks_by_hash \in [DOMAIN blocks_by_hash -> GetBlock]
  /\ DOMAIN blocks_by_height \subseteq Nat
  /\ blocks_by_height \in [DOMAIN blocks_by_height -> GetBlock]

Reply == [kind : {"found"}, got : GetBlock] \cup
         [kind : {"failed"}, code : Codes, held : BOOLEAN]

Outcome ==
  [at : {"done"}, id : Ids, result : {"Ok"}, served : GetBlock] \cup
  [at : {"done"}, id : Ids, held : BOOLEAN,
   result : {"BlockNotFound", "NeedsUnrestricted", "Rpc", "Unavailable"}]

Request ==
  {Idle} \cup [at : {"sent"}, id : Ids] \cup
  [at : {"replied"}, id : Ids, reply : Reply] \cup Outcome

\* The chain, the caches and every request are well formed.
TypeOK == ChainTypeOK /\ CacheTypeOK /\ req \in [Requests -> Request]

\* A block cached under a height is the block the chain has at that height:
\* the promise of `blocks_by_height` ("caching a recent height would serve a
\* block that no longer exists").
HeightCacheSound ==
  \A h \in DOMAIN blocks_by_height :
    h < height /\ blocks_by_height[h].hash = [height |-> h, block |-> chain[h]]

\* A cached block is stored under its own name in both caches, so a lookup
\* never returns another block than the one asked for.
HitsAnswerTheQuestion ==
  \A r \in Requests :
    req[r].at = "done" /\ req[r].result = "Ok" =>
      IF req[r].id.by = "hash"
      THEN req[r].served.hash = req[r].id.hash
      ELSE req[r].served.hash.height = req[r].id.height

=============================================================================
