-------------------------- MODULE BlockSourceProofs -------------------------
(***************************************************************************)
(* The by-height block cache agrees with the chain, for every reorg window *)
(* at least as deep as the deepest reorganisation, any number of concurrent*)
(* requests and any delay between a reply and its handling.                *)
(*                                                                         *)
(* The soundness of the cache is not inductive alone: a reply in transit   *)
(* will be stored, so it has to be known now that what it says of a buried *)
(* block cannot change before it arrives.                                  *)
(***************************************************************************)
EXTENDS BlockSource, ChainProofs

USE ReorgAssumption, HeightAssumption, WindowAssumption, OrphanAssumption, IdAssumption

\* The block x stands on the chain with at least Window blocks above it.
Buried(x) == x.height + Window < height /\ chain[x.height] = x.block

\* Whatever will be, or has been, stored under a height is buried.
Settled ==
  /\ \A h \in DOMAIN blocks_by_height :
       blocks_by_height[h].hash.height = h /\ Buried(blocks_by_height[h].hash)
  /\ \A r \in Requests :
       req[r].at = "replied" /\ req[r].reply.kind = "found"
         /\ safe_to_cache_by_height(req[r].reply.got.depth)
       => Buried(req[r].reply.got.hash)

IInv == TypeOK /\ Settled

\* The block x is the one that id asks for.
Answers(x, id) ==
  IF id.by = "hash" THEN x = id.hash ELSE x.height = id.height

\* Each cache holds a block under its own name only, and what a request has
\* been given, or is about to be, answers it.
Named ==
  /\ \A x \in DOMAIN blocks_by_hash : blocks_by_hash[x].hash = x
  /\ \A h \in DOMAIN blocks_by_height : blocks_by_height[h].hash.height = h
  /\ \A r \in Requests :
       /\ req[r].at = "replied" /\ req[r].reply.kind = "found" =>
            Answers(req[r].reply.got.hash, req[r].id)
       /\ req[r].at = "done" /\ req[r].result = "Ok" =>
            Answers(req[r].served.hash, req[r].id)

-----------------------------------------------------------------------------
\* A buried block stays buried whatever the chain does.
LEMMA BuriedStays ==
  ASSUME MaxReorg <= Window, ChainTypeOK, ChainNext, NEW x \in Hash, Buried(x)
  PROVE  Buried(x)'
<1>1. x.height \in Nat /\ x.height + Window < height
  BY DEF Buried, Hash
<1>2. x.height \in 0..(height - 1 - MaxReorg)
  BY <1>1 DEF ChainTypeOK
<1>3. chain'[x.height] = chain[x.height] /\ height' >= height /\ height' \in Nat
  BY <1>2, ChainSteps DEF ChainTypeOK
<1> QED BY <1>1, <1>3 DEF Buried, ChainTypeOK

-----------------------------------------------------------------------------
\* A daemon that answers only for its main chain says nothing false of a
\* block it reports as deep enough to be cached by height.
LEMMA RepliesSettled ==
  ASSUME ~ServesOrphans, ChainTypeOK, NEW id \in Ids, NEW reply \in Replies(id),
         reply.kind = "found", safe_to_cache_by_height(reply.got.depth)
  PROVE  Buried(reply.got.hash)
<1>1. PICK x \in Hash : reply = Found(x) /\ OnChain(x)
  <2>1. reply \notin Faults(id)
    BY DEF Faults, Failed
  <2>2. CASE Holds(id) /\ id.by = "height"
    <3> DEFINE x == [height |-> id.height, block |-> chain[id.height]]
    <3>1. id.height \in Nat /\ id.height < height
      BY <2>2 DEF Holds
    <3>2. x \in Hash
      BY <3>1 DEF Hash, ChainTypeOK
    <3>3. reply = Found(x)
      BY <2>1, <2>2 DEF Replies
    <3>4. OnChain(x)
      BY <3>1 DEF OnChain
    <3> QED BY <3>2, <3>3, <3>4
  <2>3. CASE Holds(id) /\ id.by = "hash"
    BY <2>1, <2>3 DEF Replies, Holds
  <2>4. CASE ~Holds(id)
    <3>1. reply \in {Failed(id, TOO_BIG_HEIGHT), Failed(id, INTERNAL)}
      BY <2>1, <2>4 DEF Replies
    <3> QED BY <3>1 DEF Failed
  <2> QED BY <2>2, <2>3, <2>4
<1>2. reply.got.hash = x /\ reply.got.depth = Depth(x.height)
  BY <1>1 DEF Found
<1>3. x.height \in Nat /\ x.height < height /\ chain[x.height] = x.block
  BY <1>1 DEF Hash, OnChain
<1> QED BY <1>2, <1>3 DEF Buried, safe_to_cache_by_height, Depth, ChainTypeOK
-----------------------------------------------------------------------------
LEMMA InitIInv == Init => IInv
<1> SUFFICES ASSUME Init PROVE IInv
  OBVIOUS
<1>1. ChainTypeOK
  BY DEF Init, ChainInit, ChainTypeOK, Block
<1>2. CacheTypeOK
  BY DEF Init, CacheTypeOK
<1>3. req \in [Requests -> Request] /\ \A r \in Requests : req[r].at = "idle"
  BY DEF Init, Request, Idle
<1>4. Settled
  BY <1>3 DEF Init, Settled
<1> QED BY <1>1, <1>2, <1>3, <1>4 DEF IInv, TypeOK

\* The daemon's replies are well typed.
LEMMA RepliesType ==
  ASSUME ChainTypeOK, NEW id \in Ids
  PROVE  Replies(id) \subseteq Reply
<1>1. Holds(id) \in BOOLEAN
  BY Zenon DEF Holds
<1>2. \A c \in Codes : Failed(id, c) \in Reply
  BY <1>1 DEF Failed, Reply
<1>3. \A x \in Hash : Found(x) \in Reply
  <2>1. \A x \in Hash : Depth(x.height) \in Int
    BY DEF Depth, Hash, ChainTypeOK
  <2>2. \A x \in Hash : [hash |-> x, depth |-> Depth(x.height)] \in GetBlock
    BY <2>1 DEF GetBlock
  <2> QED BY <2>2 DEF Found, Reply
<1>4. Faults(id) \subseteq Reply
  BY <1>2 DEF Faults, Codes
<1>5. CASE id.by = "height" /\ id.height \in Nat
  <2>1. CASE Holds(id)
    <3>1. [height |-> id.height, block |-> chain[id.height]] \in Hash
      BY <1>5, <2>1 DEF Holds, Hash, ChainTypeOK
    <3> QED BY <1>3, <1>4, <1>5, <2>1, <3>1 DEF Replies
  <2>2. CASE ~Holds(id)
    BY <1>2, <1>4, <1>5, <2>2 DEF Replies, Codes
  <2> QED BY <2>1, <2>2
<1>6. CASE id.by = "hash" /\ id.hash \in Hash
  <2>1. CASE Holds(id)
    BY <1>3, <1>4, <1>6, <2>1 DEF Replies
  <2>2. CASE ~Holds(id)
    BY <1>2, <1>3, <1>4, <1>6, <2>2 DEF Replies, Codes
  <2> QED BY <2>1, <2>2
<1> QED BY <1>5, <1>6
-----------------------------------------------------------------------------
\* Every step keeps the types, whatever the daemon serves.
LEMMA NextType == TypeOK /\ [Next]_vars => TypeOK'
<1> SUFFICES ASSUME TypeOK, [Next]_vars PROVE TypeOK'
  OBVIOUS
<1> USE DEF TypeOK
<1>1. CASE ChainNext /\ UNCHANGED <<cacheVars, req>>
  BY <1>1, ChainSteps DEF cacheVars, CacheTypeOK
<1>2. ASSUME NEW r \in Requests, NEW id \in Ids, BlockHit(r, id) PROVE TypeOK'
  <2>1. PICK hit \in Kept(id) :
          req' = [req EXCEPT ![r] = [at |-> "done", id |-> id, result |-> "Ok", served |-> hit]]
    BY <1>2 DEF BlockHit
  <2>2. hit \in GetBlock
    BY <2>1 DEF Kept, CacheTypeOK
  <2>3. req' \in [Requests -> Request]
    BY <2>1, <2>2 DEF Request, Outcome
  <2> QED BY <1>2, <2>3 DEF BlockHit, chainVars, cacheVars, ChainTypeOK, CacheTypeOK
<1>3. ASSUME NEW r \in Requests, NEW id \in Ids, BlockMiss(r, id) PROVE TypeOK'
  <2>1. req' \in [Requests -> Request]
    BY <1>3 DEF BlockMiss, Request
  <2> QED BY <1>3, <2>1 DEF BlockMiss, chainVars, cacheVars, ChainTypeOK, CacheTypeOK
<1>4. ASSUME NEW r \in Requests, DaemonReplies(r) PROVE TypeOK'
  <2>1. req[r].id \in Ids
    BY <1>4 DEF DaemonReplies, Request, Outcome, Idle
  <2>2. PICK reply \in Reply :
          req' = [req EXCEPT ![r] = [at |-> "replied", id |-> req[r].id, reply |-> reply]]
    BY <1>4, <2>1, RepliesType DEF DaemonReplies
  <2>3. req' \in [Requests -> Request]
    BY <2>1, <2>2 DEF Request
  <2> QED BY <1>4, <2>3 DEF DaemonReplies, chainVars, cacheVars, ChainTypeOK, CacheTypeOK
<1>5. ASSUME NEW r \in Requests, BlockReceived(r) PROVE TypeOK'
  <2> DEFINE fresh == req[r].reply.got
  <2>1. req[r].id \in Ids /\ fresh \in GetBlock
    BY <1>5 DEF BlockReceived, Request, Outcome, Idle, Reply
  <2>2. fresh.hash \in Hash /\ fresh.hash.height \in Nat
    BY <2>1 DEF GetBlock, Hash
  <2>3. req' \in [Requests -> Request]
    BY <1>5, <2>1 DEF BlockReceived, Request, Outcome
  <2>4. CacheTypeOK'
    <3>1. PICK kept \in SUBSET DOMAIN blocks_by_hash :
            blocks_by_hash' = Inserted(blocks_by_hash, kept, fresh.hash, fresh)
      BY <1>5 DEF BlockReceived
    <3>2. DOMAIN blocks_by_hash' \subseteq Hash
          /\ blocks_by_hash' \in [DOMAIN blocks_by_hash' -> GetBlock]
      BY <2>1, <2>2, <3>1 DEF CacheTypeOK, Inserted
    <3>3. CASE UNCHANGED blocks_by_height
      BY <3>2, <3>3 DEF CacheTypeOK
    <3>4. ASSUME NEW k2 \in SUBSET DOMAIN blocks_by_height,
                 blocks_by_height' = Inserted(blocks_by_height, k2, fresh.hash.height, fresh)
          PROVE  CacheTypeOK'
      <4>1. DOMAIN blocks_by_height' \subseteq Nat
            /\ blocks_by_height' \in [DOMAIN blocks_by_height' -> GetBlock]
        BY <2>1, <2>2, <3>4 DEF CacheTypeOK, Inserted
      <4> QED BY <3>2, <4>1 DEF CacheTypeOK
    <3> QED BY <1>5, <3>3, <3>4 DEF BlockReceived
  <2> QED BY <1>5, <2>3, <2>4 DEF BlockReceived, chainVars, ChainTypeOK
<1>6. ASSUME NEW r \in Requests, BlockFailed(r) PROVE TypeOK'
  <2>1. req[r].id \in Ids /\ req[r].reply.held \in BOOLEAN
    BY <1>6 DEF BlockFailed, Request, Outcome, Idle, Reply
  <2>2. classify_block_error(req[r].reply.code) \in
          {"BlockNotFound", "NeedsUnrestricted", "Rpc", "Unavailable"}
    BY DEF classify_block_error
  <2>3. req' \in [Requests -> Request]
    BY <1>6, <2>1, <2>2 DEF BlockFailed, Request, Outcome
  <2> QED BY <1>6, <2>3 DEF BlockFailed, chainVars, cacheVars, ChainTypeOK, CacheTypeOK
<1>7. ASSUME NEW r \in Requests, Cancelled(r) PROVE TypeOK'
  BY <1>7 DEF Cancelled, Request, chainVars, cacheVars, ChainTypeOK, CacheTypeOK
<1>8. CASE UNCHANGED vars
  BY <1>8 DEF vars, ChainTypeOK, CacheTypeOK
<1> QED BY <1>1, <1>2, <1>3, <1>4, <1>5, <1>6, <1>7, <1>8 DEF Next

\* Every step keeps what is or will be cached by height settled, when no
\* reorganisation is deeper than the window and no orphan is served.
LEMMA NextSettled ==
  ASSUME MaxReorg <= Window, ~ServesOrphans, IInv, [Next]_vars
  PROVE  Settled'
<1> USE DEF IInv, TypeOK
<1>1. CASE ChainNext /\ UNCHANGED <<cacheVars, req>>
  <2>1. \A h \in DOMAIN blocks_by_height : blocks_by_height[h].hash \in Hash
    BY DEF CacheTypeOK, GetBlock
  <2>2. \A r \in Requests : req[r].at = "replied" /\ req[r].reply.kind = "found"
          => req[r].reply.got.hash \in Hash
    BY DEF Request, Outcome, Idle, Reply, GetBlock
  <2> QED BY <1>1, <2>1, <2>2, BuriedStays DEF Settled, cacheVars, safe_to_cache_by_height
<1>2. ASSUME NEW r \in Requests, NEW id \in Ids, BlockHit(r, id) \/ BlockMiss(r, id)
      PROVE  Settled'
  BY <1>2 DEF BlockHit, BlockMiss, Settled, Buried, chainVars, cacheVars
<1>3. ASSUME NEW r \in Requests, DaemonReplies(r) PROVE Settled'
  <2>1. req[r].id \in Ids
    BY <1>3 DEF DaemonReplies, Request, Outcome, Idle
  <2>2. PICK reply \in Replies(req[r].id) :
          req' = [req EXCEPT ![r] = [at |-> "replied", id |-> req[r].id, reply |-> reply]]
    BY <1>3 DEF DaemonReplies
  <2>3. reply.kind = "found" /\ safe_to_cache_by_height(reply.got.depth) => Buried(reply.got.hash)
    BY <2>1, RepliesSettled
  <2>4. UNCHANGED <<chainVars, cacheVars>>
    BY <1>3 DEF DaemonReplies
  <2> QED BY <2>2, <2>3, <2>4 DEF Settled, Buried, chainVars, cacheVars
<1>4. ASSUME NEW r \in Requests, BlockReceived(r) PROVE Settled'
  <2> DEFINE fresh == req[r].reply.got
  <2>1. fresh \in GetBlock /\ fresh.hash.height \in Nat
    BY <1>4 DEF BlockReceived, Request, Outcome, Idle, Reply, GetBlock, Hash
  <2>2. UNCHANGED chainVars /\ \A q \in Requests \ {r} : req'[q] = req[q]
    BY <1>4 DEF BlockReceived
  <2>3. req'[r].at = "done"
    BY <1>4 DEF BlockReceived
  <2>4. ASSUME NEW h \in DOMAIN blocks_by_height'
        PROVE  blocks_by_height'[h].hash.height = h /\ Buried(blocks_by_height'[h].hash)
    <3>1. CASE UNCHANGED blocks_by_height
      BY <2>4, <3>1 DEF Settled
    <3>2. ASSUME safe_to_cache_by_height(fresh.depth),
                 NEW k2 \in SUBSET DOMAIN blocks_by_height,
                 blocks_by_height' = Inserted(blocks_by_height, k2, fresh.hash.height, fresh)
          PROVE  blocks_by_height'[h].hash.height = h /\ Buried(blocks_by_height'[h].hash)
      <4>1. Buried(fresh.hash)
        BY <1>4, <3>2 DEF Settled, BlockReceived
      <4> QED BY <2>1, <2>4, <3>2, <4>1 DEF CacheTypeOK, Settled, Inserted
    <3> QED BY <1>4, <3>1, <3>2 DEF BlockReceived
  <2> QED BY <2>2, <2>3, <2>4 DEF Settled, Buried, chainVars
<1>5. ASSUME NEW r \in Requests, BlockFailed(r) \/ Cancelled(r) PROVE Settled'
  BY <1>5 DEF BlockFailed, Cancelled, Idle, Settled, Buried, chainVars, cacheVars
<1>6. CASE UNCHANGED vars
  BY <1>6 DEF vars, Settled, Buried
<1> QED BY <1>1, <1>2, <1>3, <1>4, <1>5, <1>6 DEF Next

-----------------------------------------------------------------------------
\* The daemon answers for the block it was asked for, on the chain or off it.
LEMMA RepliesAnswer ==
  ASSUME NEW id \in Ids, NEW reply \in Replies(id), reply.kind = "found"
  PROVE  Answers(reply.got.hash, id)
<1>1. \A c : reply # Failed(id, c)
  BY DEF Failed
<1>2. reply \notin Faults(id)
  BY <1>1 DEF Faults
<1>3. CASE id.by = "height"
  <2>1. reply = Found([height |-> id.height, block |-> chain[id.height]])
    BY <1>1, <1>2, <1>3 DEF Replies
  <2> QED BY <1>3, <2>1 DEF Found, Answers
<1>4. CASE id.by = "hash"
  <2>1. reply = Found(id.hash)
    BY <1>1, <1>2, <1>4 DEF Replies
  <2> QED BY <1>4, <2>1 DEF Found, Answers
<1> QED BY <1>3, <1>4, IdAssumption

\* Every step keeps blocks under their names, whatever the daemon serves.
LEMMA NextNamed == ASSUME TypeOK, Named, [Next]_vars PROVE Named'
<1> USE DEF TypeOK
<1>1. CASE ChainNext /\ UNCHANGED <<cacheVars, req>>
  BY <1>1 DEF Named, cacheVars, Answers
<1>2. ASSUME NEW r \in Requests, NEW id \in Ids, BlockHit(r, id) PROVE Named'
  <2>1. PICK hit \in Kept(id) :
          req' = [req EXCEPT ![r] = [at |-> "done", id |-> id, result |-> "Ok", served |-> hit]]
    BY <1>2 DEF BlockHit
  <2>2. Answers(hit.hash, id)
    BY <1>2, <2>1, IdAssumption DEF Kept, Named, Answers
  <2>3. \A q \in Requests : req'[q] =
          IF q = r THEN [at |-> "done", id |-> id, result |-> "Ok", served |-> hit]
          ELSE req[q]
    BY <1>2, <2>1 DEF Named
  <2>4. UNCHANGED cacheVars
    BY <1>2 DEF BlockHit
  <2> QED BY <2>2, <2>3, <2>4 DEF Named, cacheVars, Answers
<1>3. ASSUME NEW r \in Requests, NEW id \in Ids, BlockMiss(r, id) PROVE Named'
  BY <1>3 DEF BlockMiss, Named, cacheVars, Answers
<1>4. ASSUME NEW r \in Requests, DaemonReplies(r) PROVE Named'
  <2>1. req[r].id \in Ids
    BY <1>4 DEF DaemonReplies, Request, Outcome, Idle
  <2>2. PICK reply \in Replies(req[r].id) :
          req' = [req EXCEPT ![r] = [at |-> "replied", id |-> req[r].id, reply |-> reply]]
    BY <1>4 DEF DaemonReplies
  <2>3. reply.kind = "found" => Answers(reply.got.hash, req[r].id)
    BY <2>1, RepliesAnswer
  <2>4. \A q \in Requests : req'[q] =
          IF q = r THEN [at |-> "replied", id |-> req[r].id, reply |-> reply] ELSE req[q]
    BY <2>2
  <2>5. UNCHANGED cacheVars
    BY <1>4 DEF DaemonReplies
  <2> QED BY <2>3, <2>4, <2>5 DEF Named, cacheVars, Answers
<1>5. ASSUME NEW r \in Requests, BlockReceived(r) PROVE Named'
  <2> DEFINE fresh == req[r].reply.got
  <2>1. Answers(fresh.hash, req[r].id)
    BY <1>5 DEF BlockReceived, Named
  <2>2. \A q \in Requests : req'[q] =
          IF q = r THEN [at |-> "done", id |-> req[r].id, result |-> "Ok", served |-> fresh]
          ELSE req[q]
    BY <1>5 DEF BlockReceived
  <2> HIDE DEF fresh
  <2>3. \A x \in DOMAIN blocks_by_hash' : blocks_by_hash'[x].hash = x
    <3>1. PICK kept \in SUBSET DOMAIN blocks_by_hash :
            blocks_by_hash' = Inserted(blocks_by_hash, kept, fresh.hash, fresh)
      BY <1>5 DEF BlockReceived, fresh
    <3> QED BY <3>1 DEF Named, Inserted
  <2>4. \A h \in DOMAIN blocks_by_height' : blocks_by_height'[h].hash.height = h
    <3>1. CASE UNCHANGED blocks_by_height
      BY <3>1 DEF Named
    <3>2. ASSUME NEW kept \in SUBSET DOMAIN blocks_by_height,
                 blocks_by_height' = Inserted(blocks_by_height, kept, fresh.hash.height, fresh)
          PROVE  \A h \in DOMAIN blocks_by_height' : blocks_by_height'[h].hash.height = h
      BY <3>2 DEF Named, Inserted
    <3> QED BY <1>5, <3>1, <3>2 DEF BlockReceived, fresh
  <2> QED BY <2>1, <2>2, <2>3, <2>4 DEF Named, Answers
<1>6. ASSUME NEW r \in Requests, BlockFailed(r) PROVE Named'
  <2>1. classify_block_error(req[r].reply.code) # "Ok"
    BY DEF classify_block_error
  <2>2. \A q \in Requests \ {r} : req'[q] = req[q]
    BY <1>6 DEF BlockFailed
  <2>3. req'[r].at = "done" /\ req'[r].result # "Ok"
    BY <1>6, <2>1 DEF BlockFailed
  <2>4. UNCHANGED cacheVars
    BY <1>6 DEF BlockFailed
  <2> QED BY <2>2, <2>3, <2>4 DEF Named, cacheVars, Answers
<1>7. ASSUME NEW r \in Requests, Cancelled(r) PROVE Named'
  BY <1>7 DEF Cancelled, Idle, Named, cacheVars, Answers
<1>8. CASE UNCHANGED vars
  BY <1>8 DEF vars, Named, Answers
<1> QED BY <1>1, <1>2, <1>3, <1>4, <1>5, <1>6, <1>7, <1>8 DEF Next

-----------------------------------------------------------------------------
\* Types are preserved whatever the daemon answers and however deep it
\* reorganises.
THEOREM TypeCorrect == Spec => []TypeOK
<1>1. Init => TypeOK
  BY InitIInv DEF IInv
<1> QED BY <1>1, NextType, PTL DEF Spec

\* The block cached under a height is the chain's block at that height, as
\* long as no reorganisation replaces more than Window blocks and get_block
\* by hash answers only for main-chain blocks (RpcChainSource::block).
THEOREM HeightCacheCorrect ==
  ASSUME MaxReorg <= Window, ~ServesOrphans
  PROVE  Spec => []HeightCacheSound
<1>1. IInv => HeightCacheSound
  <2> SUFFICES ASSUME IInv, NEW h \in DOMAIN blocks_by_height
               PROVE  h < height /\
                      blocks_by_height[h].hash = [height |-> h, block |-> chain[h]]
    BY DEF HeightCacheSound
  <2>1. blocks_by_height[h].hash \in Hash /\ h \in Nat
    BY DEF IInv, TypeOK, CacheTypeOK, GetBlock
  <2>2. blocks_by_height[h].hash.height = h /\ Buried(blocks_by_height[h].hash)
    BY DEF IInv, Settled
  <2>3. h < height /\ chain[h] = blocks_by_height[h].hash.block
    BY <2>1, <2>2 DEF Buried, IInv, TypeOK, ChainTypeOK
  <2> QED BY <2>1, <2>2, <2>3 DEF Hash
<1>2. IInv /\ [Next]_vars => IInv'
  BY NextType, NextSettled DEF IInv
<1> QED BY <1>1, <1>2, InitIInv, PTL DEF Spec

\* A lookup that succeeds returns the block it was asked for, from either cache
\* or from the daemon, whatever the chain does (RpcChainSource::block).
THEOREM HitsAnswer == Spec => []HitsAnswerTheQuestion
<1>1. Init => TypeOK /\ Named
  BY InitIInv DEF IInv, Init, Named, Idle
<1>2. TypeOK /\ Named /\ [Next]_vars => (TypeOK /\ Named)'
  BY NextType, NextNamed
<1>3. Named => HitsAnswerTheQuestion
  BY DEF Named, Answers, HitsAnswerTheQuestion
<1> QED BY <1>1, <1>2, <1>3, PTL DEF Spec
=============================================================================
