--------------------------- MODULE TxSourceProofs ---------------------------
(***************************************************************************)
(* The transaction cache agrees with the chain when reorganisations are    *)
(* shallower than the window, for any number of fetches and calls, and any *)
(* delay between a call's answer and its handling.  At exactly the window  *)
(* it does not: TLC shows it (MCTxSource_offbyone).                        *)
(*                                                                         *)
(* As for blocks, what will be stored has to be known while it is still in *)
(* a reply.  The last of the entries for a hash is the one that stays, so  *)
(* the replies are also known to be finitely many.                         *)
(*                                                                         *)
(* What an answer accounts for, and in which order, does not depend on the *)
(* chain: a second invariant follows a request from its cache hits and     *)
(* chunks to its answer.                                                   *)
(***************************************************************************)
EXTENDS TxSource, ChainProofs, SiftProofs

USE ReorgAssumption, HeightAssumption, WindowAssumption, ChunkAssumption, AskAssumption

\* The entry is of a block that no reorganisation reaches any more.
Buried(e) ==
  /\ ~e.in_pool
  /\ e.block_height \in Nat /\ e.block_height + MaxReorg < height
  /\ chain[e.block_height] = e.block
  /\ e.tx \in e.block.txs

\* A fetch under way has finitely many calls, in order.
Calling(hashes, hits, chunks, replies) ==
  [at |-> "calling", hashes |-> hashes, hits |-> hits, chunks |-> chunks, replies |-> replies]

Shape(q, hashes, hits, chunks, replies, n) ==
  q = Calling(hashes, hits, chunks, replies) /\ replies = [i \in 1..n |-> replies[i]]

Shaped(q) ==
  q.at = "calling" =>
    \E hashes, hits, chunks, replies : \E n \in Nat :
      Shape(q, hashes, hits, chunks, replies, n)

BuriedReply(reply) ==
  reply.kind = "found" => \A e \in reply.txs : Cacheable(e) => Buried(e)

Settled ==
  /\ \A t \in DOMAIN txs : Buried(txs[t])
  /\ \A r \in Requests : req[r].at = "calling" =>
       \A i \in DOMAIN req[r].replies : BuriedReply(req[r].replies[i])

IInv ==
  /\ ChainTypeOK
  /\ req = [r \in Requests |-> req[r]] /\ \A r \in Requests : Shaped(req[r])
  /\ Settled

-----------------------------------------------------------------------------
\* A set of numbers with a bound has a greatest member.
LEMMA Greatest ==
  ASSUME NEW n \in Nat, NEW H \in SUBSET (1..n), H # {}
  PROVE  \E x \in H : \A y \in H : y <= x
<1> DEFINE T == {n - x : x \in H}
<1>1. T \in SUBSET Nat /\ T # {}
  <2>1. \A x \in H : x \in 1..n
    OBVIOUS
  <2>2. \A x \in 1..n : n - x \in Nat
    OBVIOUS
  <2> QED BY <2>1, <2>2
<1>2. PICK d \in T : \A y \in T : d <= y
  <2> HIDE DEF T
  <2> QED BY <1>1, NatMin
<1>3. PICK x \in H : d = n - x
  OBVIOUS
<1>4. \A y \in H : n - x <= n - y
  BY <1>2, <1>3
<1> QED BY <1>3, <1>4

\* What is stored is one of the entries of the replies.
LEMMA StoredIsGiven ==
  ASSUME NEW sets, NEW n \in Nat, DOMAIN sets \subseteq 1..n, NEW t \in DOMAIN Stored(sets)
  PROVE  \E i \in DOMAIN sets : Stored(sets)[t] \in sets[i]
<1> DEFINE last == CHOOSE i \in Holding(sets, t) : \A j \in Holding(sets, t) : j <= i
<1>1. Holding(sets, t) \in SUBSET (1..n) /\ Holding(sets, t) # {}
  BY DEF Stored, Holding
<1>2. last \in Holding(sets, t)
  BY <1>1, Greatest
<1>3. \E e \in sets[last] : e.tx = t
  BY <1>2 DEF Holding
<1>4. (CHOOSE e \in sets[last] : e.tx = t) \in sets[last]
  BY <1>3
<1>5. Stored(sets)[t] = CHOOSE e \in sets[last] : e.tx = t
  BY DEF Stored
<1>6. last \in DOMAIN sets
  BY <1>2 DEF Holding
<1> QED BY <1>4, <1>5, <1>6

\* A daemon that answers now reports as cacheable only what is buried.
LEMMA AnsweredBuried ==
  ASSUME MaxReorg < Window, ChainTypeOK, NEW wanted
  PROVE  BuriedReply(Answered(wanted))
<1> SUFFICES ASSUME NEW e \in Answered(wanted).txs, Cacheable(e)
             PROVE  Buried(e)
  BY DEF BuriedReply
<1>1. PICK t \in wanted \cap (Mined \cup pool) : e = EntryFor(t)
  BY DEF Answered
<1>2. t \in Mined
  BY <1>1 DEF EntryFor, Cacheable
<1> DEFINE h == HeightOf(t)
<1>3. h \in 0..(height - 1) /\ t \in chain[h].txs
  <2>1. \E k \in 0..(height - 1) : t \in chain[k].txs
    BY <1>2 DEF Mined, TxsFrom
  <2> QED BY <2>1 DEF HeightOf
<1> HIDE DEF h
<1>4. e = [tx |-> t, in_pool |-> FALSE, block_height |-> h, block |-> chain[h],
           confirmations |-> height - h]
  BY <1>1, <1>2 DEF EntryFor, Confirmations, h
<1>5. height - h >= Window
  BY <1>4 DEF Cacheable
<1>6. h \in Nat /\ h + MaxReorg < height
  BY <1>3, <1>5 DEF ChainTypeOK
<1> QED BY <1>3, <1>4, <1>6 DEF Buried

\* An entry once buried stays so.
LEMMA BuriedStays ==
  ASSUME ChainTypeOK, ChainNext, NEW e, Buried(e)
  PROVE  Buried(e)'
<1>1. e.block_height \in Nat /\ e.block_height + MaxReorg < height
  BY DEF Buried
<1>2. e.block_height \in 0..(height - 1 - MaxReorg)
  BY <1>1 DEF ChainTypeOK
<1>3. chain'[e.block_height] = chain[e.block_height] /\ height' >= height /\ height' \in Nat
  BY <1>2, ChainSteps DEF ChainTypeOK
<1> QED BY <1>1, <1>3 DEF Buried, ChainTypeOK

-----------------------------------------------------------------------------
LEMMA InitInv == ASSUME Init PROVE IInv
<1>1. \A r \in Requests : req[r].at = "idle"
  BY DEF Init, Idle
<1> QED BY <1>1, InitChain DEF Init, IInv, Shaped, Settled

\* The answers still under way are as they were, or gone.
LEMMA RequestsEnd ==
  ASSUME IInv, NEW r \in Requests, NEW q, q.at # "calling",
         req' = [req EXCEPT ![r] = q]
  PROVE  /\ req' = [p \in Requests |-> req'[p]] /\ \A p \in Requests : Shaped(req'[p])
         /\ \A p \in Requests : req'[p].at = "calling" =>
              \A i \in DOMAIN req'[p].replies : BuriedReply(req'[p].replies[i])
<1>1. \A p \in Requests : req'[p] = IF p = r THEN q ELSE req[p]
  BY DEF IInv
<1>2. req' = [p \in Requests |-> req'[p]]
  BY DEF IInv
<1>3. \A p \in Requests : Shaped(req'[p])
  <2>1. Shaped(q)
    BY DEF Shaped
  <2>2. \A p \in Requests : Shaped(req[p])
    BY DEF IInv
  <2> QED BY <1>1, <2>1, <2>2
<1> QED BY <1>1, <1>2, <1>3 DEF IInv, Settled

LEMMA StepFetchStarted ==
  ASSUME IInv, NEW r \in Requests, NEW hashes \in Asks, FetchStarted(r, hashes)
  PROVE  IInv'
<1> DEFINE want == Within(hashes, Txs \ DOMAIN txs)
           chunks == Chunks(want)
           n == (Len(want) + MaxTxsPerCall - 1) \div MaxTxsPerCall
<1>1. n \in Nat
  <2>1. want \in Seq(Txs)
    <3>1. hashes \in Seq(Txs)
      OBVIOUS
    <3> QED BY <3>1, SiftKeeps
  <2>2. Len(want) \in Nat
    BY <2>1, LenProperties
  <2> HIDE DEF want
  <2> QED BY <2>2
<1>2. chunks = [i \in 1..n |-> chunks[i]]
  BY DEF Chunks
<1>3. PICK hits : req' = [req EXCEPT ![r] =
        [at |-> "calling", hashes |-> hashes, hits |-> hits, chunks |-> chunks,
         replies |-> [i \in DOMAIN chunks |-> NoReply]]]
  BY DEF FetchStarted
<1> HIDE DEF want, chunks, n
<1>4. DOMAIN chunks = 1..n
  BY <1>2
<1> DEFINE q == [at |-> "calling", hashes |-> hashes, hits |-> hits, chunks |-> chunks,
                 replies |-> [i \in 1..n |-> NoReply]]
<1>5. \A p \in Requests : req'[p] = IF p = r THEN q ELSE req[p]
  BY <1>3, <1>4 DEF IInv
<1>6. Shaped(q)
  <2> DEFINE replies == [i \in 1..n |-> NoReply]
  <2>1. replies = [i \in 1..n |-> replies[i]]
    OBVIOUS
  <2>2. q = Calling(hashes, hits, chunks, replies)
    BY DEF Calling
  <2> HIDE DEF q, replies
  <2>3. Shape(q, hashes, hits, chunks, replies, n)
    BY <2>1, <2>2 DEF Shape
  <2> QED BY <1>1, <2>3 DEF Shaped
<1>7. \A i \in DOMAIN q.replies : BuriedReply(q.replies[i])
  BY DEF BuriedReply, NoReply
<1>8. UNCHANGED <<height, chain, pool, txs>>
  BY DEF FetchStarted, chainVars
<1>9. \A reply : BuriedReply(reply) => BuriedReply(reply)'
  BY <1>8 DEF BuriedReply, Buried
<1> HIDE DEF q
<1>10. Settled'
  BY <1>5, <1>7, <1>8, <1>9 DEF IInv, Settled, Buried, BuriedReply
<1>11. req' = [p \in Requests |-> req'[p]] /\ \A p \in Requests : Shaped(req'[p])
  BY <1>3, <1>5, <1>6 DEF IInv
<1> QED BY <1>8, <1>10, <1>11 DEF IInv, ChainTypeOK, Shaped

LEMMA StepChunkReplies ==
  ASSUME MaxReorg < Window, IInv, NEW r \in Requests, NEW i, ChunkReplies(r, i)
  PROVE  IInv'
<1>1. /\ req[r].at = "calling" /\ i \in DOMAIN req[r].replies
      /\ UNCHANGED <<height, chain, pool, txs>>
  BY DEF ChunkReplies, chainVars
<1>2. PICK reply : req' = [req EXCEPT ![r].replies[i] = reply] /\ BuriedReply(reply)
  <2>1. PICK reply \in {Answered(req[r].chunks[i]), Failed} :
          req' = [req EXCEPT ![r].replies[i] = reply]
    BY DEF ChunkReplies
  <2>2. BuriedReply(Failed)
    BY DEF BuriedReply, Failed
  <2>3. BuriedReply(Answered(req[r].chunks[i]))
    BY AnsweredBuried DEF IInv
  <2> QED BY <2>1, <2>2, <2>3
<1>3. PICK hashes, hits, chunks, replies :
        \E n \in Nat : Shape(req[r], hashes, hits, chunks, replies, n)
  BY <1>1 DEF IInv, Shaped
<1>17. PICK n \in Nat : Shape(req[r], hashes, hits, chunks, replies, n)
  BY <1>3
<1> DEFINE next == [replies EXCEPT ![i] = reply]
           q == Calling(hashes, hits, chunks, next)
<1>4. req[r] = Calling(hashes, hits, chunks, replies) /\ replies = [k \in 1..n |-> replies[k]]
  BY <1>17 DEF Shape
<1>5. req[r].replies = replies
  BY <1>4 DEF Calling
<1>6. next = [k \in 1..n |-> next[k]] /\ \A k \in 1..n : next[k] = IF k = i THEN reply ELSE replies[k]
  BY <1>4
<1>7. [req[r] EXCEPT !.replies[i] = reply] = q
  <2>1. [req[r] EXCEPT !.replies[i] = reply]
          = [req[r] EXCEPT !.replies = [req[r].replies EXCEPT ![i] = reply]]
    OBVIOUS
  <2>2. [req[r].replies EXCEPT ![i] = reply] = next
    BY <1>5
  <2> HIDE DEF next
  <2>3. [Calling(hashes, hits, chunks, replies) EXCEPT !.replies = next]
          = Calling(hashes, hits, chunks, next)
    BY DEF Calling
  <2> QED BY <1>4, <2>1, <2>2, <2>3
<1>8. \A p \in Requests : req'[p] = IF p = r THEN q ELSE req[p]
  BY <1>2, <1>7 DEF IInv
<1>9. q.replies = next
  BY DEF Calling
<1> HIDE DEF q, next
<1>10. Shaped(q)
  <2>1. q = Calling(hashes, hits, chunks, next)
    BY DEF q
  <2>2. Shape(q, hashes, hits, chunks, next, n)
    BY <1>6, <2>1 DEF Shape
  <2> QED BY <2>2 DEF Shaped
<1>11. \A k \in DOMAIN q.replies : BuriedReply(q.replies[k])
  <2>1. \A k \in 1..n : BuriedReply(replies[k])
    <3>1. DOMAIN req[r].replies = 1..n
      BY <1>4, <1>5
    <3> QED BY <1>1, <1>5, <3>1 DEF IInv, Settled
  <2>2. DOMAIN next = 1..n
    BY <1>6
  <2> QED BY <1>2, <1>6, <1>9, <2>1, <2>2
<1>13. Settled'
  <2>1. ASSUME NEW p \in Requests, req'[p].at = "calling", NEW k \in DOMAIN req'[p].replies
        PROVE  BuriedReply(req'[p].replies[k])
    <3>1. CASE p = r
      BY <1>8, <1>11, <2>1, <3>1
    <3>2. CASE p # r
      BY <1>8, <2>1, <3>2 DEF IInv, Settled
    <3> QED BY <3>1, <3>2
  <2> QED BY <1>1, <2>1 DEF IInv, Settled, BuriedReply, Buried
<1>14. req' = [p \in Requests |-> req'[p]]
  BY <1>2 DEF IInv
<1>15. \A p \in Requests : Shaped(req'[p])
  <2>1. \A p \in Requests : Shaped(req[p])
    BY DEF IInv
  <2> QED BY <1>8, <1>10, <2>1
<1>16. (\A p \in Requests : Shaped(req[p]))'
  BY <1>15 DEF Shaped, Shape, Calling
<1> QED BY <1>1, <1>13, <1>14, <1>16 DEF IInv, ChainTypeOK

\* Everything cached at once is buried, whichever entries an eviction spares.
LEMMA CachedAreBuried ==
  ASSUME NEW sets, NEW n \in Nat, DOMAIN sets \subseteq 1..n,
         \A i \in DOMAIN sets : \A e \in sets[i] : Cacheable(e) => Buried(e),
         \A t \in DOMAIN txs : Buried(txs[t]), UNCHANGED <<height, chain>>,
         CacheEntries(sets)
  PROVE  \A t \in DOMAIN txs' : Buried(txs'[t])
<1> DEFINE given == [i \in DOMAIN sets |-> {e \in sets[i] : Cacheable(e)}]
           new == Stored(given)
           all == Over(new, txs)
<1>1. \A t \in DOMAIN new : Buried(new[t])
  <2> SUFFICES ASSUME NEW t \in DOMAIN new PROVE Buried(new[t])
    OBVIOUS
  <2>1. DOMAIN given \subseteq 1..n
    OBVIOUS
  <2>2. PICK i \in DOMAIN given : new[t] \in given[i]
    <3> HIDE DEF given
    <3> QED BY <2>1, StoredIsGiven
  <2>3. given[i] = {e \in sets[i] : Cacheable(e)}
    OBVIOUS
  <2> HIDE DEF new, given
  <2>4. new[t] \in sets[i] /\ Cacheable(new[t])
    BY <2>2, <2>3
  <2>5. i \in DOMAIN sets
    BY DEF given
  <2> QED BY <2>4, <2>5
<1>2. PICK kept \in SUBSET DOMAIN all : txs' = [t \in kept |-> all[t]]
  BY DEF CacheEntries
<1> HIDE DEF new, given
<1>3. \A t \in DOMAIN all : Buried(all[t])
  BY <1>1 DEF Over
<1> QED BY <1>2, <1>3

LEMMA StepFetchFinished ==
  ASSUME IInv, NEW r \in Requests, FetchFinished(r)
  PROVE  IInv'
<1>1. req[r].at = "calling" /\ CacheEntries(Handled(req[r].replies))
      /\ UNCHANGED <<height, chain, pool>>
  BY DEF FetchFinished, chainVars
<1>2. PICK q : q.at # "calling" /\ req' = [req EXCEPT ![r] = q]
  <2> DEFINE q == req[r]
             good == [at |-> "done", result |-> "Ok", hashes |-> q.hashes,
                      txs |-> in_requested_order(q.hashes, Over(Stored(Handled(q.replies)), q.hits)),
                      missed |-> UNION {q.replies[i].missed : i \in DOMAIN q.replies}]
             bad  == [at |-> "done", result |-> "Rpc", hashes |-> q.hashes]
  <2>1. req' = [req EXCEPT ![r] = IF DOMAIN Handled(q.replies) = DOMAIN q.replies THEN good ELSE bad]
    BY DEF FetchFinished
  <2>2. good.at # "calling" /\ bad.at # "calling"
    OBVIOUS
  <2> HIDE DEF good, bad
  <2> QED BY <2>1, <2>2
<1>3. PICK n \in Nat : DOMAIN req[r].replies = 1..n
  <2>1. PICK hashes, hits, chunks, replies :
          \E n \in Nat : Shape(req[r], hashes, hits, chunks, replies, n)
    BY <1>1 DEF IInv, Shaped
  <2>2. PICK n \in Nat : Shape(req[r], hashes, hits, chunks, replies, n)
    BY <2>1
  <2>3. req[r].replies = replies /\ DOMAIN replies = 1..n
    <3>1. replies = [i \in 1..n |-> replies[i]] /\ req[r] = Calling(hashes, hits, chunks, replies)
      BY <2>2 DEF Shape
    <3> QED BY <3>1 DEF Calling
  <2> QED BY <2>3
<1>4. \A t \in DOMAIN txs' : Buried(txs'[t])
  <2> DEFINE sets == Handled(req[r].replies)
  <2>1. DOMAIN sets \subseteq 1..n
    BY <1>3 DEF Handled
  <2>2. ASSUME NEW i \in DOMAIN sets
        PROVE  \A e \in sets[i] : Cacheable(e) => Buried(e)
    <3>1. /\ i \in DOMAIN req[r].replies /\ req[r].replies[i].kind = "found"
          /\ sets[i] = req[r].replies[i].txs
      <4>1. i \in DOMAIN req[r].replies /\ \A j \in 1..i : req[r].replies[j].kind = "found"
        BY DEF Handled
      <4>2. i \in 1..i
        BY <1>3, <4>1
      <4>3. sets[i] = req[r].replies[i].txs
        BY DEF Handled
      <4> QED BY <4>1, <4>2, <4>3
    <3>2. BuriedReply(req[r].replies[i])
      BY <1>1, <3>1 DEF IInv, Settled
    <3> QED BY <3>1, <3>2 DEF BuriedReply
  <2>3. \A t \in DOMAIN txs : Buried(txs[t])
    BY DEF IInv, Settled
  <2>4. CacheEntries(sets)
    BY <1>1
  <2> HIDE DEF sets
  <2> QED BY <1>1, <2>1, <2>2, <2>3, <2>4, CachedAreBuried
<1>5. /\ req' = [p \in Requests |-> req'[p]] /\ \A p \in Requests : Shaped(req'[p])
      /\ \A p \in Requests : req'[p].at = "calling" =>
           \A i \in DOMAIN req'[p].replies : BuriedReply(req'[p].replies[i])
  BY <1>2, RequestsEnd
<1>6. Settled'
  BY <1>1, <1>4, <1>5 DEF Settled, BuriedReply, Buried
<1> QED BY <1>1, <1>5, <1>6 DEF IInv, ChainTypeOK, Shaped, Shape, Calling

LEMMA StepCancelled ==
  ASSUME IInv, NEW r \in Requests, Cancelled(r)
  PROVE  IInv'
<1>1. UNCHANGED <<height, chain, pool, txs>> /\ req' = [req EXCEPT ![r] = Idle]
  BY DEF Cancelled, chainVars
<1>2. Idle.at # "calling"
  BY DEF Idle
<1>3. /\ req' = [p \in Requests |-> req'[p]] /\ \A p \in Requests : Shaped(req'[p])
      /\ \A p \in Requests : req'[p].at = "calling" =>
           \A i \in DOMAIN req'[p].replies : BuriedReply(req'[p].replies[i])
  BY <1>1, <1>2, RequestsEnd
<1>4. Settled'
  <2>1. (\A t \in DOMAIN txs : Buried(txs[t]))'
    BY <1>1 DEF IInv, Settled, Buried
  <2>2. (\A p \in Requests : req[p].at = "calling" =>
           \A i \in DOMAIN req[p].replies : BuriedReply(req[p].replies[i]))'
    BY <1>1, <1>3 DEF BuriedReply, Buried
  <2> QED BY <2>1, <2>2 DEF Settled
<1> QED BY <1>1, <1>3, <1>4 DEF IInv, ChainTypeOK, Shaped, Shape, Calling

LEMMA StepChain ==
  ASSUME IInv, ChainNext, UNCHANGED <<txs, req>>
  PROVE  IInv'
<1>1. ChainTypeOK'
  BY ChainSteps DEF IInv
<1> DEFINE Later(e) ==
      /\ ~e.in_pool
      /\ e.block_height \in Nat /\ e.block_height + MaxReorg < height'
      /\ chain'[e.block_height] = e.block
      /\ e.tx \in e.block.txs
<1>2. ASSUME NEW e, Buried(e) PROVE Later(e)
  <2>1. Buried(e)'
    BY <1>2, BuriedStays DEF IInv
  <2> QED BY <2>1 DEF Buried
<1> HIDE DEF Later
<1>3. Settled'
  <2>1. \A t \in DOMAIN txs : Later(txs[t])
    BY <1>2 DEF IInv, Settled
  <2>2. \A r \in Requests : req[r].at = "calling" =>
          \A i \in DOMAIN req[r].replies : req[r].replies[i].kind = "found" =>
            \A e \in req[r].replies[i].txs : Cacheable(e) => Later(e)
    BY <1>2 DEF IInv, Settled, BuriedReply
  <2>3. txs' = txs /\ req' = req
    OBVIOUS
  <2>4. (\A t \in DOMAIN txs : Buried(txs[t]))'
    BY <2>1, <2>3 DEF Buried, Later
  <2>5. (\A r \in Requests : req[r].at = "calling" =>
           \A i \in DOMAIN req[r].replies : BuriedReply(req[r].replies[i]))'
    BY <2>2, <2>3 DEF BuriedReply, Buried, Later
  <2> QED BY <2>4, <2>5 DEF Settled
<1> QED BY <1>1, <1>3 DEF IInv, Shaped, Shape, Calling

LEMMA StepInv == ASSUME MaxReorg < Window, IInv, [Next]_vars PROVE IInv'
<1>1. CASE ChainNext /\ UNCHANGED <<txs, req>>
  BY <1>1, StepChain
<1>2. CASE \E r \in Requests, hashes \in Asks : FetchStarted(r, hashes)
  BY <1>2, StepFetchStarted
<1>3. CASE \E r \in Requests : \E i \in DOMAIN req[r].replies : ChunkReplies(r, i)
  BY <1>3, StepChunkReplies
<1>4. CASE \E r \in Requests : FetchFinished(r)
  BY <1>4, StepFetchFinished
<1>5. CASE \E r \in Requests : Cancelled(r)
  BY <1>5, StepCancelled
<1>6. CASE UNCHANGED vars
  BY <1>6 DEF vars, IInv, ChainTypeOK, Settled, BuriedReply, Buried, Shaped, Shape, Calling
<1> QED BY <1>1, <1>2, <1>3, <1>4, <1>5, <1>6 DEF Next

-----------------------------------------------------------------------------
\* Every cached transaction is in the block, at the height, the cache says, as
\* long as every reorganisation is shallower than the window
\* (RpcChainSource::transactions).
THEOREM TxCacheCorrect ==
  ASSUME MaxReorg < Window
  PROVE  Spec => []TxCacheSound
<1>1. IInv => TxCacheSound
  BY DEF IInv, Settled, TxCacheSound, PlacedAs, Buried, ChainTypeOK
<1> QED BY <1>1, InitInv, StepInv, PTL DEF Spec

-----------------------------------------------------------------------------
\* What an answer accounts for.  Neither the chain nor the window matters: a
\* fetch splits what it was asked for into what the cache had and chunks, and
\* each reply accounts for its chunk.

Repeated(hashes, t) ==
  \E i, j \in DOMAIN hashes : i # j /\ hashes[i] = t /\ hashes[j] = t

\* Each hash asked for is a hit or in a chunk, and in one chunk only unless it
\* was asked for twice.
Split(hashes, hits, chunks) ==
  /\ hashes \in Seq(Txs)
  /\ \E n \in Nat : DOMAIN chunks = 1..n
  /\ \A t \in DOMAIN hits : hits[t].tx = t
  /\ \A i \in DOMAIN chunks : chunks[i] \cap DOMAIN hits = {}
  /\ \A j \in DOMAIN hashes :
       hashes[j] \in DOMAIN hits \/ \E i \in DOMAIN chunks : hashes[j] \in chunks[i]
  /\ \A i, k \in DOMAIN chunks : \A t \in chunks[i] \cap chunks[k] : i = k \/ Repeated(hashes, t)

Covers(reply, wanted) ==
  reply.kind = "found" =>
    reply.missed \subseteq wanted /\ {e.tx : e \in reply.txs} = wanted \ reply.missed

UnderWay(q) ==
  /\ q = Calling(q.hashes, q.hits, q.chunks, q.replies)
  /\ q.replies = [i \in DOMAIN q.chunks |-> q.replies[i]]
  /\ Split(q.hashes, q.hits, q.chunks)
  /\ \A i \in DOMAIN q.chunks : Covers(q.replies[i], q.chunks[i])

\* Each entry is kept under its own hash.
Keyed(found) == \A t \in DOMAIN found : found[t].tx = t

\* The places of t in an answer.
PlacesIn(out, t) == {k \in 1..Len(out) : out[k].tx = t}

Accounted(hashes, out, missed) ==
  \A i \in 1..Len(hashes) :
    /\ hashes[i] \in missed \/ PlacesIn(out, hashes[i]) # {}
    /\ \A j, k \in PlacesIn(out, hashes[i]) : j = k
    /\ hashes[i] \in missed /\ PlacesIn(out, hashes[i]) # {} => AskedAgain(hashes, i)

FirstOf(hashes, t) ==
  CHOOSE i \in 1..Len(hashes) : hashes[i] = t /\ \A h \in 1..(i - 1) : hashes[h] # t

Ordered(hashes, out) ==
  \A j, k \in 1..Len(out) : j < k => FirstOf(hashes, out[j].tx) < FirstOf(hashes, out[k].tx)

Correct(q) ==
  q.result = "Ok" => Accounted(q.hashes, q.txs, q.missed) /\ Ordered(q.hashes, q.txs)

Answering ==
  /\ Keyed(txs)
  /\ req = [r \in Requests |-> req[r]]
  /\ \A r \in Requests :
       /\ req[r].at = "calling" => UnderWay(req[r])
       /\ req[r].at = "done" => Correct(req[r])

-----------------------------------------------------------------------------
LEMMA Division ==
  ASSUME NEW a \in Nat, NEW m \in Nat \ {0}
  PROVE  a \div m \in Nat /\ m * (a \div m) <= a /\ a < m * (a \div m) + m
OBVIOUS

\* Every place of a list falls into one chunk.
LEMMA OneChunk ==
  ASSUME NEW len \in Nat, NEW j \in 1..len
  PROVE  /\ \E i \in 1..((len + MaxTxsPerCall - 1) \div MaxTxsPerCall) :
              (i - 1) * MaxTxsPerCall < j /\ j <= i * MaxTxsPerCall
         /\ \A i, k \in Nat \ {0} :
              /\ (i - 1) * MaxTxsPerCall < j /\ j <= i * MaxTxsPerCall
              /\ (k - 1) * MaxTxsPerCall < j /\ j <= k * MaxTxsPerCall
              => i = k
<1> DEFINE m == MaxTxsPerCall
           n == (len + m - 1) \div m
           i == (j + m - 1) \div m
<1>1. m \in Nat \ {0} /\ len + m - 1 \in Nat /\ j + m - 1 \in Nat /\ j \in Nat /\ 1 <= j /\ j <= len
  OBVIOUS
<1>2. i \in Nat /\ m * i <= j + m - 1 /\ j + m - 1 < m * i + m
  <2> DEFINE a == j + m - 1
  <2>1. a \in Nat
    BY <1>1
  <2> HIDE DEF a
  <2>2. a \div m \in Nat /\ m * (a \div m) <= a /\ a < m * (a \div m) + m
    BY <1>1, <2>1, Division
  <2> QED BY <2>2 DEF a
<1>3. n \in Nat /\ len + m - 1 < m * n + m
  <2> DEFINE a == len + m - 1
  <2>1. a \in Nat
    BY <1>1
  <2> HIDE DEF a
  <2>2. a \div m \in Nat /\ m * (a \div m) <= a /\ a < m * (a \div m) + m
    BY <1>1, <2>1, Division
  <2> QED BY <2>2 DEF a
<1> HIDE DEF m, n, i
<1>4. i # 0
  BY <1>1, <1>2
<1>5. m * i <= len + m - 1
  BY <1>1, <1>2
<1>6. m * i < m * (n + 1)
  BY <1>1, <1>2, <1>3, <1>5
<1>7. i <= n
  BY <1>1, <1>2, <1>3, <1>6
<1>8. (i - 1) * m < j /\ j <= i * m
  BY <1>1, <1>2
<1>9. \A h, k \in Nat \ {0} : h < k /\ j <= h * m => j <= (k - 1) * m
  <2> SUFFICES ASSUME NEW h \in Nat \ {0}, NEW k \in Nat \ {0}, h < k, j <= h * m
               PROVE  j <= (k - 1) * m
    OBVIOUS
  <2>1. h * m <= (k - 1) * m
    BY <1>1
  <2>2. h * m \in Nat /\ (k - 1) * m \in Nat
    BY <1>1
  <2> QED BY <1>1, <2>1, <2>2
<1>10. \A h, k \in Nat \ {0} :
         /\ (h - 1) * m < j /\ j <= h * m
         /\ (k - 1) * m < j /\ j <= k * m
         => h = k
  <2> SUFFICES ASSUME NEW h \in Nat \ {0}, NEW k \in Nat \ {0},
                      (h - 1) * m < j, j <= h * m, (k - 1) * m < j, j <= k * m
               PROVE  h = k
    OBVIOUS
  <2>1. (h - 1) * m \in Nat /\ (k - 1) * m \in Nat
    BY <1>1
  <2>2. ~(h < k) /\ ~(k < h)
    BY <1>1, <1>9, <2>1
  <2> QED BY <2>2
<1>11. \E h \in 1..n : (h - 1) * m < j /\ j <= h * m
  <2>1. i \in 1..n
    BY <1>2, <1>3, <1>4, <1>7
  <2> QED BY <1>8, <2>1
<1> QED BY <1>10, <1>11 DEF m, n

\* What a fetch starts with splits what it was asked for.
LEMMA StartSplits ==
  ASSUME NEW hashes \in Seq(Txs), NEW want, want = Within(hashes, Txs \ DOMAIN txs),
         NEW hits, Keyed(hits),
         \A t : t \in DOMAIN hits <=> t \in DOMAIN txs /\ \E i \in DOMAIN hashes : hashes[i] = t
  PROVE  Split(hashes, hits, Chunks(want))
<1> DEFINE M == MaxTxsPerCall
           n == (Len(want) + M - 1) \div M
           In(i, j) == (i - 1) * M < j /\ j <= i * M
           chunks == Chunks(want)
<1>1. want \in Seq(Txs)
  BY SiftPicks
<1>2. PICK p : Picks(want, p, hashes, Txs \ DOMAIN txs, Len(hashes))
  BY SiftPicks
<1>3. Len(want) \in Nat /\ DOMAIN hashes = 1..Len(hashes) /\ \A j \in DOMAIN hashes : hashes[j] \in Txs
  BY <1>1
<1>4. n \in Nat
  BY <1>3
<1>5. /\ DOMAIN chunks = 1..n
      /\ \A i \in 1..n : chunks[i] = {want[j] : j \in {j \in 1..Len(want) : In(i, j)}}
  BY DEF Chunks
<1>6. /\ \A j \in 1..Len(want) : \E i \in 1..n : In(i, j)
      /\ \A j \in 1..Len(want) : \A i, k \in 1..n : In(i, j) /\ In(k, j) => i = k
  <2>1. \A i \in 1..n : i \in Nat \ {0}
    BY <1>4
  <2> QED BY <1>3, <2>1, OneChunk
<1> HIDE DEF M, n, In, chunks
<1>14. ASSUME NEW i \in 1..n, NEW t
       PROVE  t \in chunks[i] <=> \E j \in 1..Len(want) : In(i, j) /\ want[j] = t
  <2> DEFINE J == {j \in 1..Len(want) : In(i, j)}
  <2>1. \A j : j \in J <=> j \in 1..Len(want) /\ In(i, j)
    OBVIOUS
  <2>2. chunks[i] = {want[j] : j \in J}
    BY <1>5
  <2> HIDE DEF J
  <2> QED BY <2>1, <2>2
<1>7. \A k \in 1..Len(want) : p[k] \in 1..Len(hashes)
  BY <1>2 DEF Picks
<1>15. \A k \in 1..Len(want) : want[k] = hashes[p[k]] /\ want[k] \notin DOMAIN txs
  BY <1>2 DEF Picks
<1>16. \A i \in 1..Len(hashes) : hashes[i] \in Txs \ DOMAIN txs => \E k \in 1..Len(want) : p[k] = i
  BY <1>2 DEF Picks
<1>8. \A j, k \in 1..Len(want) : j # k => p[j] # p[k]
  <2>1. \A j, k \in 1..Len(want) : j < k => p[j] < p[k]
    BY <1>2 DEF Picks
  <2>2. \A k \in 1..Len(want) : p[k] \in Nat
    BY <1>7
  <2>3. \A j, k \in 1..Len(want) : j # k => j < k \/ k < j
    BY <1>3
  <2>4. ASSUME NEW j \in 1..Len(want), NEW k \in 1..Len(want), j < k PROVE p[j] # p[k]
    <3>1. p[j] < p[k] /\ p[j] \in Nat /\ p[k] \in Nat
      BY <2>1, <2>2, <2>4
    <3> QED BY <3>1
  <2> QED BY <2>3, <2>4
<1>10. ASSUME NEW i \in DOMAIN chunks, NEW t \in chunks[i] PROVE t \notin DOMAIN hits
  <2>1. PICK j \in 1..Len(want) : want[j] = t
    BY <1>5, <1>14
  <2> QED BY <1>15, <2>1
<1>11. ASSUME NEW j \in DOMAIN hashes
       PROVE  hashes[j] \in DOMAIN hits \/ \E i \in DOMAIN chunks : hashes[j] \in chunks[i]
  <2>1. CASE hashes[j] \in DOMAIN txs
    BY <2>1
  <2>2. CASE hashes[j] \notin DOMAIN txs
    <3>1. PICK k \in 1..Len(want) : p[k] = j
      BY <1>3, <1>16, <2>2
    <3>2. PICK i \in 1..n : In(i, k)
      BY <1>6
    <3>3. want[k] \in chunks[i] /\ want[k] = hashes[j]
      BY <1>14, <1>15, <3>1, <3>2
    <3> QED BY <1>5, <3>3
  <2> QED BY <2>1, <2>2
<1>12. ASSUME NEW i \in DOMAIN chunks, NEW k \in DOMAIN chunks, NEW t \in chunks[i] \cap chunks[k]
       PROVE  i = k \/ Repeated(hashes, t)
  <2>1. PICK a \in 1..Len(want) : In(i, a) /\ want[a] = t
    BY <1>5, <1>12, <1>14
  <2>2. PICK b \in 1..Len(want) : In(k, b) /\ want[b] = t
    BY <1>5, <1>12, <1>14
  <2>3. CASE a = b
    BY <1>5, <1>6, <2>1, <2>2, <2>3
  <2>4. CASE a # b
    <3>1. p[a] # p[b] /\ p[a] \in DOMAIN hashes /\ p[b] \in DOMAIN hashes
      BY <1>3, <1>7, <1>8, <2>4
    <3>2. hashes[p[a]] = t /\ hashes[p[b]] = t
      BY <1>15, <2>1, <2>2
    <3> QED BY <3>1, <3>2 DEF Repeated
  <2> QED BY <2>3, <2>4
<1>13. \E m \in Nat : DOMAIN chunks = 1..m
  BY <1>4, <1>5
<1> QED BY <1>10, <1>11, <1>12, <1>13 DEF Split, Keyed, chunks

\* The place where t is first asked for is its first place.
LEMMA FirstIs ==
  ASSUME NEW hashes \in Seq(Txs), NEW i \in 1..Len(hashes),
         \A j \in 1..(i - 1) : hashes[j] # hashes[i]
  PROVE  FirstOf(hashes, hashes[i]) = i
<1>1. \A k \in 1..Len(hashes) :
        hashes[k] = hashes[i] /\ (\A h \in 1..(k - 1) : hashes[h] # hashes[i]) => k = i
  <2> SUFFICES ASSUME NEW k \in 1..Len(hashes), hashes[k] = hashes[i],
                      \A h \in 1..(k - 1) : hashes[h] # hashes[i]
               PROVE  k = i
    OBVIOUS
  <2>1. k \notin 1..(i - 1) /\ i \notin 1..(k - 1)
    OBVIOUS
  <2> QED BY <2>1
<1> QED BY <1>1 DEF FirstOf

\* A hash that was asked for has a first place.
LEMMA FirstExists ==
  ASSUME NEW hashes \in Seq(Txs), NEW i \in 1..Len(hashes)
  PROVE  \E k \in 1..Len(hashes) :
           hashes[k] = hashes[i] /\ \A j \in 1..(k - 1) : hashes[j] # hashes[i]
<1> DEFINE T == {k \in 1..Len(hashes) : hashes[k] = hashes[i]}
<1>1. T \in SUBSET Nat /\ T # {}
  OBVIOUS
<1>2. PICK k \in T : \A y \in T : k <= y
  <2> HIDE DEF T
  <2> QED BY <1>1, NatMin
<1>3. \A j \in 1..(k - 1) : j \in 1..Len(hashes) /\ ~(k <= j)
  OBVIOUS
<1> QED BY <1>2, <1>3

\* An answer lists each hash that was found once, where it was first asked for.
LEMMA AnswerInOrder ==
  ASSUME NEW hashes \in Seq(Txs), NEW found, Keyed(found),
         NEW out, out = in_requested_order(hashes, found)
  PROVE  /\ Ordered(hashes, out)
         /\ \A i \in 1..Len(hashes) : hashes[i] \in DOMAIN found =>
              \E k \in 1..Len(out) : PlacesIn(out, hashes[i]) = {k}
         /\ \A t : t \notin DOMAIN found => PlacesIn(out, t) = {}
<1> DEFINE ids == [i \in 1..Len(hashes) |-> i]
           F == Firsts(hashes, DOMAIN found)
           w == Within(ids, F)
<1>1. ids \in Seq(Nat) /\ Len(ids) = Len(hashes)
  OBVIOUS
<1>2. w \in Seq(Nat)
  <2> HIDE DEF ids, F
  <2> QED BY <1>1, SiftPicks
<1>3. PICK p : Picks(w, p, ids, F, Len(hashes))
  <2> HIDE DEF F
  <2>1. \E p : Picks(Within(ids, F), p, ids, F, Len(ids))
    <3> HIDE DEF ids
    <3> QED BY <1>1, SiftPicks
  <2> HIDE DEF ids
  <2> QED BY <1>1, <2>1
<1>4. \A i : i \in F <=> /\ i \in 1..Len(hashes) /\ hashes[i] \in DOMAIN found
                         /\ \A j \in 1..(i - 1) : hashes[j] # hashes[i]
  BY DEF Firsts
<1>5. out = [k \in 1..Len(w) |-> found[hashes[w[k]]]]
  BY DEF in_requested_order
<1>6. \A i \in 1..Len(hashes) : ids[i] = i
  OBVIOUS
<1> HIDE DEF ids, F, w
<1>7. \A k \in 1..Len(w) : w[k] \in F /\ w[k] = p[k]
  BY <1>3, <1>6 DEF Picks
<1>8. Len(w) \in Nat
  BY <1>2
<1>9. Len(out) = Len(w)
  <2>1. out \in [1..Len(w) -> {found[hashes[w[k]]] : k \in 1..Len(w)}]
    BY <1>5
  <2> QED BY <1>8, <2>1
<1>10. \A k \in 1..Len(w) : out[k].tx = hashes[w[k]]
  BY <1>4, <1>5, <1>7 DEF Keyed
<1>11. \A k \in 1..Len(w) : FirstOf(hashes, out[k].tx) = w[k]
  BY <1>4, <1>7, <1>10, FirstIs
<1>12. \A j, k \in 1..Len(w) : j < k => w[j] < w[k]
  BY <1>3, <1>7 DEF Picks
<1>13. Ordered(hashes, out)
  BY <1>9, <1>11, <1>12 DEF Ordered
<1>14. ASSUME NEW t, t \notin DOMAIN found PROVE PlacesIn(out, t) = {}
  BY <1>4, <1>7, <1>9, <1>10, <1>14 DEF PlacesIn
<1>15. ASSUME NEW i \in 1..Len(hashes), hashes[i] \in DOMAIN found
       PROVE  \E k \in 1..Len(out) : PlacesIn(out, hashes[i]) = {k}
  <2>1. PICK m \in 1..Len(hashes) :
          hashes[m] = hashes[i] /\ \A j \in 1..(m - 1) : hashes[j] # hashes[m]
    BY FirstExists
  <2>2. m \in F
    BY <1>4, <1>15, <2>1
  <2>3. PICK k \in 1..Len(w) : p[k] = m
    BY <1>3, <1>6, <2>2 DEF Picks
  <2>4. out[k].tx = hashes[i]
    BY <1>7, <1>10, <2>1, <2>3
  <2>5. ASSUME NEW l \in 1..Len(w), out[l].tx = hashes[i] PROVE l = k
    <3>1. w[l] = w[k]
      BY <1>11, <2>4, <2>5
    <3>2. w[l] \in Nat /\ w[k] \in Nat
      BY <1>2
    <3>3. ~(l < k) /\ ~(k < l)
      BY <1>12, <3>1, <3>2
    <3> QED BY <1>8, <3>3
  <2>6. PlacesIn(out, hashes[i]) = {k}
    BY <1>9, <2>4, <2>5 DEF PlacesIn
  <2> QED BY <1>9, <2>6
<1> QED BY <1>13, <1>14, <1>15

\* What is stored is stored under its own hash, and nothing is left out.
LEMMA StoredKeyed ==
  ASSUME NEW sets, NEW n \in Nat, DOMAIN sets \subseteq 1..n
  PROVE  /\ Keyed(Stored(sets))
         /\ \A t : t \in DOMAIN Stored(sets) <=> \E i \in DOMAIN sets : \E e \in sets[i] : e.tx = t
<1>1. \A t : t \in DOMAIN Stored(sets) <=> \E i \in DOMAIN sets : \E e \in sets[i] : e.tx = t
  BY DEF Stored
<1>2. ASSUME NEW t \in DOMAIN Stored(sets) PROVE Stored(sets)[t].tx = t
  <2> DEFINE last == CHOOSE i \in Holding(sets, t) : \A j \in Holding(sets, t) : j <= i
  <2>1. Holding(sets, t) \in SUBSET (1..n) /\ Holding(sets, t) # {}
    BY <1>1 DEF Holding
  <2>2. last \in Holding(sets, t)
    BY <2>1, Greatest
  <2>3. \E e \in sets[last] : e.tx = t
    BY <2>2 DEF Holding
  <2>4. (CHOOSE e \in sets[last] : e.tx = t).tx = t
    BY <2>3
  <2>5. Stored(sets)[t] = CHOOSE e \in sets[last] : e.tx = t
    BY DEF Stored
  <2> QED BY <2>4, <2>5
<1> QED BY <1>1, <1>2 DEF Keyed

\* When every chunk was answered, every hash is found once or missed, and both only
\* if it is repeated.
LEMMA AnswerAccounts ==
  ASSUME NEW hashes, NEW hits, NEW chunks, Split(hashes, hits, chunks),
         NEW replies, DOMAIN replies = DOMAIN chunks,
         \A i \in DOMAIN chunks : replies[i].kind = "found" /\ Covers(replies[i], chunks[i]),
         NEW sets, DOMAIN sets = DOMAIN chunks, \A i \in DOMAIN chunks : sets[i] = replies[i].txs,
         NEW missed, missed = UNION {replies[i].missed : i \in DOMAIN replies},
         NEW out, out = in_requested_order(hashes, Over(Stored(sets), hits))
  PROVE  Accounted(hashes, out, missed) /\ Ordered(hashes, out)
<1> DEFINE found == Over(Stored(sets), hits)
<1>1. \A t : t \in missed <=> \E i \in DOMAIN chunks : t \in replies[i].missed
  OBVIOUS
<1>2. PICK n \in Nat : DOMAIN sets \subseteq 1..n
  BY DEF Split
<1>3. \A i \in DOMAIN chunks : /\ replies[i].missed \subseteq chunks[i]
                               /\ \A t : (\E e \in sets[i] : e.tx = t) <=> t \in chunks[i] \ replies[i].missed
  <2> SUFFICES ASSUME NEW i \in DOMAIN chunks
               PROVE  /\ replies[i].missed \subseteq chunks[i]
                      /\ \A t : (\E e \in sets[i] : e.tx = t) <=> t \in chunks[i] \ replies[i].missed
    OBVIOUS
  <2>1. replies[i].missed \subseteq chunks[i]
        /\ {e.tx : e \in replies[i].txs} = chunks[i] \ replies[i].missed
    BY DEF Covers
  <2>2. sets[i] = replies[i].txs
    OBVIOUS
  <2> QED BY <2>1, <2>2
<1>4. /\ Keyed(Stored(sets))
      /\ \A t : t \in DOMAIN Stored(sets) <=>
           \E i \in DOMAIN chunks : t \in chunks[i] \ replies[i].missed
  BY <1>2, <1>3, StoredKeyed
<1>5. Keyed(found)
  BY <1>4 DEF Split, Keyed, Over
<1>6. \A t : t \in DOMAIN found <=>
        t \in DOMAIN hits \/ \E i \in DOMAIN chunks : t \in chunks[i] \ replies[i].missed
  BY <1>4 DEF Over
<1>7. out = in_requested_order(hashes, found) /\ hashes \in Seq(Txs)
  BY DEF Split
<1> HIDE DEF found
<1>8. /\ Ordered(hashes, out)
      /\ \A i \in 1..Len(hashes) : hashes[i] \in DOMAIN found =>
           \E k \in 1..Len(out) : PlacesIn(out, hashes[i]) = {k}
      /\ \A t : t \notin DOMAIN found => PlacesIn(out, t) = {}
  BY <1>5, <1>7, AnswerInOrder
<1>9. ASSUME NEW i \in 1..Len(hashes), hashes[i] \in missed, PlacesIn(out, hashes[i]) # {}
      PROVE  AskedAgain(hashes, i)
  <2> DEFINE t == hashes[i]
  <2>1. PICK k \in DOMAIN chunks : t \in replies[k].missed
    BY <1>1, <1>9
  <2>2. t \in chunks[k] /\ t \notin DOMAIN hits
    BY <1>3, <2>1 DEF Split
  <2>3. t \in DOMAIN found
    BY <1>8, <1>9
  <2>4. PICK l \in DOMAIN chunks : t \in chunks[l] \ replies[l].missed
    BY <1>6, <2>2, <2>3
  <2>5. Repeated(hashes, t)
    BY <2>1, <2>2, <2>4 DEF Split
  <2>6. DOMAIN hashes = 1..Len(hashes)
    BY <1>7
  <2> QED BY <2>5, <2>6 DEF Repeated, AskedAgain
<1>10. ASSUME NEW i \in 1..Len(hashes), hashes[i] \notin missed
       PROVE  PlacesIn(out, hashes[i]) # {}
  <2>1. DOMAIN hashes = 1..Len(hashes)
    BY <1>7
  <2>2. hashes[i] \in DOMAIN hits \/ \E k \in DOMAIN chunks : hashes[i] \in chunks[k]
    BY <2>1 DEF Split
  <2>3. hashes[i] \in DOMAIN found
    BY <1>1, <1>6, <1>10, <2>2
  <2> QED BY <1>8, <2>3
<1>11. ASSUME NEW i \in 1..Len(hashes) PROVE \A j, k \in PlacesIn(out, hashes[i]) : j = k
  <2>1. CASE hashes[i] \in DOMAIN found
    BY <1>8, <2>1
  <2>2. CASE hashes[i] \notin DOMAIN found
    BY <1>8, <2>2
  <2> QED BY <2>1, <2>2
<1> QED BY <1>8, <1>9, <1>10, <1>11 DEF Accounted

-----------------------------------------------------------------------------
\* A request changes by one step; the others are as they were.
LEMMA AnswersStart ==
  ASSUME Answering, NEW r \in Requests, NEW hashes \in Asks, FetchStarted(r, hashes)
  PROVE  Answering'
<1> DEFINE want == Within(hashes, Txs \ DOMAIN txs)
           hits == [t \in {hashes[i] : i \in 1..Len(hashes)} \cap DOMAIN txs |-> txs[t]]
           chunks == Chunks(want)
           replies == [i \in DOMAIN chunks |-> NoReply]
           q == Calling(hashes, hits, chunks, replies)
<1>1. hashes \in Seq(Txs) /\ DOMAIN hashes = 1..Len(hashes)
  OBVIOUS
<1>2. req' = [req EXCEPT ![r] = q] /\ txs' = txs
  BY DEF FetchStarted, Calling
<1>3. /\ Keyed(hits)
      /\ \A t : t \in DOMAIN hits <=> t \in DOMAIN txs /\ \E i \in DOMAIN hashes : hashes[i] = t
  BY <1>1 DEF Keyed, Answering
<1>4. Split(hashes, hits, chunks)
  <2> HIDE DEF hits, want
  <2>1. want = Within(hashes, Txs \ DOMAIN txs)
    BY DEF want
  <2> QED BY <1>1, <1>3, <2>1, StartSplits
<1>5. replies = [i \in DOMAIN chunks |-> replies[i]]
      /\ \A i \in DOMAIN chunks : Covers(replies[i], chunks[i])
  BY DEF Covers, NoReply
<1> HIDE DEF want, hits, chunks, replies
<1>6. /\ q.at = "calling" /\ q.hashes = hashes /\ q.hits = hits /\ q.chunks = chunks
      /\ q.replies = replies
  BY DEF Calling
<1> HIDE DEF q
<1>7. UnderWay(q)
  <2>1. q = Calling(hashes, hits, chunks, replies)
    BY DEF q
  <2> QED BY <1>4, <1>5, <1>6, <2>1 DEF UnderWay
<1> QED BY <1>2, <1>6, <1>7 DEF Answering

LEMMA AnsweredCovers == ASSUME NEW wanted PROVE Covers(Answered(wanted), wanted)
<1>1. \A t : EntryFor(t).tx = t
  BY DEF EntryFor
<1>2. {e.tx : e \in Answered(wanted).txs} = wanted \cap (Mined \cup pool)
  BY <1>1 DEF Answered
<1> QED BY <1>2 DEF Covers, Answered

LEMMA AnswersReply ==
  ASSUME Answering, NEW r \in Requests, NEW i, ChunkReplies(r, i)
  PROVE  Answering'
<1> DEFINE hashes == req[r].hashes
           hits == req[r].hits
           chunks == req[r].chunks
           replies == req[r].replies
<1>1. /\ req[r] = Calling(hashes, hits, chunks, replies)
      /\ replies = [k \in DOMAIN chunks |-> replies[k]]
      /\ Split(hashes, hits, chunks)
      /\ \A k \in DOMAIN chunks : Covers(replies[k], chunks[k])
      /\ i \in DOMAIN replies
  BY DEF ChunkReplies, Answering, UnderWay
<1>2. PICK reply : req' = [req EXCEPT ![r].replies[i] = reply] /\ Covers(reply, chunks[i])
  <2>1. PICK reply \in {Answered(chunks[i]), Failed} :
          req' = [req EXCEPT ![r].replies[i] = reply]
    BY DEF ChunkReplies
  <2>2. Covers(Failed, chunks[i])
    BY DEF Covers, Failed
  <2> QED BY <2>1, <2>2, AnsweredCovers
<1> DEFINE next == [replies EXCEPT ![i] = reply]
           q == Calling(hashes, hits, chunks, next)
<1>3. \A p \in Requests : req'[p] = IF p = r THEN [req[r] EXCEPT !.replies[i] = reply] ELSE req[p]
  BY <1>2 DEF Answering
<1>4. [req[r] EXCEPT !.replies[i] = reply] = [req[r] EXCEPT !.replies = next]
  OBVIOUS
<1>5. next = [k \in DOMAIN chunks |-> next[k]]
      /\ \A k \in DOMAIN chunks : next[k] = IF k = i THEN reply ELSE replies[k]
  BY <1>1
<1> HIDE DEF hashes, hits, chunks, replies, next
<1>6. [req[r] EXCEPT !.replies = next] = q
  BY <1>1 DEF Calling
<1>7. /\ q.at = "calling" /\ q.hashes = hashes /\ q.hits = hits /\ q.chunks = chunks
      /\ q.replies = next /\ q = Calling(hashes, hits, chunks, next)
  BY DEF Calling
<1> HIDE DEF q
<1>8. UnderWay(q)
  BY <1>1, <1>2, <1>5, <1>7 DEF UnderWay
<1>9. req' = [p \in Requests |-> req'[p]] /\ txs' = txs
  BY <1>2 DEF Answering, ChunkReplies
<1>10. \A p \in Requests : req'[p] = IF p = r THEN q ELSE req[p]
  BY <1>3, <1>4, <1>6
<1>11. \A p \in Requests : /\ req'[p].at = "calling" => UnderWay(req'[p])
                           /\ req'[p].at = "done" => Correct(req'[p])
  BY <1>7, <1>8, <1>10 DEF Answering
<1>12. Keyed(txs')
  BY <1>9 DEF Answering
<1> QED BY <1>9, <1>11, <1>12 DEF Answering

\* Whichever entries an eviction spares, each is kept under its own hash.
LEMMA CachedKeyed ==
  ASSUME Keyed(txs), NEW sets, NEW n \in Nat, DOMAIN sets \subseteq 1..n, CacheEntries(sets)
  PROVE  Keyed(txs')
<1> DEFINE given == [i \in DOMAIN sets |-> {e \in sets[i] : Cacheable(e)}]
           new == Stored(given)
           all == Over(new, txs)
<1>1. DOMAIN given \subseteq 1..n
  OBVIOUS
<1>2. PICK kept \in SUBSET DOMAIN all : txs' = [t \in kept |-> all[t]]
  BY DEF CacheEntries
<1> HIDE DEF given
<1>3. Keyed(new)
  BY <1>1, StoredKeyed
<1> HIDE DEF new
<1>4. \A t \in DOMAIN all : all[t].tx = t
  BY <1>3 DEF Over, Keyed
<1> QED BY <1>2, <1>4 DEF Keyed

LEMMA AnswersFinish ==
  ASSUME Answering, NEW r \in Requests, FetchFinished(r)
  PROVE  Answering'
<1> DEFINE hashes == req[r].hashes
           hits == req[r].hits
           chunks == req[r].chunks
           replies == req[r].replies
           sets == Handled(replies)
           missed == UNION {replies[i].missed : i \in DOMAIN replies}
           out == in_requested_order(hashes, Over(Stored(sets), hits))
           good == [at |-> "done", result |-> "Ok", hashes |-> hashes, txs |-> out, missed |-> missed]
           bad == [at |-> "done", result |-> "Rpc", hashes |-> hashes]
           q == IF DOMAIN sets = DOMAIN replies THEN good ELSE bad
<1>1. /\ DOMAIN replies = DOMAIN chunks
      /\ Split(hashes, hits, chunks)
      /\ \A k \in DOMAIN chunks : Covers(replies[k], chunks[k])
  BY DEF FetchFinished, Answering, UnderWay
<1>2. CacheEntries(sets) /\ req' = [req EXCEPT ![r] = q]
  BY DEF FetchFinished
<1>3. PICK n \in Nat : DOMAIN chunks = 1..n
  BY <1>1 DEF Split
<1>4. /\ DOMAIN sets \subseteq 1..n
      /\ \A k \in DOMAIN sets : k \in DOMAIN replies /\ replies[k].kind = "found" /\ sets[k] = replies[k].txs
  <2>1. ASSUME NEW k \in DOMAIN sets
        PROVE  k \in DOMAIN replies /\ replies[k].kind = "found" /\ sets[k] = replies[k].txs
    <3>1. k \in DOMAIN replies /\ \A j \in 1..k : replies[j].kind = "found"
      BY DEF Handled
    <3>2. k \in 1..k
      BY <1>1, <1>3, <3>1
    <3>3. sets[k] = replies[k].txs
      BY DEF Handled
    <3> QED BY <3>1, <3>2, <3>3
  <2> HIDE DEF sets, replies, chunks
  <2> QED BY <1>1, <1>3, <2>1
<1> HIDE DEF hashes, hits, chunks, replies, sets
<1>5. Keyed(txs')
  BY <1>2, <1>4, CachedKeyed DEF Answering
<1>6. q.at = "done" /\ Correct(q)
  <2>1. CASE DOMAIN sets = DOMAIN replies
    <3>1. Accounted(hashes, out, missed) /\ Ordered(hashes, out)
      <4>1. /\ \A i \in DOMAIN chunks : replies[i].kind = "found" /\ Covers(replies[i], chunks[i])
            /\ DOMAIN sets = DOMAIN chunks /\ \A i \in DOMAIN chunks : sets[i] = replies[i].txs
        BY <1>1, <1>4, <2>1
      <4> QED BY <1>1, <4>1, AnswerAccounts
    <3>2. good.at = "done" /\ good.hashes = hashes /\ good.txs = out /\ good.missed = missed
      OBVIOUS
    <3> HIDE DEF good, out, missed
    <3> QED BY <2>1, <3>1, <3>2 DEF Correct
  <2>2. CASE DOMAIN sets # DOMAIN replies
    <3>1. bad.at = "done" /\ bad.result # "Ok"
      OBVIOUS
    <3> HIDE DEF good, bad
    <3> QED BY <2>2, <3>1 DEF Correct
  <2> QED BY <2>1, <2>2
<1> HIDE DEF q
<1>7. \A p \in Requests : req'[p] = IF p = r THEN q ELSE req[p]
  BY <1>2 DEF Answering
<1>8. \A p \in Requests : /\ req'[p].at = "calling" => UnderWay(req'[p])
                          /\ req'[p].at = "done" => Correct(req'[p])
  BY <1>6, <1>7 DEF Answering
<1>9. req' = [p \in Requests |-> req'[p]]
  BY <1>2 DEF Answering
<1> QED BY <1>5, <1>8, <1>9 DEF Answering

LEMMA AnswersCancel ==
  ASSUME Answering, NEW r \in Requests, Cancelled(r)
  PROVE  Answering'
<1>1. req' = [req EXCEPT ![r] = Idle] /\ txs' = txs /\ Idle.at = "idle"
  BY DEF Cancelled, Idle
<1>2. \A p \in Requests : req'[p] = IF p = r THEN Idle ELSE req[p]
  BY <1>1 DEF Answering
<1>3. \A p \in Requests : /\ req'[p].at = "calling" => UnderWay(req'[p])
                          /\ req'[p].at = "done" => Correct(req'[p])
  BY <1>1, <1>2 DEF Answering
<1>4. req' = [p \in Requests |-> req'[p]]
  BY <1>1 DEF Answering
<1> QED BY <1>1, <1>3, <1>4 DEF Answering

LEMMA AnswersInit == ASSUME Init PROVE Answering
BY DEF Init, Idle, Answering, Keyed

LEMMA AnswersStep == ASSUME Answering, [Next]_vars PROVE Answering'
<1>1. CASE UNCHANGED <<txs, req>>
  <2>1. txs' = txs /\ req' = req
    BY <1>1
  <2> QED BY <2>1 DEF Answering
<1>2. CASE \E r \in Requests, hashes \in Asks : FetchStarted(r, hashes)
  BY <1>2, AnswersStart
<1>3. CASE \E r \in Requests : \E i \in DOMAIN req[r].replies : ChunkReplies(r, i)
  BY <1>3, AnswersReply
<1>4. CASE \E r \in Requests : FetchFinished(r)
  BY <1>4, AnswersFinish
<1>5. CASE \E r \in Requests : Cancelled(r)
  BY <1>5, AnswersCancel
<1> QED BY <1>1, <1>2, <1>3, <1>4, <1>5 DEF Next, vars

\* A successful answer accounts for every hash it was asked for: listed once or
\* missed, and both only if it was asked for more than once, however the cache and
\* the chunks split the work (RpcChainSource::transactions).
THEOREM EveryHashAccounted == Spec => []FoundOrMissed
<1>1. Answering => FoundOrMissed
  <2> SUFFICES ASSUME Answering, NEW r \in Requests, Answer(r)
               PROVE  Accounted(req[r].hashes, req[r].txs, req[r].missed)
    BY DEF FoundOrMissed, Accounted, PlacesIn, Places
  <2> QED BY DEF Answer, Answering, Correct
<1> QED BY <1>1, AnswersInit, AnswersStep, PTL DEF Spec

\* A successful answer lists its transactions in the order of their first
\* places in the request (in_requested_order).
THEOREM OrderKept == Spec => []InRequestedOrder
<1>1. Answering => InRequestedOrder
  <2> SUFFICES ASSUME Answering, NEW r \in Requests, Answer(r)
               PROVE  Ordered(req[r].hashes, req[r].txs)
    BY DEF InRequestedOrder, Ordered, FirstOf
  <2> QED BY DEF Answer, Answering, Correct
<1> QED BY <1>1, AnswersInit, AnswersStep, PTL DEF Spec
=============================================================================
