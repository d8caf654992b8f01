------------------------- MODULE RangeSourceProofs --------------------------
(***************************************************************************)
(* Why a range is never told a transaction twice, and why it is whole while*)
(* no reorganisation interferes.                                           *)
(*                                                                         *)
(* The second needs that what is cached is buried too deep to be abandoned *)
(* (Settled), and that whatever a calm request has gathered, from the      *)
(* headers, from the daemon or from a cache that others filled, is of the  *)
(* chain as it stands, with no block that holds transactions left out      *)
(* (Current).                                                              *)
(***************************************************************************)
EXTENDS RangeSource, ChainProofs, FiniteSetTheorems

USE ReorgAssumption, WindowAssumption, SpanAssumption

\* What is read of a request below, and no more.
Shaped ==
  /\ DOMAIN req = Requests
  /\ \A r \in Requests :
       /\ req[r].at = "headers" => req[r].start \in Nat /\ req[r].end \in Nat
       /\ req[r].at = "bodies" => DOMAIN req[r].headers \subseteq Nat

\* What is cached under a height is the chain's block there, out of reach of
\* any reorganisation.
Settled ==
  \A h \in DOMAIN blocks_by_height :
    /\ h \in Nat /\ h + Window < height
    /\ blocks_by_height[h] = chain[h]

\* What a request has gathered is of the chain as it stands, and every block that
\* holds transactions is asked for, or answered, or known to have failed.
Gathered(q) ==
  /\ \A h \in DOMAIN q.headers : h \in 0..(height - 1) /\ q.headers[h] = Header(h)
  /\ \A h \in DOMAIN q.extra : h \in DOMAIN q.headers /\ q.extra[h] = chain[h]
  /\ q.asked \subseteq DOMAIN q.headers
  /\ q.failed \/ Holding(q.headers) \subseteq q.asked \cup DOMAIN q.extra

Current == \A r \in Requests : req[r].at = "bodies" /\ req[r].calm => Gathered(req[r])

Calm == ChainTypeOK /\ Apart /\ Shaped /\ Settled /\ Current /\ WholeWhenCalm

-----------------------------------------------------------------------------
\* A transaction is dealt to the first block that wants it, so to one only.
LEMMA DealtOnce ==
  ASSUME NEW wanted, DOMAIN wanted \subseteq Nat, NEW fetched,
         NEW g \in DOMAIN wanted, NEW h \in DOMAIN wanted, g # h
  PROVE  Dealt(wanted, fetched)[g] \cap Dealt(wanted, fetched)[h] = {}
<1>1. g < h \/ h < g
  OBVIOUS
<1>2. \A i \in DOMAIN wanted :
        Dealt(wanted, fetched)[i] =
          {t \in wanted[i] \cap fetched : \A j \in DOMAIN wanted : j < i => t \notin wanted[j]}
  BY DEF Dealt
<1> QED BY <1>1, <1>2

\* Of what no two blocks want, each block is dealt all of its own.
LEMMA DealtWhole ==
  ASSUME NEW wanted, NEW fetched, NEW h \in DOMAIN wanted, DOMAIN wanted \subseteq Nat,
         wanted[h] \subseteq fetched,
         \A j \in DOMAIN wanted : j # h => wanted[j] \cap wanted[h] = {}
  PROVE  Dealt(wanted, fetched)[h] = wanted[h]
BY DEF Dealt

\* A header that counts no transactions is of a block that holds none.
LEMMA CountedNone ==
  ASSUME ChainTypeOK, NEW h \in 0..(height - 1), ~(num_txes(Header(h)) > 0)
  PROVE  chain[h].txs = {}
<1>1. chain[h].txs \in SUBSET Txs
  BY DEF ChainTypeOK, Block
<1>2. IsFiniteSet(chain[h].txs)
  BY <1>1, TxsAssumption, FS_Subset
<1>3. Cardinality(chain[h].txs) \in Nat
  BY <1>2, FS_CardinalityType
<1>4. Cardinality(chain[h].txs) = 0
  BY <1>3 DEF num_txes, Header
<1> QED BY <1>2, <1>4, FS_EmptySet

-----------------------------------------------------------------------------
\* What a step does to the chain: nothing, unless it is the chain's own step.
LEMMA Moves ==
  ASSUME [Next]_vars
  PROVE  \/ ChainNext
         \/ UNCHANGED chainVars
BY DEF Next, vars, chainVars, ChainNext, ReorgSeen, RangeAsked, HeadersReceived,
       TxsReceived, RangeFailed, Cancelled, BodyReceived, BodyFailed

LEMMA ShapedKept ==
  ASSUME Shaped, [Next]_vars
  PROVE  Shaped'
<1>1. ASSUME NEW r \in Requests, NEW g \in Ranges, RangeAsked(r, g) PROVE Shaped'
  BY <1>1, RangeAssumption DEF RangeAsked, Shaped
<1>2. ASSUME NEW r \in Requests, HeadersReceived(r) PROVE Shaped'
  <2> DEFINE last == LastHeight(req[r].start, req[r].end)
             got  == [h \in req[r].start..last |-> Header(h)]
  <2>1. DOMAIN got \subseteq Nat
    BY <1>2 DEF HeadersReceived, Shaped
  <2>2. DOMAIN req' = Requests /\ req'[r].at = "bodies" /\ req'[r].headers = got
    BY <1>2 DEF HeadersReceived, Shaped
  <2>3. \A s \in Requests : s # r => req'[s] = req[s]
    BY <1>2 DEF HeadersReceived, Shaped
  <2> HIDE DEF got
  <2> QED BY <2>1, <2>2, <2>3 DEF Shaped
<1>3. ASSUME NEW r \in Requests, NEW h, BodyReceived(r, h) PROVE Shaped'
  BY <1>3 DEF BodyReceived, Shaped
<1>4. ASSUME NEW r \in Requests, NEW h, BodyFailed(r, h) PROVE Shaped'
  BY <1>4 DEF BodyFailed, Shaped
<1>5. ASSUME NEW r \in Requests, TxsReceived(r) PROVE Shaped'
  BY <1>5 DEF TxsReceived, Shaped
<1>6. ASSUME NEW r \in Requests, RangeFailed(r) \/ Cancelled(r) PROVE Shaped'
  BY <1>6 DEF RangeFailed, Cancelled, Idle, Shaped
<1>7. CASE ReorgSeen
  BY <1>7 DEF ReorgSeen, Shaped
<1>8. CASE UNCHANGED req
  BY <1>8 DEF Shaped
<1> QED BY <1>1, <1>2, <1>3, <1>4, <1>5, <1>6, <1>7, <1>8 DEF Next, vars

\* A body's coming or failing ends no request and touches no other.
LEMMA BodiesWait ==
  ASSUME Shaped, NEW r \in Requests, NEW h, BodyReceived(r, h) \/ BodyFailed(r, h)
  PROVE  req'[r].at = "bodies" /\ \A s \in Requests : s # r => req'[s] = req[s]
<1>1. CASE BodyReceived(r, h)
  BY <1>1 DEF BodyReceived, Shaped
<1>2. CASE BodyFailed(r, h)
  BY <1>2 DEF BodyFailed, Shaped
<1> QED BY <1>1, <1>2

\* A reorganisation alters no answer that was given.
LEMMA AnswersStay ==
  ASSUME Shaped, ReorgSeen, NEW r \in Requests
  PROVE  /\ req'[r].at = "Ok" <=> req[r].at = "Ok"
         /\ req[r].at = "Ok" => req'[r] = req[r]
BY DEF ReorgSeen, Shaped, Free

\* Each answer is dealt its transactions at once, and nothing alters it later.
LEMMA OnceKept ==
  ASSUME Shaped, NoTxTwice, [Next]_vars
  PROVE  NoTxTwice'
<1>1. ASSUME NEW r \in Requests, TxsReceived(r) PROVE NoTxTwice'
  <2> DEFINE wanted  == Wanted(req[r])
             fetched == Mined \cup pool
             rows    == req'[r].rows
  <2>1. /\ DOMAIN wanted = DOMAIN req[r].headers /\ DOMAIN wanted \subseteq Nat
        /\ DOMAIN rows = DOMAIN wanted
        /\ \A h \in DOMAIN wanted : rows[h].txs = Dealt(wanted, fetched)[h]
    BY <1>1 DEF TxsReceived, Shaped, Wanted
  <2>2. \A g, h \in DOMAIN rows : g # h => rows[g].txs \cap rows[h].txs = {}
    BY <2>1, DealtOnce
  <2>3. \A s \in Requests : s # r => req'[s] = req[s]
    BY <1>1 DEF TxsReceived, Shaped
  <2> QED BY <2>2, <2>3 DEF NoTxTwice, Answered
<1>2. ASSUME NEW r \in Requests, req'[r].at # "Ok",
             \A s \in Requests : s # r => req'[s] = req[s]
      PROVE  NoTxTwice'
  BY <1>2 DEF NoTxTwice, Answered
<1>3. ASSUME NEW r \in Requests,
             HeadersReceived(r) \/ RangeFailed(r) \/ Cancelled(r)
      PROVE  NoTxTwice'
  BY <1>2, <1>3 DEF HeadersReceived, RangeFailed, Cancelled, Idle, Shaped
<1>4. ASSUME NEW r \in Requests, NEW g \in Ranges, RangeAsked(r, g) PROVE NoTxTwice'
  BY <1>2, <1>4 DEF RangeAsked, Shaped
<1>5. ASSUME NEW r \in Requests, NEW h, BodyReceived(r, h) \/ BodyFailed(r, h) PROVE NoTxTwice'
  BY <1>2, <1>5, BodiesWait
<1>6. CASE ReorgSeen
  BY <1>6, AnswersStay DEF NoTxTwice, Answered
<1>7. CASE UNCHANGED req
  BY <1>7 DEF NoTxTwice, Answered
<1> QED BY <1>1, <1>3, <1>4, <1>5, <1>6, <1>7 DEF Next, vars

\* Whatever reorganisation comes between the headers, the bodies and the
\* transactions, no answer lists a transaction under two of its blocks.
THEOREM NeverTwice == Spec => []NoTxTwice
<1>1. Init => Shaped /\ NoTxTwice
  BY DEF Init, Idle, Shaped, NoTxTwice, Answered
<1>2. Shaped /\ NoTxTwice /\ [Next]_vars => (Shaped /\ NoTxTwice)'
  BY ShapedKept, OnceKept
<1> QED BY <1>1, <1>2, PTL DEF Spec

-----------------------------------------------------------------------------
\* A body goes into the cache only past the window, and what is past the window
\* no reorganisation reaches.
LEMMA SettledKept ==
  ASSUME MaxReorg <= Window, ChainTypeOK, Settled, [Next]_vars
  PROVE  Settled'
<1>1. CASE ChainNext /\ UNCHANGED blocks_by_height
  <2>1. ASSUME NEW h \in DOMAIN blocks_by_height
        PROVE  h \in Nat /\ h + Window < height' /\ blocks_by_height[h] = chain'[h]
    <3>1. h \in 0..(height - 1 - MaxReorg)
      BY DEF Settled, ChainTypeOK
    <3>2. chain'[h] = chain[h] /\ height' >= height /\ height' \in Nat
      BY <1>1, <3>1, ChainSteps DEF ChainTypeOK
    <3> QED BY <3>2 DEF Settled, ChainTypeOK
  <2> QED BY <1>1, <2>1 DEF Settled
<1>2. ASSUME NEW r \in Requests, NEW h \in 0..(MaxHeight - 1), BodyReceived(r, h)
      PROVE  Settled'
  <2>1. CASE Buried(h)
    <3>1. PICK kept \in SUBSET DOMAIN blocks_by_height :
            blocks_by_height' =
              [j \in kept \cup {h} |-> IF j = h THEN Body(h) ELSE blocks_by_height[j]]
      BY <1>2, <2>1 DEF BodyReceived
    <3>2. UNCHANGED chainVars /\ h \in Nat /\ h + Window < height
      BY <1>2, <2>1 DEF BodyReceived, Buried, Depth, ChainTypeOK
    <3> QED BY <3>1, <3>2 DEF Settled, Body, chainVars
  <2>2. CASE ~Buried(h)
    BY <1>2, <2>2 DEF BodyReceived, Settled, chainVars
  <2> QED BY <2>1, <2>2
<1>3. CASE UNCHANGED <<chainVars, blocks_by_height>>
  BY <1>3 DEF Settled, chainVars
<1>4. \/ ChainNext /\ UNCHANGED blocks_by_height
      \/ \E r \in Requests, h \in 0..(MaxHeight - 1) : BodyReceived(r, h)
      \/ UNCHANGED <<chainVars, blocks_by_height>>
  BY DEF Next, vars, chainVars, ChainNext, ReorgSeen, RangeAsked, HeadersReceived,
         TxsReceived, RangeFailed, Cancelled, BodyFailed
<1> QED BY <1>1, <1>2, <1>3, <1>4

\* The chain growing, or a transaction coming into the pool, leaves every block
\* where it is.
LEMMA BlocksStay ==
  ASSUME ChainTypeOK, Mine \/ (\E t \in Txs : Relay(t)) \/ UNCHANGED chainVars
  PROVE  \A h \in 0..(height - 1) : h \in 0..(height' - 1) /\ chain'[h] = chain[h]
<1>1. CASE Mine
  BY <1>1, MineKeeps DEF ChainTypeOK
<1>2. CASE \E t \in Txs : Relay(t)
  BY <1>2 DEF Relay
<1>3. CASE UNCHANGED chainVars
  BY <1>3 DEF chainVars
<1> QED BY <1>1, <1>2, <1>3

LEMMA CurrentKept ==
  ASSUME ChainTypeOK, Shaped, Settled, Current, [Next]_vars
  PROVE  Current'
<1>1. ASSUME UNCHANGED chainVars, NEW r \in Requests,
             \A s \in Requests : s # r => req'[s] = req[s],
             req'[r].at = "bodies" /\ req'[r].calm => Gathered(req'[r])
      PROVE  Current'
  <2>1. \A q : Gathered(q) => Gathered(q)'
    BY <1>1 DEF Gathered, Header, chainVars
  <2> QED BY <1>1, <2>1 DEF Current
<1>2. ASSUME NEW r \in Requests, HeadersReceived(r) PROVE Current'
  <2> DEFINE last    == LastHeight(req[r].start, req[r].end)
             got     == [h \in req[r].start..last |-> Header(h)]
             holding == Holding(got)
             q       == req'[r]
  <2>1. /\ last < height
        /\ q.headers = got
        /\ q.extra = [h \in holding \cap DOMAIN blocks_by_height |-> blocks_by_height[h]]
        /\ q.asked = holding \ DOMAIN blocks_by_height
    BY <1>2 DEF HeadersReceived, Shaped
  <2>2. req[r].start \in Nat /\ last \in Int
    BY <1>2 DEF HeadersReceived, Shaped, LastHeight
  <2>3. \A h \in DOMAIN got : h \in 0..(height - 1) /\ got[h] = Header(h)
    <3> HIDE DEF last
    <3> QED BY <2>1, <2>2 DEF ChainTypeOK
  <2>4. holding \subseteq DOMAIN got
    BY DEF Holding
  <2> HIDE DEF got, holding
  <2>5. Gathered(q)
    BY <2>1, <2>3, <2>4 DEF Gathered, Settled, holding
  <2>6. UNCHANGED chainVars /\ \A s \in Requests : s # r => req'[s] = req[s]
    BY <1>2 DEF HeadersReceived, Shaped
  <2> QED BY <1>1, <2>5, <2>6
<1>3. ASSUME NEW r \in Requests, NEW h, BodyReceived(r, h) PROVE Current'
  <2>1. /\ UNCHANGED chainVars
        /\ \A s \in Requests : s # r => req'[s] = req[s]
        /\ req[r].at = "bodies" /\ h \in req[r].asked
        /\ req'[r] = [req[r] EXCEPT !.asked = @ \ {h},
                       !.extra = [j \in DOMAIN @ \cup {h} |-> IF j = h THEN Body(h) ELSE @[j]]]
    BY <1>3 DEF BodyReceived, Shaped
  <2>2. /\ req'[r].calm = req[r].calm /\ req'[r].headers = req[r].headers
        /\ req'[r].failed = req[r].failed /\ req'[r].asked = req[r].asked \ {h}
        /\ req'[r].extra = [j \in DOMAIN req[r].extra \cup {h} |->
                              IF j = h THEN Body(h) ELSE req[r].extra[j]]
    BY <2>1
  <2>3. req[r].calm => Gathered(req'[r])
    BY <2>1, <2>2 DEF Current, Gathered, Body
  <2> QED BY <1>1, <2>1, <2>2, <2>3
<1>4. ASSUME NEW r \in Requests, NEW h, BodyFailed(r, h) PROVE Current'
  <2>1. /\ UNCHANGED chainVars
        /\ \A s \in Requests : s # r => req'[s] = req[s]
        /\ req[r].at = "bodies"
        /\ req'[r] = [req[r] EXCEPT !.asked = @ \ {h}, !.failed = TRUE]
    BY <1>4 DEF BodyFailed, Shaped
  <2>2. /\ req'[r].calm = req[r].calm /\ req'[r].headers = req[r].headers
        /\ req'[r].failed /\ req'[r].asked = req[r].asked \ {h}
        /\ req'[r].extra = req[r].extra
    BY <2>1
  <2>3. req[r].calm => Gathered(req'[r])
    BY <2>1, <2>2 DEF Current, Gathered
  <2> QED BY <1>1, <2>1, <2>2, <2>3
<1>5. ASSUME NEW r \in Requests, UNCHANGED chainVars, req'[r].at # "bodies",
             \A s \in Requests : s # r => req'[s] = req[s]
      PROVE  Current'
  BY <1>1, <1>5
<1>6. ASSUME NEW r \in Requests, TxsReceived(r) \/ RangeFailed(r) \/ Cancelled(r) PROVE Current'
  <2>1. CASE TxsReceived(r)
    BY <1>5, <2>1 DEF TxsReceived, Shaped
  <2>2. CASE RangeFailed(r) \/ Cancelled(r)
    BY <1>5, <2>2 DEF RangeFailed, Cancelled, Idle, Shaped
  <2> QED BY <1>6, <2>1, <2>2
<1>7. ASSUME NEW r \in Requests, NEW g \in Ranges, RangeAsked(r, g) PROVE Current'
  BY <1>5, <1>7 DEF RangeAsked, Shaped
<1>8. CASE ReorgSeen
  <2>1. \A r \in Requests : req'[r].at = "bodies" => ~req'[r].calm
    BY <1>8 DEF ReorgSeen, Shaped, Free
  <2> QED BY <2>1 DEF Current
<1>9. CASE UNCHANGED req /\ (Mine \/ (\E t \in Txs : Relay(t)) \/ UNCHANGED chainVars)
  <2>1. \A q : Gathered(q) => Gathered(q)'
    BY <1>9, BlocksStay DEF Gathered, Header
  <2> QED BY <1>9, <2>1 DEF Current
<1> QED BY <1>2, <1>3, <1>4, <1>6, <1>7, <1>8, <1>9 DEF Next, vars, chainVars

\* What a calm request has gathered makes whole rows: each block is dealt all of
\* its transactions, because the chain holds none of them twice.
LEMMA GatheredIsWhole ==
  ASSUME ChainTypeOK, Apart, NEW q, DOMAIN q.headers \subseteq Nat,
         Gathered(q), q.asked = {}, ~q.failed, NEW h \in DOMAIN q.headers
  PROVE  /\ OnChain(q.headers[h])
         /\ Dealt(Wanted(q), Mined \cup pool)[h] = q.headers[h].block.txs
<1> DEFINE wanted  == Wanted(q)
           fetched == Mined \cup pool
<1>1. \A j \in DOMAIN q.headers :
        /\ j \in 0..(height - 1)
        /\ q.headers[j].height = j /\ q.headers[j].block = chain[j]
  <2>1. \A j \in DOMAIN q.headers : j \in 0..(height - 1) /\ q.headers[j] = Header(j)
    BY DEF Gathered
  <2>2. \A j : Header(j).height = j /\ Header(j).block = chain[j]
    BY DEF Header
  <2> QED BY <2>1, <2>2
<1>2. DOMAIN wanted = DOMAIN q.headers
  BY DEF Wanted
<1>3. ASSUME NEW j \in DOMAIN q.headers PROVE wanted[j] = chain[j].txs
  <2>1. CASE j \in DOMAIN q.extra
    BY <2>1 DEF Wanted, Gathered
  <2>2. CASE j \notin DOMAIN q.extra
    <3>1. j \notin Holding(q.headers)
      BY <2>2 DEF Gathered
    <3>2. ~(num_txes(Header(j)) > 0)
      BY <3>1 DEF Holding, Gathered
    <3> QED BY <1>1, <2>2, <3>2, CountedNone DEF Wanted
  <2> QED BY <2>1, <2>2
<1>4. wanted[h] \subseteq fetched
  BY <1>1, <1>3 DEF Mined, TxsFrom
<1>5. \A j \in DOMAIN wanted : j # h => wanted[j] \cap wanted[h] = {}
  BY <1>1, <1>2, <1>3 DEF Apart
<1> HIDE DEF wanted, fetched
<1>6. Dealt(wanted, fetched)[h] = wanted[h]
  BY <1>2, <1>4, <1>5, DealtWhole
<1>7. OnChain(q.headers[h])
  BY <1>1 DEF OnChain, ChainTypeOK
<1> QED BY <1>1, <1>3, <1>6, <1>7 DEF wanted, fetched

LEMMA WholeKept ==
  ASSUME ChainTypeOK, Apart, Shaped, Current, WholeWhenCalm, [Next]_vars
  PROVE  WholeWhenCalm'
<1>1. ASSUME NEW r \in Requests, TxsReceived(r) PROVE WholeWhenCalm'
  <2> DEFINE q     == req[r]
             dealt == Dealt(Wanted(q), Mined \cup pool)
             rows  == req'[r].rows
  <2>1. /\ q.at = "bodies" /\ q.asked = {} /\ ~q.failed
        /\ DOMAIN q.headers \subseteq Nat
        /\ req'[r].calm = q.calm
        /\ rows = [h \in DOMAIN q.headers |->
                     [header |-> q.headers[h], coinbase |-> OnChain(q.headers[h]), txs |-> dealt[h]]]
        /\ \A s \in Requests : s # r => req'[s] = req[s]
    BY <1>1 DEF TxsReceived, Shaped
  <2>2. ASSUME q.calm, NEW h \in DOMAIN q.headers
        PROVE  OnChain(q.headers[h]) /\ dealt[h] = q.headers[h].block.txs
    BY <2>1, <2>2, GatheredIsWhole DEF Current
  <2> HIDE DEF q, dealt
  <2>3. q.calm => \A h \in DOMAIN rows : rows[h].coinbase /\ rows[h].txs = rows[h].header.block.txs
    BY <2>1, <2>2
  <2> QED BY <2>1, <2>3 DEF WholeWhenCalm, Answered
<1>2. ASSUME NEW r \in Requests, req'[r].at # "Ok",
             \A s \in Requests : s # r => req'[s] = req[s]
      PROVE  WholeWhenCalm'
  BY <1>2 DEF WholeWhenCalm, Answered
<1>3. ASSUME NEW r \in Requests,
             HeadersReceived(r) \/ RangeFailed(r) \/ Cancelled(r)
      PROVE  WholeWhenCalm'
  BY <1>2, <1>3 DEF HeadersReceived, RangeFailed, Cancelled, Idle, Shaped
<1>4. ASSUME NEW r \in Requests, NEW g \in Ranges, RangeAsked(r, g) PROVE WholeWhenCalm'
  BY <1>2, <1>4 DEF RangeAsked, Shaped
<1>5. ASSUME NEW r \in Requests, NEW h, BodyReceived(r, h) \/ BodyFailed(r, h)
      PROVE  WholeWhenCalm'
  BY <1>2, <1>5, BodiesWait
<1>6. CASE ReorgSeen
  BY <1>6, AnswersStay DEF WholeWhenCalm, Answered
<1>7. CASE UNCHANGED req
  BY <1>7 DEF WholeWhenCalm, Answered
<1> QED BY <1>1, <1>3, <1>4, <1>5, <1>6, <1>7 DEF Next, vars

LEMMA ChainKept ==
  ASSUME ChainTypeOK, Apart, [Next]_vars
  PROVE  ChainTypeOK' /\ Apart'
<1>1. CASE ChainNext
  BY <1>1, ChainSteps, ApartSteps
<1>2. CASE UNCHANGED chainVars
  BY <1>2 DEF chainVars, ChainTypeOK, Apart
<1> QED BY <1>1, <1>2, Moves

\* With a window at least as deep as any reorganisation, an answer that no
\* reorganisation interfered with has every row whole: its coinbase, and exactly
\* its block's transactions.
THEOREM CalmIsWhole ==
  ASSUME MaxReorg <= Window
  PROVE  Spec => []WholeWhenCalm
<1>1. Init => Calm
  BY InitChain DEF Init, Idle, Calm, Shaped, Settled, Current, WholeWhenCalm, Answered
<1>2. Calm /\ [Next]_vars => Calm'
  BY ChainKept, ShapedKept, SettledKept, CurrentKept, WholeKept DEF Calm
<1>3. Calm => WholeWhenCalm
  BY DEF Calm
<1> QED BY <1>1, <1>2, <1>3, PTL DEF Spec
=============================================================================
