---------------------------- MODULE ChainProofs -----------------------------
(***************************************************************************)
(* What the caches rely on of the chain: it never shortens, a step never   *)
(* changes a block with MaxReorg blocks or more above it, and a transaction*)
(* is in one block at most, and then not in the pool.                      *)
(***************************************************************************)
EXTENDS Chain, TLAPS

USE ReorgAssumption, HeightAssumption

\* Extending the chain at or above every reorganisable block keeps the types.
LEMMA ExtendTypes ==
  ASSUME ChainTypeOK, NEW base \in 1..height, NEW n \in Nat \ {0},
         NEW new \in [0..(n - 1) -> Block], Extend(base, n, new)
  PROVE  /\ ChainTypeOK'
         /\ height' = base + n
         /\ \A h \in 0..(base - 1) : chain'[h] = chain[h]
<1>1. height' = base + n /\ height' \in Nat \ {0}
  BY DEF Extend, ChainTypeOK
<1>2. \A h \in 0..(base - 1) : chain'[h] = chain[h]
  BY <1>1 DEF Extend, ChainTypeOK
<1>3. chain' \in [0..(height' - 1) -> Block]
  <2>1. \A h \in 0..(height' - 1) : h >= base => h - base \in 0..(n - 1)
    BY <1>1 DEF ChainTypeOK
  <2>2. \A h \in 0..(height' - 1) :
          (IF h < base THEN chain[h] ELSE new[h - base]) \in Block
    BY <1>1, <2>1 DEF ChainTypeOK
  <2>3. chain' = [h \in 0..(height' - 1) |-> IF h < base THEN chain[h] ELSE new[h - base]]
    BY <1>1 DEF Extend
  <2> QED BY <2>2, <2>3
<1>4. pool' \subseteq Txs
  <2>1. \A h \in base..(height - 1) : chain[h].txs \subseteq Txs
    BY DEF ChainTypeOK, Block
  <2>2. TxsFrom(chain, base, height - 1) \subseteq Txs
    BY <2>1 DEF TxsFrom
  <2> QED BY <2>2 DEF Extend, ChainTypeOK
<1> QED BY <1>1, <1>2, <1>3, <1>4 DEF ChainTypeOK

\* A block that is mined leaves every other where it is.
LEMMA MineKeeps ==
  ASSUME ChainTypeOK, Mine
  PROVE  /\ ChainTypeOK'
         /\ height' = height + 1
         /\ \A h \in 0..(height - 1) : chain'[h] = chain[h]
<1>1. PICK b \in Block : Extend(height, 1, [i \in 0..0 |-> b])
  BY DEF Mine
<1> DEFINE one == [i \in 0..0 |-> b]
<1>2. one \in [0..(1 - 1) -> Block] /\ Extend(height, 1, one)
  BY <1>1
<1>3. height \in 1..height /\ 1 \in Nat \ {0}
  BY DEF ChainTypeOK
<1> HIDE DEF one
<1> QED BY <1>2, <1>3, ExtendTypes

\* The chain never shortens and never changes more than MaxReorg blocks.
LEMMA ChainSteps ==
  ASSUME ChainTypeOK, ChainNext
  PROVE  /\ ChainTypeOK'
         /\ height' >= height
         /\ \A h \in 0..(height - 1 - MaxReorg) : chain'[h] = chain[h]
<1>1. CASE Mine
  BY <1>1, MineKeeps DEF ChainTypeOK
<1>2. CASE Reorg
  <2>1. PICK popped \in 1..MaxReorg, more \in 0..1 :
          /\ popped < height
          /\ \E new \in [0..(popped + more - 1) -> Block] :
               Extend(height - popped, popped + more, new)
    BY <1>2 DEF Reorg
  <2>2. PICK new \in [0..(popped + more - 1) -> Block] :
          Extend(height - popped, popped + more, new)
    BY <2>1
  <2>3. height - popped \in 1..height /\ popped + more \in Nat \ {0}
    BY <2>1 DEF ChainTypeOK
  <2>4. /\ ChainTypeOK' /\ height' = height - popped + (popped + more)
        /\ \A h \in 0..(height - popped - 1) : chain'[h] = chain[h]
    BY <2>2, <2>3, ExtendTypes
  <2> QED BY <2>1, <2>3, <2>4 DEF ChainTypeOK
<1>3. CASE \E t \in Txs : Relay(t)
  BY <1>3 DEF Relay, ChainTypeOK
<1> QED BY <1>1, <1>2, <1>3 DEF ChainNext

\* The reason it is an invariant that no two blocks share a transaction is that
\* a branch takes its transactions from the pool and from the blocks it replaces.
Apart ==
  /\ \A g, h \in 0..(height - 1) : g # h => chain[g].txs \cap chain[h].txs = {}
  /\ \A h \in 0..(height - 1) : chain[h].txs \cap pool = {}

LEMMA ExtendApart ==
  ASSUME ChainTypeOK, Apart, NEW base \in 1..height, NEW n \in Nat \ {0},
         NEW new \in [0..(n - 1) -> Block], Extend(base, n, new)
  PROVE  Apart'
<1> DEFINE avail == pool \cup TxsFrom(chain, base, height - 1)
<1>1. /\ \A i \in 0..(n - 1) : new[i].txs \subseteq avail
      /\ \A i, j \in 0..(n - 1) : i # j => new[i].txs \cap new[j].txs = {}
      /\ height' = base + n
      /\ chain' = [h \in 0..(base + n - 1) |-> IF h < base THEN chain[h] ELSE new[h - base]]
      /\ pool' = avail \ TxsFrom(new, 0, n - 1)
  BY DEF Extend
<1>2. \A h \in 0..(base - 1) : chain[h].txs \cap avail = {}
  BY DEF Apart, ChainTypeOK, TxsFrom
<1>3. \A h \in 0..(height' - 1) :
        /\ h < base => h \in 0..(base - 1) /\ chain'[h].txs = chain[h].txs
        /\ h >= base => h - base \in 0..(n - 1) /\ chain'[h].txs = new[h - base].txs
  BY <1>1 DEF ChainTypeOK
<1>4. ASSUME NEW g \in 0..(height' - 1), NEW h \in 0..(height' - 1), g < h
      PROVE  chain'[g].txs \cap chain'[h].txs = {}
  <2>1. CASE h < base
    BY <1>3, <1>4, <2>1 DEF Apart, ChainTypeOK
  <2>2. CASE g < base /\ h >= base
    BY <1>1, <1>2, <1>3, <2>2
  <2>3. CASE g >= base /\ h >= base
    <3>1. g - base # h - base
      BY <1>4
    <3> QED BY <1>1, <1>3, <2>3, <3>1
  <2> QED BY <1>4, <2>1, <2>2, <2>3 DEF ChainTypeOK
<1>5. ASSUME NEW h \in 0..(height' - 1)
      PROVE  chain'[h].txs \cap pool' = {}
  <2>1. CASE h < base
    BY <1>1, <1>2, <1>3, <2>1
  <2>2. CASE h >= base
    BY <1>1, <1>3, <2>2 DEF TxsFrom
  <2> QED BY <2>1, <2>2 DEF ChainTypeOK
<1>6. ASSUME NEW g \in 0..(height' - 1), NEW h \in 0..(height' - 1), g # h
      PROVE  chain'[g].txs \cap chain'[h].txs = {}
  <2>1. g < h \/ h < g
    BY <1>1, <1>6 DEF ChainTypeOK
  <2>2. chain'[g].txs \cap chain'[h].txs = chain'[h].txs \cap chain'[g].txs
    OBVIOUS
  <2> QED BY <1>4, <2>1, <2>2
<1> QED BY <1>5, <1>6 DEF Apart

LEMMA ApartSteps ==
  ASSUME ChainTypeOK, Apart, ChainNext
  PROVE  Apart'
<1>1. CASE Mine
  <2>1. PICK b \in Block : Extend(height, 1, [i \in 0..0 |-> b])
    BY <1>1 DEF Mine
  <2> DEFINE one == [i \in 0..0 |-> b]
  <2>2. one \in [0..(1 - 1) -> Block] /\ Extend(height, 1, one)
    BY <2>1
  <2>3. height \in 1..height /\ 1 \in Nat \ {0}
    BY DEF ChainTypeOK
  <2> HIDE DEF one
  <2> QED BY <2>2, <2>3, ExtendApart
<1>2. CASE Reorg
  <2>1. PICK popped \in 1..MaxReorg, more \in 0..1 :
          /\ popped < height
          /\ \E new \in [0..(popped + more - 1) -> Block] :
               Extend(height - popped, popped + more, new)
    BY <1>2 DEF Reorg
  <2>2. height - popped \in 1..height /\ popped + more \in Nat \ {0}
    BY <2>1 DEF ChainTypeOK
  <2> QED BY <2>1, <2>2, ExtendApart
<1>3. CASE \E t \in Txs : Relay(t)
  BY <1>3 DEF Relay, Apart, Mined, TxsFrom
<1> QED BY <1>1, <1>2, <1>3 DEF ChainNext

LEMMA InitChain == ChainInit => ChainTypeOK /\ Apart
  BY DEF ChainInit, ChainTypeOK, Apart, Block
=============================================================================
