------------------------------- MODULE Chain --------------------------------
(***************************************************************************)
(* The daemon's view of the chain, as the explorer reads it over RPC: a    *)
(* main chain that grows and reorganises, and a pool of transactions that  *)
(* are not in it.  The daemon is not part of the repository; what it does  *)
(* here is what rpc_source.rs and types.rs rely on:                        *)
(*                                                                         *)
(*   - a reorganisation replaces at most MaxReorg blocks at the tip, in    *)
(*     one step, by a branch that is at least as long;                     *)
(*   - `depth` is the number of blocks above a block (0 for the tip);      *)
(*   - a transaction's `confirmations` is the chain height minus the       *)
(*     height of its block, one more than that block's depth;              *)
(*   - a transaction of an abandoned block returns to the pool unless the  *)
(*     new branch holds it.                                                *)
(***************************************************************************)
EXTENDS Integers

CONSTANTS
  Branches,    \* labels telling two blocks at one height apart
  Txs,         \* user transactions
  MaxReorg,    \* the deepest reorganisation, in blocks replaced
  InitHeight,  \* blocks in the chain when the explorer starts
  MaxHeight    \* bound: blocks in the chain

ASSUME ReorgAssumption == MaxReorg \in Nat
ASSUME HeightAssumption ==
  InitHeight \in Nat \ {0} /\ MaxHeight \in Nat /\ InitHeight <= MaxHeight

VARIABLES
  height,  \* the number of blocks: the tip is at height - 1
  chain,   \* 0..height-1 -> Block
  pool     \* transactions waiting for a block

chainVars == <<height, chain, pool>>

\* A block's identity is its height together with this content, so two
\* blocks with the same hash are the same block.
Block == [branch : Branches, txs : SUBSET Txs]

ChainTypeOK ==
  /\ height \in Nat \ {0}
  /\ chain \in [0..(height - 1) -> Block]
  /\ pool \subseteq Txs

ChainInit ==
  /\ height = InitHeight
  /\ \E b \in Branches : chain = [h \in 0..(InitHeight - 1) |-> [branch |-> b, txs |-> {}]]
  /\ pool = {}

TxsFrom(c, lo, hi) == UNION {c[h].txs : h \in lo..hi}

Mined == TxsFrom(chain, 0, height - 1)

\* The height of the block that holds t.
HeightOf(t) == CHOOSE h \in 0..(height - 1) : t \in chain[h].txs

\* Replace the blocks above `base` by the blocks of `new`, which hold
\* transactions that were waiting or were in the blocks replaced, each once.
Extend(base, n, new) ==
  LET avail == pool \cup TxsFrom(chain, base, height - 1)
      size  == base + n
      next  == [h \in 0..(size - 1) |-> IF h < base THEN chain[h] ELSE new[h - base]]
  IN  /\ size <= MaxHeight
      /\ \A i \in 0..(n - 1) : new[i].txs \subseteq avail
      /\ \A i, j \in 0..(n - 1) : i # j => new[i].txs \cap new[j].txs = {}
      /\ height' = size
      /\ chain' = next
      /\ pool' = avail \ TxsFrom(new, 0, n - 1)

Mine ==
  \E b \in Block : Extend(height, 1, [i \in 0..0 |-> b])

Reorg ==
  \E popped \in 1..MaxReorg, more \in 0..1 :
    /\ popped < height
    /\ \E new \in [0..(popped + more - 1) -> Block] :
         /\ new[0] # chain[height - popped]
         /\ Extend(height - popped, popped + more, new)

Relay(t) ==
  /\ t \notin pool \cup Mined
  /\ pool' = pool \cup {t}
  /\ UNCHANGED <<height, chain>>

ChainNext == Mine \/ Reorg \/ \E t \in Txs : Relay(t)

Depth(h) == height - 1 - h

Confirmations(h) == height - h
=============================================================================
