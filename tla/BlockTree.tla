----------------------------- MODULE BlockTree -----------------------------
(***************************************************************************)
(* The universe of blocks the node can be shown.  A block stands for its   *)
(* hash; the functions give the header fields the chain logic reads        *)
(* (core/blockchain.py, class Block).  Nothing ties HeightOf[b] to         *)
(* HeightOf[ParentOf[b]] + 1: a peer may send a block with a wrong height, *)
(* and refusing it is the code's job.                                      *)
(***************************************************************************)
EXTENDS Naturals

CONSTANTS
  Blocks,    \* every block, genesis included
  Genesis,   \* the genesis block every chain starts from
  ParentOf,  \* Block.parent_hash
  HeightOf,  \* Block.height
  MinerOf,   \* Block.miner
  Miners,    \* the addresses that appear as Block.miner
  NoBlock    \* "no block": None in the code

ASSUME BlockTreeAssumption ==
  /\ Genesis \in Blocks
  /\ NoBlock \notin Blocks
  /\ ParentOf \in [Blocks -> Blocks]
  /\ HeightOf \in [Blocks -> Nat]
  /\ HeightOf[Genesis] = 0
  /\ MinerOf \in [Blocks -> Miners]
=============================================================================
