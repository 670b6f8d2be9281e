---------------------------- MODULE MCBlockchain ----------------------------
(***************************************************************************)
(* A small instance of Blockchain with epochs of two blocks: epoch 0 is    *)
(* height 1, epoch 1 heights 2 and 3, epoch 2 height 4.  Miner me has two  *)
(* blocks at height 1; bad fails execution and gap is a child of a1 that   *)
(* claims height 3.                                                        *)
(*                                                                         *)
(*   genesis -- a1 (me) -- a2 (p) -- a3 (p) -- a4 (me)                     *)
(*          \         \         \-- bad (p)                                *)
(*           b1 (me)   \-- c2 (q) -- c3 (q) -- c4 (q)                      *)
(*                      \-- gap (p)                                        *)
(***************************************************************************)
EXTENDS Blockchain

CONSTANTS me, p, q, root, a1, a2, a3, a4, b1, c2, c3, c4, gap, bad, none

MCBlocks == {root, a1, a2, a3, a4, b1, c2, c3, c4, gap, bad}
MCMiners == {me, p, q}
MCParentOf ==
  [b \in MCBlocks |-> CASE b \in {a2, c2, gap} -> a1
                        [] b \in {a3, bad} -> a2 [] b = a4 -> a3
                        [] b = c3 -> c2 [] b = c4 -> c3
                        [] OTHER -> root]
MCHeightOf ==
  [b \in MCBlocks |-> CASE b = root -> 0 [] b \in {a1, b1} -> 1
                        [] b \in {a2, c2} -> 2 [] b \in {a4, c4} -> 4
                        [] OTHER -> 3]
MCMinerOf ==
  [b \in MCBlocks |-> CASE b \in {a1, b1, a4} -> me [] b \in {c2, c3, c4} -> q
                        [] OTHER -> p]
MCBadBlocks == {bad}
=============================================================================
