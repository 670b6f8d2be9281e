----------------------------- MODULE MCFastSync -----------------------------
(***************************************************************************)
(* The tree of MCChainApply with epochs of two blocks and one validator:   *)
(* a2 finalizes height 2, while a rollback towards b1 wants height 0.      *)
(***************************************************************************)
EXTENDS MCChainApply, FastSync

\* One branch that grows, by import and by a forge, and a queued reorg.
Growing == Imports({a1, a2}) \cup Reorgs({0}) \cup {Forge}
=============================================================================
