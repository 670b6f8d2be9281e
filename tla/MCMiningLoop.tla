---- MODULE MCMiningLoop ----
(* Two rivals for a nonce, the next nonce, and another account that pays less. *)
EXTENDS MiningLoop

Tx(a, n, f) == [from |-> a, nonce |-> n, fee |-> f]
MCTxs == {Tx("a", 0, 1), Tx("a", 0, 2), Tx("a", 1, 1), Tx("b", 0, 1)}
====
