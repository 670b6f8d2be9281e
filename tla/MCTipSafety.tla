---- MODULE MCTipSafety ----
(* A fork at the first height, of which this node may forge one side. *)
EXTENDS TipSafety

MCBlocks == {"g", "a1", "b1", "b2"}
MCParentOf ==
  [b \in MCBlocks |-> IF b = "b2" THEN "b1" ELSE "g"]
MCHeightOf ==
  [b \in MCBlocks |-> CASE b = "g" -> 0 [] b \in {"a1", "b1"} -> 1 [] OTHER -> 2]
MCMinerOf == [b \in MCBlocks |-> "m"]
====
