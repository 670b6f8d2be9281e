---------------------------- MODULE MCChainApply ----------------------------
(***************************************************************************)
(* Small instances of ChainApply.  The tree has two branches: the local    *)
(* miner "me" is the author of both blocks at height 1 (it mined, was      *)
(* reorganised and mined again), and "bad" fails execution.                *)
(*                                                                         *)
(*            /-- a1 (me) -- a2 (p)                                        *)
(*   genesis <--- b1 (me) -- b2 (me)                                       *)
(*            \-- bad (p)                                                  *)
(***************************************************************************)
EXTENDS ChainApply

CONSTANTS me, p, root, a1, a2, b1, b2, bad, none

MCBlocks == {root, a1, a2, b1, b2, bad}
MCMiners == {me, p}
MCParentOf ==
  [b \in MCBlocks |-> CASE b = a2 -> a1 [] b = b2 -> b1 [] OTHER -> root]
MCHeightOf ==
  [b \in MCBlocks |-> CASE b = root -> 0 [] b \in {a1, b1, bad} -> 1
                        [] OTHER -> 2]
MCMinerOf ==
  [b \in MCBlocks |-> IF b \in {a1, b1, b2} THEN me ELSE p]
MCBadBlocks == {bad}

Req(kind, b, h) == [kind |-> kind, block |-> b, to |-> h]

Imports(bs) == {Req("IMPORT", b, 0) : b \in bs}
Replacements(hs, bs) == {Req("REORG_AND_IMPORT", b, h) : h \in hs, b \in bs}
Reorgs(hs) == {Req("REORG", none, h) : h \in hs}
Forge == Req("FORGE_AND_APPLY", none, 0)

\* Every lane; ADD of a2 is misplaced unless a1 was imported before.
AllLanes ==
  Imports({a1, bad}) \cup Replacements({0}, {b1}) \cup Reorgs({0})
  \cup {Forge, Req("ADD", a2, 0)}

\* Two racing lanes for the liveness properties.
FewLanes == Imports({a1}) \cup Reorgs({0})
=============================================================================
