----------------------------- MODULE TipLedger -----------------------------
(***************************************************************************)
(* What the rest of the node may rely on about the canonical chain: it is  *)
(* one hash-linked sequence that starts at genesis, changes only by        *)
(* gaining one child of its last block or by losing a suffix, and never    *)
(* loses a block at or below a sealed (finalized) height.                  *)
(***************************************************************************)
EXTENDS BlockTree, Sequences

VARIABLES
  ledger,   \* the canonical chain, ledger[h + 1] is the block at height h
  sealed    \* heights that have been finalized

vars == <<ledger, sealed>>

Init ==
  /\ ledger = <<Genesis>>
  /\ sealed = {}

\* One more block on top of the last one; extending may seal heights that the
\* ledger has reached.
Extend(b) ==
  /\ ParentOf[b] = ledger[Len(ledger)]
  /\ HeightOf[b] = Len(ledger)
  /\ ledger' = Append(ledger, b)
  /\ sealed \subseteq sealed'
  /\ \A s \in sealed' : s <= HeightOf[b]

\* Drop every block above height h; a sealed height is never above h.
Rollback(h) ==
  /\ \A s \in sealed : s <= h
  /\ ledger' = SubSeq(ledger, 1, h + 1)
  /\ UNCHANGED sealed

Next ==
  \/ \E b \in Blocks : Extend(b)
  \/ \E h \in 0 .. Len(ledger) - 2 : Rollback(h)

Spec == Init /\ [][Next]_vars
=============================================================================
