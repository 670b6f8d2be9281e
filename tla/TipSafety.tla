----------------------------- MODULE TipSafety -----------------------------
(***************************************************************************)
(* The gate before an import: consensus/tip_safety/ called by the P2P      *)
(* node's import_block.  The gate keeps a head of its own, compares it     *)
(* with the chain before it judges a candidate and again after an import,  *)
(* while the apply worker moves the chain and other threads do the same.   *)
(* In production a refusal is final for the call (tip_safety_enforce).     *)
(*                                                                         *)
(* The chain's tip is read as a height and then as the block at it.  When  *)
(* the chain only grows, or is cut and grows past that height again, the   *)
(* pair is one that an atomic read in between would have found; when it is *)
(* cut below the height the reading fails.  The finalized block of the     *)
(* gate is never set (advance_finalized has no caller), and the optional   *)
(* weak-subjectivity service is off.                                       *)
(***************************************************************************)
EXTENDS BlockTree, Sequences, SequencesExt

CONSTANTS
  Threads,     \* the event loop, and threads that catch up
  Mine,        \* blocks this node may forge
  WindowMax,   \* TIP_ANCESTRY_WINDOW_MAX
  MaxFaults    \* bound: reorganisations and imports that fail

ASSUME TipSafetyAssumption ==
  /\ NoBlock \notin Threads
  /\ Mine \subseteq Blocks \ {Genesis}
  /\ ParentOf[Genesis] = Genesis
  /\ \A b \in Blocks \ {Genesis} : HeightOf[b] = HeightOf[ParentOf[b]] + 1
  /\ WindowMax \in Nat \ {0}
  /\ MaxFaults \in Nat

VARIABLES
  chain,       \* the stored blocks, genesis first
  reorg,       \* the block a reorganisation has yet to import after its cut
  gate,        \* the service: its head, and the blocks it knows, oldest first
  forged,      \* height of the last block forged here,
  noted,       \*   and as note_local_forge has been told
  th,          \* the calls of import_block and of sync_from_chain
  faults

vars == <<chain, reorg, gate, forged, noted, th, faults>>

Tip == chain[Len(chain)]

\* cand: the block offered; seen: the tip as it was read; after: where the
\* call goes when the gate is in line; calm: history, nothing but this call
\* has moved the chain or the gate since it began.
Free == [pc |-> "idle", cand |-> NoBlock, seen |-> NoBlock, after |-> "idle", calm |-> TRUE]

Init ==
  /\ chain = <<Genesis>>
  /\ reorg = NoBlock
  /\ gate = [head |-> Genesis, window |-> <<Genesis>>]
  /\ forged = 0 /\ noted = 0
  /\ th = [t \in Threads |-> Free]
  /\ faults = 0

\* The step of t to r, which the others notice if it moves chain or gate.
Disturb(t, r) ==
  th' = [u \in Threads |->
           IF u = t THEN r
           ELSE IF th[u].pc \in {"idle", "queued"} THEN th[u]
           ELSE [th[u] EXCEPT !.calm = FALSE]]
Go(t, r) == th' = [th EXCEPT ![t] = r]

\* The gate is in line: the candidate is judged, or the call is over.
Onward(t) ==
  IF th[t].after = "idle" THEN Free
  ELSE [th[t] EXCEPT !.pc = "eval", !.seen = NoBlock, !.after = "idle"]

-----------------------------------------------------------------------------
(* The window, an AncestryWindow, and the policy, ReorgPolicy.evaluate.     *)

\* Nothing is forgotten.
RefreshedUnbounded(w, p) == SelectSeq(w, LAMBDA b : b \notin ToSet(p)) \o p

\* The blocks p are used one after the other; those used last are kept.
Refreshed(w, p) ==
  LET r == SelectSeq(w, LAMBDA b : b \notin ToSet(p)) \o p
  IN  SubSeq(r, Len(r) - Min({WindowMax, Len(r)}) + 1, Len(r))

\* walk_parents: the ancestors of the head up to the first that the window
\* has forgotten, or to the child of c.
Walk(g, c) ==
  LET up[n \in 0 .. HeightOf[g.head]] == IF n = 0 THEN g.head ELSE ParentOf[up[n - 1]]
      known == {n \in DOMAIN up : \A i \in 1 .. n : up[i] \in ToSet(g.window) \ {c}}
  IN  [i \in 1 .. Max(known) |-> up[i]]

\* is_ancestor_of.
Connects(g, c) == ParentOf[Last(<<g.head>> \o Walk(g, c))] = c

\* Only a block below the head is looked for in the window.
Known(g, c) == HeightOf[c] < HeightOf[g.head] /\ c \in ToSet(g.window)

\* A child of the head, a sibling of the head, or an ancestor that the
\* window knows.
Accepts(g, c) ==
  /\ c # g.head
  /\ \/ ParentOf[c] = g.head /\ HeightOf[c] = HeightOf[g.head] + 1
     \/ ParentOf[c] = ParentOf[g.head] /\ HeightOf[c] = HeightOf[g.head]
     \/ Known(g, c) /\ Connects(g, c)

\* The look for it is a use of the blocks that are found on the way.
Looked(g, c) == IF Known(g, c) THEN Refreshed(g.window, <<c>> \o Walk(g, c)) ELSE g.window

-----------------------------------------------------------------------------
(* A call.                                                                 *)

\* The height just forged and the next one are not judged, nor is the one
\* after the next while the queue is busy, with whatever job.
Deferred(c, busy) ==
  \/ noted > 0 /\ HeightOf[c] \in {noted, noted + 1}
  \/ busy /\ HeightOf[c] = HeightOf[Tip] + 2

\* import_block of a block that a peer has sent.
Offer(t, c) ==
  /\ th[t].pc = "idle"
  /\ c # Genesis
  /\ \E busy \in BOOLEAN :
       Go(t, [Free EXCEPT !.pc = IF Deferred(c, busy) THEN "queued" ELSE "look", !.cand = c])
  /\ UNCHANGED <<chain, reorg, gate, forged, noted, faults>>

\* sync_from_chain, as the dispatcher's evidence check calls it.
Resync(t) ==
  /\ th[t].pc = "idle"
  /\ Go(t, [Free EXCEPT !.pc = "sync"])
  /\ UNCHANGED <<chain, reorg, gate, forged, noted, faults>>

\* Only the heights are compared.
DriftedByHeight == HeightOf[gate.head] # HeightOf[Tip]

Drifted == gate.head # Tip

Look(t) ==
  /\ th[t].pc = "look"
  /\ Go(t, IF Drifted THEN [th[t] EXCEPT !.pc = "advance", !.after = "eval"]
           ELSE [th[t] EXCEPT !.pc = "eval"])
  /\ UNCHANGED <<chain, reorg, gate, forged, noted, faults>>

\* tip_state_from_chain.  An advance that cannot read becomes a sync, and a
\* sync that cannot read leaves the gate as it is.
Read(t) ==
  /\ th[t].pc \in {"advance", "sync"}
  /\ \/ Go(t, [th[t] EXCEPT !.pc = IF th[t].pc = "sync" THEN "install" ELSE "bind",
                            !.seen = Tip])
     \/ /\ ~th[t].calm
        /\ Go(t, IF th[t].pc = "sync" THEN Onward(t) ELSE [th[t] EXCEPT !.pc = "sync"])
  /\ UNCHANGED <<chain, reorg, gate, forged, noted, faults>>

\* A head of the same height is taken for the same.
SameHeadByHeight(b) == HeightOf[b] = HeightOf[gate.head]

SameHead(b) == b = gate.head

\* _advance_after_import: nothing to do, one block further, or a rebuild.
Bind(t) ==
  LET new == th[t].seen
      next == Onward(t)
  IN  /\ th[t].pc = "bind"
      /\ IF SameHead(new)
         THEN Go(t, next) /\ UNCHANGED gate
         ELSE IF ParentOf[new] = gate.head
         THEN /\ gate' = [head |-> new, window |-> Refreshed(gate.window, <<new>>)]
              /\ Disturb(t, next)
         ELSE /\ Go(t, [th[t] EXCEPT !.pc = "sync", !.seen = NoBlock])
              /\ UNCHANGED gate
      /\ UNCHANGED <<chain, reorg, forged, noted, faults>>

\* backfill_ancestry_from_chain: from the tip that is stored by now down, as
\* many blocks as the window takes; the tip becomes the oldest.
Backfill == [i \in 1 .. Min({WindowMax, Len(chain)}) |-> chain[Len(chain) + 1 - i]]

\* sync_from_chain: a new service, whose window holds the tip that was read
\* until the backfill pushes it out.
Install(t) ==
  /\ th[t].pc = "install"
  /\ gate' = [head |-> th[t].seen, window |-> Refreshed(<<th[t].seen>>, Backfill)]
  /\ Disturb(t, Onward(t))
  /\ UNCHANGED <<chain, reorg, forged, noted, faults>>

Evaluate(t) ==
  /\ th[t].pc = "eval"
  /\ Go(t, IF Accepts(gate, th[t].cand) THEN [Free EXCEPT !.pc = "queued", !.cand = th[t].cand]
           ELSE Free)
  /\ gate' = [head |-> gate.head, window |-> Looked(gate, th[t].cand)]
  /\ UNCHANGED <<chain, reorg, forged, noted, faults>>

Step(t) == Look(t) \/ Read(t) \/ Bind(t) \/ Install(t) \/ Evaluate(t)

-----------------------------------------------------------------------------
(* The apply worker, which takes no job between the cut and the import of a *)
(* reorganisation.                                                          *)

Fits(b) == b # Genesis /\ ParentOf[b] = Tip

Store(b) == reorg = NoBlock /\ Fits(b) /\ chain' = Append(chain, b)

\* import_block on the chain takes a child of the tip; after it the gate is
\* brought in line.
ApplyImport(t) ==
  /\ th[t].pc = "queued" /\ reorg = NoBlock
  /\ \/ Store(th[t].cand) /\ Disturb(t, [Free EXCEPT !.pc = "advance"])
     \/ ~Fits(th[t].cand) /\ Go(t, Free) /\ UNCHANGED chain
  /\ UNCHANGED <<reorg, gate, forged, noted, faults>>

\* The queue is full, the block is refused, or the wait ends and the block
\* is taken all the same: the gate is not told.
ImportFails(t) ==
  /\ th[t].pc = "queued"
  /\ faults < MaxFaults
  /\ faults' = faults + 1
  /\ \/ Go(t, Free) /\ UNCHANGED chain
     \/ Store(th[t].cand) /\ Disturb(t, Free)
  /\ UNCHANGED <<reorg, gate, forged, noted>>

\* The miner's own block; it is announced, and noted, afterwards.
Forge ==
  \E b \in Mine :
    /\ Store(b)
    /\ forged' = HeightOf[b]
    /\ Disturb(NoBlock, Free)
    /\ UNCHANGED <<reorg, gate, noted, faults>>

NoteLocalForge ==
  /\ noted < forged
  /\ noted' = forged
  /\ UNCHANGED <<chain, reorg, gate, forged, th, faults>>

\* Fork reconcile cuts, without asking the gate and without telling it ...
ReorgCut ==
  \E n \in 1 .. (Len(chain) - 1), b \in Blocks \cup {NoBlock} :
    /\ reorg = NoBlock
    /\ faults < MaxFaults
    /\ faults' = faults + 1
    /\ b \in Blocks => b # Genesis /\ ParentOf[b] = chain[n]
    /\ chain' = SubSeq(chain, 1, n)
    /\ reorg' = b
    /\ Disturb(NoBlock, Free)
    /\ UNCHANGED <<gate, forged, noted>>

\* ... and imports the peer's block in a transaction of its own, when that
\* one is taken.
ReorgImport ==
  /\ reorg # NoBlock
  /\ chain' = Append(chain, reorg)
  /\ reorg' = NoBlock
  /\ Disturb(NoBlock, Free)
  /\ UNCHANGED <<gate, forged, noted, faults>>

Next ==
  \/ \E t \in Threads, c \in Blocks : Offer(t, c)
  \/ \E t \in Threads : Resync(t) \/ Step(t) \/ ApplyImport(t) \/ ImportFails(t)
  \/ Forge
  \/ NoteLocalForge
  \/ ReorgCut
  \/ ReorgImport

Spec == Init /\ [][Next]_vars

\* Threads and the worker go on, and peers send a block again and again.
FairSpec ==
  /\ Spec
  /\ \A t \in Threads : WF_vars(Step(t)) /\ WF_vars(ApplyImport(t))
  /\ WF_vars(ReorgImport)
  /\ \A c \in Blocks \ {Genesis} : SF_vars(\E t \in Threads : Offer(t, c))

-----------------------------------------------------------------------------
(* Properties.                                                             *)

\* The calls have the shape of import_block's steps, and the window never
\* outgrows its capacity nor keeps a block twice, whatever is recorded,
\* rebuilt and looked up (AncestryWindow.record).
TypeOK ==
  /\ chain \in Seq(Blocks) /\ chain # <<>>
  /\ reorg \in Blocks \cup {NoBlock}
  /\ gate.head \in Blocks /\ gate.window \in Seq(Blocks)
  /\ Len(gate.window) <= WindowMax /\ IsInjective(gate.window)
  /\ forged \in Nat /\ noted \in Nat
  /\ th \in [Threads ->
       [pc : {"idle", "look", "advance", "bind", "sync", "install", "eval", "queued"},
        cand : Blocks \cup {NoBlock}, seen : Blocks \cup {NoBlock},
        after : {"idle", "eval"}, calm : BOOLEAN]]
  /\ faults \in 0 .. MaxFaults

\* A block that extends the chain's tip is refused only when the chain or
\* the gate was moved by somebody else while the call judged it: a head left
\* behind by a reorganisation, or by a call that read the tip long ago and
\* installed it since, is never the reason (observe_before_import, "bind to
\* live tip before evaluate").
RefusalHasCause ==
  [][\A t \in Threads :
        th[t].pc = "eval" /\ th'[t].pc = "idle" /\ th[t].calm => ~Fits(th[t].cand)]_vars

\* The gate never shuts the node off: whatever was cut, forged and raced
\* before, a node whose peers go on sending their blocks imports until there
\* is nothing left that extends its tip.
ImportsResume == <>[](\A b \in Blocks : ~Fits(b))

=============================================================================
