-------------------------- MODULE TipSafetyProofs --------------------------
(***************************************************************************)
(* The gate before an import, for every tree of blocks, number of threads  *)
(* and sequence of forges and reorganisations: a block that extends the    *)
(* tip is refused only when somebody else interfered.  What the window has *)
(* forgotten does not matter for it.                                       *)
(***************************************************************************)
EXTENDS TipSafety, SequenceTheorems, TLAPS

Pcs == {"idle", "look", "advance", "bind", "sync", "install", "eval", "queued"}

Call == [pc : Pcs, cand : Blocks \cup {NoBlock}, seen : Blocks \cup {NoBlock},
         after : {"idle", "eval"}, calm : BOOLEAN]

\* What a call that nobody disturbed has in its hands: at the judgement the
\* gate's head is the tip, and before it the block it has read is.
InLine ==
  \A t \in Threads : th[t].calm =>
    /\ th[t].pc = "eval" => gate.head = Tip
    /\ th[t].pc \in {"bind", "install"} => th[t].seen = Tip

\* Every judged call has a candidate.
Judged ==
  \A t \in Threads :
    th[t].pc \in {"look", "eval", "queued"} \/ th[t].after = "eval"
      => th[t].cand \in Blocks

\* What a call is about to bind or install is a block.
SeenIsBlock ==
  \A t \in Threads : th[t].pc \in {"bind", "install"} => th[t].seen \in Blocks

Inv == th \in [Threads -> Call] /\ InLine /\ Judged /\ SeenIsBlock

\* The chain is one of blocks, and so is what a reorganisation has yet to
\* add to it; the gate has a head, whatever its window has forgotten.
Stored ==
  /\ chain \in Seq(Blocks) /\ chain # <<>>
  /\ reorg \in Blocks \cup {NoBlock}
  /\ gate.head \in Blocks

LEMMA FreeIsCall == Free \in Call
  BY DEF Free, Call, Pcs

LEMMA InvInit == Init => Inv
  BY FreeIsCall DEF Init, Inv, InLine, Judged, SeenIsBlock, Free

\* A call that goes on alone, with the chain and the head as they were.
LEMMA GoKeeps ==
  ASSUME Inv, NEW t \in Threads, NEW r \in Call, Go(t, r), UNCHANGED chain, gate'.head = gate.head,
         r.calm => /\ r.pc = "eval" => gate.head = Tip
                   /\ r.pc \in {"bind", "install"} => r.seen = Tip,
         r.pc \in {"look", "eval", "queued"} \/ r.after = "eval" => r.cand \in Blocks,
         r.pc \in {"bind", "install"} => r.seen \in Blocks
  PROVE  Inv'
<1>1. th' \in [Threads -> Call] /\ th' = [th EXCEPT ![t] = r]
  BY DEF Go, Inv
<1>2. Tip' = Tip /\ gate'.head = gate.head
  BY DEF Tip
<1>3. InLine'
  BY <1>1, <1>2 DEF Inv, InLine
<1>4. Judged' /\ SeenIsBlock'
  BY <1>1 DEF Inv, Judged, SeenIsBlock
<1> QED
  BY <1>1, <1>3, <1>4 DEF Inv

\* A call, or the worker, that moves the chain or the gate.
LEMMA DisturbKeeps ==
  ASSUME Inv, NEW t, NEW r \in Call, Disturb(t, r),
         r.calm => /\ r.pc = "eval" => gate'.head = Tip'
                   /\ r.pc \in {"bind", "install"} => r.seen = Tip',
         r.pc \in {"look", "eval", "queued"} \/ r.after = "eval" => r.cand \in Blocks,
         r.pc \in {"bind", "install"} => r.seen \in Blocks
  PROVE  Inv'
<1>1. ASSUME NEW u \in Threads
      PROVE  /\ th'[u] \in Call
             /\ th'[u].calm =>
                  /\ th'[u].pc = "eval" => gate'.head = Tip'
                  /\ th'[u].pc \in {"bind", "install"} => th'[u].seen = Tip'
             /\ th'[u].pc \in {"look", "eval", "queued"} \/ th'[u].after = "eval"
                  => th'[u].cand \in Blocks
             /\ th'[u].pc \in {"bind", "install"} => th'[u].seen \in Blocks
  <2>1. CASE u = t
    BY <2>1 DEF Disturb
  <2>2. CASE u # t /\ th[u].pc \in {"idle", "queued"}
    <3>1. th'[u] = th[u]
      BY <2>2 DEF Disturb
    <3> QED
      BY <2>2, <3>1 DEF Inv, Judged, SeenIsBlock
  <2>3. CASE u # t /\ th[u].pc \notin {"idle", "queued"}
    <3>1. th[u] \in Call
      BY DEF Inv
    <3>2. th'[u] = [th[u] EXCEPT !.calm = FALSE]
      BY <2>3 DEF Disturb
    <3>3. /\ th'[u] \in Call /\ ~th'[u].calm
          /\ th'[u].pc = th[u].pc /\ th'[u].after = th[u].after /\ th'[u].cand = th[u].cand
          /\ th'[u].seen = th[u].seen
      BY <3>1, <3>2 DEF Call
    <3> QED
      BY <3>3 DEF Inv, Judged, SeenIsBlock
  <2> QED
    BY <2>1, <2>2, <2>3
<1>2. th' \in [Threads -> Call]
  BY <1>1 DEF Disturb
<1> QED
  BY <1>1, <1>2 DEF Inv, InLine, Judged, SeenIsBlock

LEMMA OnwardFacts ==
  ASSUME Inv, NEW t \in Threads
  PROVE  /\ Onward(t) \in Call
         /\ Onward(t).pc \in {"idle", "eval"} /\ Onward(t).after = "idle"
         /\ Onward(t).pc = "eval" => /\ Onward(t).cand \in Blocks
                                     /\ Onward(t).calm = th[t].calm
<1>1. th[t] \in Call
  BY DEF Inv
<1>2. CASE th[t].after = "idle"
  BY <1>2, FreeIsCall DEF Onward, Free
<1>3. CASE th[t].after # "idle"
  <2>1. th[t].after = "eval" /\ th[t].cand \in Blocks
    BY <1>1, <1>3 DEF Call, Inv, Judged
  <2>2. Onward(t) = [th[t] EXCEPT !.pc = "eval", !.seen = NoBlock, !.after = "idle"]
    BY <1>3 DEF Onward
  <2> QED
    BY <1>1, <2>1, <2>2 DEF Call, Pcs
<1> QED
  BY <1>2, <1>3

LEMMA TipIsBlock ==
  ASSUME Stored
  PROVE  Tip \in Blocks
  BY DEF Stored, Tip

LEMMA LookKeeps ==
  ASSUME Inv, NEW t \in Threads, Look(t)
  PROVE  Inv'
<1>1. th[t] \in Call /\ th[t].cand \in Blocks
  BY DEF Inv, Judged, Look
<1>2. CASE Drifted
  <2>1. [th[t] EXCEPT !.pc = "advance", !.after = "eval"] \in Call
    BY <1>1 DEF Call, Pcs
  <2> QED
    BY <1>1, <1>2, <2>1, GoKeeps DEF Look, Call
<1>3. CASE ~Drifted
  <2>1. [th[t] EXCEPT !.pc = "eval"] \in Call
    BY <1>1 DEF Call, Pcs
  <2> QED
    BY <1>1, <1>3, <2>1, GoKeeps DEF Look, Call, Drifted
<1> QED
  BY <1>2, <1>3

LEMMA ReadKeeps ==
  ASSUME Inv, Stored, NEW t \in Threads, Read(t)
  PROVE  Inv'
<1>1. th[t] \in Call /\ (th[t].after = "eval" => th[t].cand \in Blocks)
  BY DEF Inv, Judged
<1>2. CASE Go(t, [th[t] EXCEPT !.pc = IF th[t].pc = "sync" THEN "install" ELSE "bind",
                               !.seen = Tip])
  <2> DEFINE r == [th[t] EXCEPT !.pc = IF th[t].pc = "sync" THEN "install" ELSE "bind",
                                !.seen = Tip]
  <2>1. r \in Call /\ r.pc \in {"bind", "install"} /\ r.seen = Tip /\ Tip \in Blocks
    BY <1>1, TipIsBlock DEF Call, Pcs
  <2>2. r.after = th[t].after /\ r.cand = th[t].cand
    BY <1>1 DEF Call
  <2> QED
    BY <1>1, <1>2, <2>1, <2>2, GoKeeps DEF Read
<1>3. CASE ~th[t].calm /\ th[t].pc = "sync" /\ Go(t, Onward(t))
  BY <1>3, OnwardFacts, GoKeeps DEF Read
<1>4. CASE ~th[t].calm /\ th[t].pc # "sync" /\ Go(t, [th[t] EXCEPT !.pc = "sync"])
  <2>1. [th[t] EXCEPT !.pc = "sync"] \in Call
    BY <1>1 DEF Call, Pcs
  <2> QED
    BY <1>1, <1>4, <2>1, GoKeeps DEF Read, Call
<1> QED
  BY <1>2, <1>3, <1>4 DEF Read

LEMMA BindKeeps ==
  ASSUME Inv, NEW t \in Threads, Bind(t)
  PROVE  Inv'
<1>1. /\ th[t] \in Call /\ th[t].seen \in Blocks
      /\ th[t].after = "eval" => th[t].cand \in Blocks
      /\ th[t].calm => th[t].seen = Tip
  BY DEF Inv, InLine, Judged, SeenIsBlock, Bind
<1>2. CASE SameHead(th[t].seen)
  <2>1. Go(t, Onward(t)) /\ UNCHANGED <<chain, gate>>
    BY <1>2 DEF Bind
  <2>2. th[t].calm => gate.head = Tip
    BY <1>1, <1>2 DEF SameHead
  <2> QED
    BY <2>1, <2>2, OnwardFacts, GoKeeps
<1>3. CASE ~SameHead(th[t].seen) /\ ParentOf[th[t].seen] = gate.head
  <2>1. /\ gate'.head = th[t].seen /\ UNCHANGED chain
        /\ Disturb(t, Onward(t))
    BY <1>3 DEF Bind
  <2>2. Tip' = Tip
    BY <2>1 DEF Tip
  <2> QED
    BY <1>1, <2>1, <2>2, OnwardFacts, DisturbKeeps
<1>4. CASE ~SameHead(th[t].seen) /\ ParentOf[th[t].seen] # gate.head
  <2> DEFINE r == [th[t] EXCEPT !.pc = "sync", !.seen = NoBlock]
  <2>1. r \in Call /\ r.pc = "sync" /\ r.after = th[t].after /\ r.cand = th[t].cand
    BY <1>1 DEF Call, Pcs
  <2>2. Go(t, r) /\ UNCHANGED <<chain, gate>>
    BY <1>4 DEF Bind
  <2> QED
    BY <1>1, <2>1, <2>2, GoKeeps
<1> QED
  BY <1>2, <1>3, <1>4

LEMMA InstallKeeps ==
  ASSUME Inv, NEW t \in Threads, Install(t)
  PROVE  Inv'
<1>1. th[t].calm => th[t].seen = Tip
  BY DEF Inv, InLine, Install
<1>2. gate'.head = th[t].seen /\ Disturb(t, Onward(t)) /\ Tip' = Tip
  BY DEF Install, Tip
<1> QED
  BY <1>1, <1>2, OnwardFacts, DisturbKeeps

LEMMA EvaluateKeeps ==
  ASSUME Inv, NEW t \in Threads, Evaluate(t)
  PROVE  Inv'
<1>1. th[t].cand \in Blocks /\ gate'.head = gate.head
  BY DEF Inv, Judged, Evaluate
<1>2. CASE Accepts(gate, th[t].cand)
  <2>1. [Free EXCEPT !.pc = "queued", !.cand = th[t].cand] \in Call
    BY <1>1 DEF Free, Call, Pcs
  <2> QED
    BY <1>1, <1>2, <2>1, GoKeeps DEF Evaluate, Free
<1>3. CASE ~Accepts(gate, th[t].cand)
  BY <1>3, FreeIsCall, GoKeeps DEF Evaluate, Free
<1> QED
  BY <1>2, <1>3

LEMMA CallStep ==
  ASSUME Inv, Stored, [Next]_vars
  PROVE  Inv'
<1>1. ASSUME NEW t \in Threads, NEW c \in Blocks, Offer(t, c) PROVE Inv'
  <2>1. PICK busy \in BOOLEAN :
          Go(t, [Free EXCEPT !.pc = IF Deferred(c, busy) THEN "queued" ELSE "look", !.cand = c])
    BY <1>1 DEF Offer
  <2>2. [Free EXCEPT !.pc = IF Deferred(c, busy) THEN "queued" ELSE "look", !.cand = c] \in Call
    BY DEF Free, Call, Pcs
  <2> QED
    BY <1>1, <2>1, <2>2, GoKeeps DEF Offer, Free
<1>2. ASSUME NEW t \in Threads, Resync(t) PROVE Inv'
  <2>1. [Free EXCEPT !.pc = "sync"] \in Call
    BY DEF Free, Call, Pcs
  <2> QED
    BY <1>2, <2>1, GoKeeps DEF Resync, Free
<1>3. ASSUME NEW t \in Threads, Step(t) PROVE Inv'
  BY <1>3, LookKeeps, ReadKeeps, BindKeeps, InstallKeeps, EvaluateKeeps DEF Step
<1>4. ASSUME NEW t \in Threads, ApplyImport(t) PROVE Inv'
  <2>1. CASE Disturb(t, [Free EXCEPT !.pc = "advance"])
    <3>1. [Free EXCEPT !.pc = "advance"] \in Call
      BY DEF Free, Call, Pcs
    <3> QED
      BY <2>1, <3>1, DisturbKeeps DEF Free
  <2>2. CASE Go(t, Free) /\ UNCHANGED chain
    BY <1>4, <2>2, FreeIsCall, GoKeeps DEF ApplyImport, Free
  <2> QED
    BY <1>4, <2>1, <2>2 DEF ApplyImport
<1>5. ASSUME NEW t \in Threads, ImportFails(t) PROVE Inv'
  <2>1. CASE Go(t, Free) /\ UNCHANGED chain
    BY <1>5, <2>1, FreeIsCall, GoKeeps DEF ImportFails, Free
  <2>2. CASE Disturb(t, Free)
    BY <2>2, FreeIsCall, DisturbKeeps DEF Free
  <2> QED
    BY <1>5, <2>1, <2>2 DEF ImportFails
<1>6. CASE Forge
  BY <1>6, FreeIsCall, DisturbKeeps DEF Forge, Free
<1>7. CASE ReorgCut \/ ReorgImport
  BY <1>7, FreeIsCall, DisturbKeeps DEF ReorgCut, ReorgImport, Free
<1>8. CASE NoteLocalForge \/ UNCHANGED vars
  BY <1>8 DEF NoteLocalForge, vars, Inv, InLine, Judged, SeenIsBlock, Tip
<1> QED
  BY <1>1, <1>2, <1>3, <1>4, <1>5, <1>6, <1>7, <1>8 DEF Next

LEMMA StoredInit == Init => Stored
  BY BlockTreeAssumption, TipSafetyAssumption DEF Init, Stored

LEMMA AppendKeeps ==
  ASSUME NEW s \in Seq(Blocks), NEW b \in Blocks
  PROVE  Append(s, b) \in Seq(Blocks) /\ Append(s, b) # <<>>
<1>1. Append(s, b) \in Seq(Blocks) /\ Len(Append(s, b)) = Len(s) + 1
  BY AppendProperties
<1> QED
  BY <1>1, EmptySeq, LenProperties

LEMMA StoredStep ==
  ASSUME Inv, Stored, [Next]_vars
  PROVE  Stored'
<1>1. ASSUME NEW t \in Threads, NEW c \in Blocks, Offer(t, c) PROVE Stored'
  BY <1>1 DEF Offer, Stored
<1>2. ASSUME NEW t \in Threads, Resync(t) \/ Look(t) \/ Read(t) \/ Evaluate(t) PROVE Stored'
  BY <1>2 DEF Resync, Look, Read, Evaluate, Stored
<1>3. ASSUME NEW t \in Threads, Bind(t) \/ Install(t) PROVE Stored'
  <2>1. th[t].seen \in Blocks
    BY <1>3 DEF Inv, SeenIsBlock, Bind, Install
  <2>2. gate' = gate \/ gate'.head = th[t].seen
    BY <1>3 DEF Bind, Install
  <2>3. UNCHANGED <<chain, reorg>>
    BY <1>3 DEF Bind, Install
  <2> QED
    BY <2>1, <2>2, <2>3 DEF Stored
<1>4. ASSUME NEW t \in Threads, ApplyImport(t) \/ ImportFails(t) PROVE Stored'
  <2>1. th[t].cand \in Blocks
    BY <1>4 DEF Inv, Judged, ApplyImport, ImportFails
  <2>2. UNCHANGED chain \/ chain' = Append(chain, th[t].cand)
    BY <1>4 DEF ApplyImport, ImportFails, Store
  <2>3. chain' \in Seq(Blocks) /\ chain' # <<>>
    BY <2>1, <2>2, AppendKeeps DEF Stored
  <2>4. UNCHANGED <<gate, reorg>>
    BY <1>4 DEF ApplyImport, ImportFails
  <2> QED
    BY <2>3, <2>4 DEF Stored
<1>5. CASE Forge
  <2>1. PICK b \in Mine : chain' = Append(chain, b) /\ UNCHANGED <<gate, reorg>>
    BY <1>5 DEF Forge, Store
  <2> QED
    BY <2>1, AppendKeeps, TipSafetyAssumption DEF Stored
<1>6. CASE NoteLocalForge \/ UNCHANGED vars
  BY <1>6 DEF NoteLocalForge, vars, Stored
<1>7. CASE ReorgCut
  <2>1. PICK n \in 1 .. (Len(chain) - 1), b \in Blocks \cup {NoBlock} :
          chain' = SubSeq(chain, 1, n) /\ reorg' = b /\ UNCHANGED gate
    BY <1>7 DEF ReorgCut
  <2>2. chain \in Seq(Blocks) /\ n \in Nat /\ 1 <= n /\ n <= Len(chain)
    BY <2>1, LenProperties DEF Stored
  <2>3. \A i \in 1 .. n : chain[i] \in Blocks
    BY <2>2
  <2>4. SubSeq(chain, 1, n) \in Seq(Blocks) /\ Len(SubSeq(chain, 1, n)) = n
    BY <2>2, <2>3, SubSeqProperties
  <2> QED
    BY <2>1, <2>2, <2>4, EmptySeq DEF Stored
<1>8. CASE ReorgImport
  BY <1>8, AppendKeeps DEF ReorgImport, Stored
<1> QED
  BY <1>1, <1>2, <1>3, <1>4, <1>5, <1>6, <1>7, <1>8 DEF Next, Step

\* Only its own judgement takes a call away from "eval".
LEMMA OtherSteps ==
  ASSUME Inv, [Next]_vars, NEW t \in Threads, th[t].pc = "eval", Accepts(gate, th[t].cand)
  PROVE  th'[t].pc # "idle"
<1>0. th \in [Threads -> Call] /\ th[t] \in Call
  BY DEF Inv
<1>1. ASSUME NEW u, NEW r, u # t, Go(u, r) PROVE th'[t].pc # "idle"
  BY <1>0, <1>1 DEF Go
<1>2. ASSUME NEW u, NEW r, u # t, Disturb(u, r) PROVE th'[t].pc # "idle"
  <2>1. th'[t] = [th[t] EXCEPT !.calm = FALSE]
    BY <1>2 DEF Disturb
  <2> QED
    BY <1>0, <2>1 DEF Call
<1>3. ASSUME NEW u \in Threads, u # t,
             Step(u) \/ Resync(u) \/ ApplyImport(u) \/ ImportFails(u)
      PROVE  th'[t].pc # "idle"
  BY <1>1, <1>2, <1>3 DEF Step, Look, Read, Bind, Install, Evaluate, Resync, ApplyImport, ImportFails
<1>4. ASSUME NEW u \in Threads, NEW c \in Blocks, Offer(u, c) PROVE th'[t].pc # "idle"
  <2>1. u # t
    BY <1>4 DEF Offer
  <2> QED
    BY <1>1, <1>4, <2>1 DEF Offer
<1>5. CASE Step(t) \/ Resync(t) \/ ApplyImport(t) \/ ImportFails(t)
  <2>1. Evaluate(t)
    BY <1>5 DEF Step, Look, Read, Bind, Install, Resync, ApplyImport, ImportFails
  <2>2. th' = [th EXCEPT ![t] = [Free EXCEPT !.pc = "queued", !.cand = th[t].cand]]
    BY <2>1 DEF Evaluate, Go
  <2> QED
    BY <1>0, <2>2 DEF Free
<1>6. CASE Forge \/ ReorgCut \/ ReorgImport
  <2>1. Disturb(NoBlock, Free)
    BY <1>6 DEF Forge, ReorgCut, ReorgImport
  <2>2. CASE NoBlock # t
    BY <1>2, <2>1, <2>2
  <2> QED
    BY <2>2, TipSafetyAssumption
<1>7. CASE NoteLocalForge \/ UNCHANGED vars
  BY <1>7 DEF NoteLocalForge, vars
<1> QED
  BY <1>3, <1>4, <1>5, <1>6, <1>7 DEF Next

LEMMA InLineAlways == Spec => [](Inv /\ Stored)
<1>1. Init => Inv /\ Stored
  BY InvInit, StoredInit
<1>2. (Inv /\ Stored) /\ [Next]_vars => (Inv /\ Stored)'
  BY CallStep, StoredStep
<1> QED
  BY <1>1, <1>2, PTL DEF Spec

\* A refusal of a block that extends the tip always has a cause outside the
\* call: the gate that observe_before_import binds to the live tip accepts
\* every child of it.
THEOREM RefusalsCaused == Spec => RefusalHasCause
<1>1. ASSUME Inv, Stored, [Next]_vars, NEW t \in Threads,
             th[t].pc = "eval", th'[t].pc = "idle", th[t].calm, Fits(th[t].cand)
      PROVE  FALSE
  <2>1. gate.head = Tip /\ th[t].cand \in Blocks
    BY <1>1 DEF Inv, InLine, Judged
  <2>2. Accepts(gate, th[t].cand)
    BY <1>1, <2>1, TipIsBlock, BlockTreeAssumption, TipSafetyAssumption DEF Accepts, Fits
  <2>3. th'[t].pc # "idle"
    BY <1>1, <2>2, OtherSteps
  <2> QED
    BY <1>1, <2>3
<1>2. (Inv /\ Stored) /\ [Next]_vars =>
        \A t \in Threads :
          th[t].pc = "eval" /\ th'[t].pc = "idle" /\ th[t].calm => ~Fits(th[t].cand)
  BY <1>1
<1> QED
  BY <1>2, InLineAlways, PTL DEF Spec, RefusalHasCause
=============================================================================
