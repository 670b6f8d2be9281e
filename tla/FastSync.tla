------------------------------ MODULE FastSync ------------------------------
(***************************************************************************)
(* SyncEngine.fast_sync beside the apply queue.  Its imports go through    *)
(* the queue, but when one of them fails on a fork, PathA rolls back with  *)
(* SyncEngineCatchUpIO.reorg_to_ancestor (sync/catchup/engine_io.py),      *)
(* which calls the blockchain directly, on the thread of the HTTP request  *)
(* that asked for the synchronisation.  The rollback picks the ancestor,   *)
(* reads the finalized floor and only then waits for the chain lock, and   *)
(* the worker may act between any two of these steps.                      *)
(***************************************************************************)
EXTENDS ChainApply

VARIABLE sync   \* the rollback under way: [pc, to, floor]

allVars == <<vars, sync>>

\* floor stands for the height read by reorg_to_ancestor: the checkpoints that
\* were finalized then.
NoSync == [pc |-> "idle", to |-> 0, floor |-> {}]

InitSync == Init /\ sync = NoSync

\* _import_one after a failed import of b, which changed nothing: b's parent is
\* a block of the local chain below the tip, and b itself is not on the chain.
SyncPick(b) ==
  /\ sync.pc = "idle"
  /\ \E i \in 1 .. Len(chain) - 1 :
       /\ chain[i] = ParentOf[b] /\ chain[i + 1] # b
       /\ sync' = [pc |-> "picked", to |-> i - 1, floor |-> {}]
  /\ UNCHANGED vars

\* A faulty variant of SyncFloor that never refuses.
SyncFloorIgnored ==
  /\ sync.pc = "picked"
  /\ sync' = [sync EXCEPT !.pc = "allowed", !.floor = FinalizedBlocks(fin)]
  /\ UNCHANGED vars

\* reorg_to_ancestor before the lock: refuse below the floor.
SyncFloor ==
  /\ sync.pc = "picked"
  /\ sync' = IF BelowFloor(fin, sync.to)
               THEN NoSync
               ELSE [sync EXCEPT !.pc = "allowed", !.floor = FinalizedBlocks(fin)]
  /\ UNCHANGED vars

\* A faulty variant of SyncCut that keeps one block less.
SyncCutShort ==
  /\ sync.pc = "allowed"
  /\ sync' = NoSync
  /\ chain' = IF sync.to < TipHeight THEN SubSeq(chain, 1, sync.to) ELSE chain
  /\ UNCHANGED <<queueVars, proposals, slashed, fin, nActive>>

\* reorg_to_ancestor under the lock; a failed replay rolls back.
SyncCut ==
  /\ sync.pc = "allowed"
  /\ sync' = NoSync
  /\ \/ chain' = IF sync.to < TipHeight THEN SubSeq(chain, 1, sync.to + 1) ELSE chain
     \/ StorageFaults /\ UNCHANGED chain
  /\ UNCHANGED <<queueVars, proposals, slashed, fin, nActive>>

NextSync ==
  \/ Next /\ UNCHANGED sync
  \/ \E b \in Blocks : SyncPick(b)
  \/ SyncFloor
  \/ SyncCut

SyncSpec == InitSync /\ [][NextSync]_allVars

\* What a rollback on a second thread leaves intact: the chain is one linked
\* path, and the queue's jobs are executed at most once and in time.
SurvivesFastSync == Bookkeeping /\ ChainLinked

\* What is finalized when a rollback reads the floor is not cut by it, and
\* nothing else cuts a finalized height: only checkpoints finalized between
\* the read and the lock are exposed.
CutsOnlyUnseen ==
  LET protected == IF sync.pc = "allowed" /\ sync'.pc = "idle"
                     THEN sync.floor
                     ELSE FinalizedBlocks(fin)
  IN  \A c \in protected, i \in 1 .. Len(chain) :
        i <= HeightOf[c] + 1 => i <= Len(chain') /\ chain'[i] = chain[i]
SeenFloorHolds == [][CutsOnlyUnseen]_allVars
=============================================================================
