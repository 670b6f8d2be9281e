----------------------------- MODULE Blockchain -----------------------------
(***************************************************************************)
(* core/blockchain.py: the canonical chain and the operations that change  *)
(* it, with the consensus state they touch under the chain lock: the       *)
(* proposals remembered by consensus/slashing.py and the finality engine   *)
(* that the "block.new" event drives (consensus/adapter.py).               *)
(*                                                                         *)
(* Each operation is an action with its Boolean result as a parameter.     *)
(* storage.atomic() makes every one of them all-or-nothing on the chain;   *)
(* the proposals are plain memory and are not rolled back with it.         *)
(*                                                                         *)
(* Genesis bootstrap (the height-0 branch of import_block) is outside the  *)
(* model: every chain starts at Genesis.                                   *)
(***************************************************************************)
EXTENDS FinalityEngine, Sequences

CONSTANTS
  BadBlocks,      \* blocks that fail authorisation, signature, execution,
                  \* state-root or hash checks
  StorageFaults,  \* may persisting or replaying fail with a StorageError?
  ActiveCounts    \* the sizes the active validator set may take

ASSUME BlockchainAssumption ==
  /\ BadBlocks \subseteq Blocks
  /\ StorageFaults \in BOOLEAN
  /\ ActiveCounts \subseteq Nat

VARIABLES
  chain,      \* canonical chain, chain[h + 1] is the block at height h
  proposals,  \* SlashingEngine.proposals: blocks whose proposal is recorded
  slashed,    \* SlashingEngine.slashed
  fin,        \* the finality engine
  nActive     \* FinalityEngine.active_validator_count

chainVars == <<chain, proposals, slashed, fin, nActive>>

Tip == chain[Len(chain)]
TipHeight == Len(chain) - 1

InitChain ==
  /\ chain = <<Genesis>>
  /\ proposals = {}
  /\ slashed = {}
  /\ fin = InitFinality
  /\ nActive \in ActiveCounts

\* A faulty variant of ValidStructure that does not compare the parent hash.
ValidStructureHeightOnly(b) == HeightOf[b] = TipHeight + 1

\* _validate_block_structure, after the "height already stored" test of
\* add_block.
ValidStructure(b) ==
  /\ HeightOf[b] = TipHeight + 1
  /\ ParentOf[b] = Tip

\* _verify_block_proposer: catch-up imports ignore the local slash penalty.
ValidProposer(b, preserve) == preserve \/ MinerOf[b] \notin slashed

Acceptable(b, preserve) ==
  /\ ValidStructure(b)
  /\ ValidProposer(b, preserve)
  /\ b \notin BadBlocks

\* A faulty variant of Conflicting that takes a retry for a second proposal.
ConflictingOnRetry(b) ==
  \E p \in proposals : MinerOf[p] = MinerOf[b] /\ HeightOf[p] = HeightOf[b]

\* record_proposal finds another hash of this miner at this height.
Conflicting(b) ==
  \E p \in proposals \ {b} :
    MinerOf[p] = MinerOf[b] /\ HeightOf[p] = HeightOf[b]

\* process_block_finality, from the block.new event of an appended block.
ProcessBlockFinality(b) == fin' = ProcessBlock(fin, b, nActive)

\* _persist_canonical_via_storage: all or nothing.
Persist(b, result) ==
  \/ /\ chain' = Append(chain, b)
     /\ ProcessBlockFinality(b)
     /\ result = TRUE
  \/ /\ StorageFaults
     /\ result = FALSE
     /\ UNCHANGED <<chain, fin>>

\* A faulty variant of RecordAndPersist that swallows the StorageError.
RecordAndPersistUnchecked(b, result) ==
  /\ ~Conflicting(b)
  /\ proposals' = proposals \cup {b}
  /\ \E stored \in BOOLEAN : Persist(b, stored)
  /\ result = TRUE
  /\ UNCHANGED <<slashed, nActive>>

\* record_proposal and then the persist step; a conflicting proposal slashes
\* its miner and fails the block, also when the miner is slashed already.
RecordAndPersist(b, result) ==
  \/ /\ Conflicting(b)
     /\ slashed' = slashed \cup {MinerOf[b]}
     /\ result = FALSE
     /\ UNCHANGED <<chain, proposals, fin, nActive>>
  \/ /\ ~Conflicting(b)
     /\ proposals' = proposals \cup {b}
     /\ Persist(b, result)
     /\ UNCHANGED <<slashed, nActive>>

AddBlock(b, preserve, result) ==
  \/ /\ ~Acceptable(b, preserve)
     /\ result = FALSE
     /\ UNCHANGED chainVars
  \/ /\ Acceptable(b, preserve)
     /\ RecordAndPersist(b, result)

\* import_block: the peer's hash is kept; its own height and parent checks
\* repeat those of add_block.
ImportBlock(b, result) == AddBlock(b, TRUE, result)

\* create_block: a block on the current tip.  Its hash depends on the clock
\* and the transactions, so any child of the tip by this miner may result.
CreateBlock(m) ==
  {b \in Blocks : ValidStructure(b) /\ MinerOf[b] = m}

\* reorg_to_ancestor(h): refused below the finalized floor, nothing to cut
\* at or above the tip, otherwise truncate and replay.
ReorgToAncestor(h, result) ==
  \/ /\ BelowFloor(fin, h)
     /\ result = FALSE
     /\ UNCHANGED chainVars
  \/ /\ ~BelowFloor(fin, h)
     /\ chain' = IF h < TipHeight THEN SubSeq(chain, 1, h + 1) ELSE chain
     /\ result = TRUE
     /\ UNCHANGED <<proposals, slashed, fin, nActive>>
  \/ /\ ~BelowFloor(fin, h)
     /\ StorageFaults /\ h <= TipHeight
     /\ result = FALSE
     /\ UNCHANGED chainVars

\* _sync_finality_validator_count: a validator joins or leaves.
SetActiveValidatorCount(n) ==
  /\ n # nActive
  /\ nActive' = n
  /\ UNCHANGED <<chain, proposals, slashed, fin>>

\* The chain with its operations called one at a time and in any order; the
\* apply queue (module ChainApply) is what serialises them.
ChainNext ==
  \/ \E b \in Blocks \ {Genesis}, result \in BOOLEAN :
       \/ ImportBlock(b, result)
       \/ AddBlock(b, FALSE, result)
  \/ \E h \in 0 .. Len(chain), result \in BOOLEAN : ReorgToAncestor(h, result)
  \/ \E n \in ActiveCounts : SetActiveValidatorCount(n)

ChainSpec == InitChain /\ [][ChainNext]_chainVars

TypeOKChain ==
  /\ chain \in Seq(Blocks) /\ chain # <<>>
  /\ proposals \subseteq Blocks
  /\ slashed \subseteq Miners
  /\ fin \in [checkpoints : SUBSET Blocks, votes : SUBSET (Nat \X Miners),
              justified : SUBSET Nat, finalized : SUBSET Nat, current : Nat]
  /\ nActive \in ActiveCounts

(***************************************************************************)
(* Properties of the chain itself.                                         *)
(***************************************************************************)

\* The canonical chain is one hash-linked path from genesis, at consecutive
\* heights, whatever add_block, import_block and reorg_to_ancestor are asked
\* to do.
ChainLinked ==
  /\ chain[1] = Genesis
  /\ \A i \in 1 .. Len(chain) : HeightOf[chain[i]] = i - 1
  /\ \A i \in 1 .. Len(chain) - 1 : ParentOf[chain[i + 1]] = chain[i]

\* A finalized checkpoint never lies above the canonical tip: what
\* get_finalized_floor_height returns has been reached and not cut off.
FloorReached == \A c \in FinalizedBlocks(fin) : HeightOf[c] <= TipHeight

\* An honest miner is never slashed: Blocks holds every block that was ever
\* signed, and only a miner with two of them at one height is slashed, even
\* when blocks are retried after a failed persist or a reorg
\* (record_proposal: "catch-up retries ... must not slash the only miner").
SlashedEquivocated ==
  \A m \in slashed :
    \E p \in proposals, q \in Blocks \ proposals :
      /\ MinerOf[p] = m /\ MinerOf[q] = m
      /\ HeightOf[p] = HeightOf[q]

\* "No reorg below the finalized checkpoint" (docs/INCIDENT_RESPONSE.md):
\* the part of the chain up to a finalized height never changes again.
KeepsFinalizedPrefix ==
  \A c \in FinalizedBlocks(fin) :
    \A i \in 1 .. HeightOf[c] + 1 :
      i <= Len(chain') /\ chain'[i] = chain[i]

FinalizedPrefixStable == [][KeepsFinalizedPrefix]_chainVars

(***************************************************************************)
(* The strengthening that makes FloorReached inductive.                    *)
(***************************************************************************)

\* Every block of the chain has met a checkpoint in its epoch: epochs are
\* entered in order, so no epoch is left without one.
ChainCheckpointed ==
  \A i \in 2 .. Len(chain) :
    \E c \in fin.checkpoints : GetEpoch(c) = GetEpoch(chain[i])

\* A checkpoint is at the first height of its epoch, although reorgs may have
\* taken it off the chain: a block of a later epoch is higher.
CheckpointFirst ==
  \A c \in fin.checkpoints :
    \A h \in 1 .. HeightOf[c] - 1 : h \div EpochLength < GetEpoch(c)

\* record_proposal keeps the first hash of a miner at a height only.
OneProposal ==
  \A x, y \in proposals :
    MinerOf[x] = MinerOf[y] /\ HeightOf[x] = HeightOf[y] => x = y

ChainInv ==
  /\ TypeOKChain
  /\ ChainLinked
  /\ ChainCheckpointed
  /\ CheckpointFirst
  /\ FloorReached
=============================================================================
