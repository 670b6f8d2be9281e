--------------------------- MODULE FinalityEngine ---------------------------
(***************************************************************************)
(* finality_engine.py: Casper-FFG style checkpoints.  The engine is a      *)
(* value f, a record of                                                    *)
(*   checkpoints   the first block ever processed in each epoch            *)
(*   votes         pairs <<epoch, validator>>                              *)
(*   justified, finalized   sets of epochs                                 *)
(*   current       current_epoch                                           *)
(* and every operation maps an engine to the next one.  The caller passes  *)
(* the live validator count n (active_validator_count).                    *)
(***************************************************************************)
EXTENDS BlockTree, Integers, FiniteSets

CONSTANT EpochLength    \* EPOCH_LENGTH, 32 in the code

ASSUME EpochLengthAssumption == EpochLength \in Nat \ {0}

GetEpoch(b) == HeightOf[b] \div EpochLength

InitFinality ==
  [checkpoints |-> {}, votes |-> {}, justified |-> {}, finalized |-> {},
   current |-> 0]

\* The first block seen in an epoch stays its checkpoint, a later reorg
\* notwithstanding.
CreateCheckpoint(f, b) ==
  IF \E c \in f.checkpoints : GetEpoch(c) = GetEpoch(b)
    THEN f
    ELSE [f EXCEPT !.checkpoints = @ \cup {b}]

\* 2/3 of the active set, never reached by an empty one.
QuorumReached(votes, n) == n > 0 /\ votes * 3 >= n * 2

VotersOf(f, e) == {v \in Miners : <<e, v>> \in f.votes}

\* A vote counts only for the block that is the epoch's checkpoint.
AddAttestation(f, validator, b, n) ==
  LET e  == GetEpoch(b)
      fv == [f EXCEPT !.votes = @ \cup {<<e, validator>>}]
  IN  IF b \notin f.checkpoints
        THEN f
        ELSE IF QuorumReached(Cardinality(VotersOf(fv, e)), n)
               THEN [fv EXCEPT !.justified = @ \cup {e}]
               ELSE fv

\* Two consecutive justified epochs finalize the later one.
CanFinalize(f, e) ==
  /\ {e, e - 1} \subseteq f.justified
  /\ \E c \in f.checkpoints : GetEpoch(c) = e

\* process_block: checkpoint, the proposer's attestation, then an attempt to
\* finalize every epoch since the last block processed.
ProcessBlock(f, b, n) ==
  LET g == AddAttestation(CreateCheckpoint(f, b), MinerOf[b], b, n)
  IN  [g EXCEPT
         !.finalized = @ \cup {e \in f.current .. GetEpoch(b) : CanFinalize(g, e)},
         !.current   = GetEpoch(b)]

FinalizedBlocks(f) == {c \in f.checkpoints : GetEpoch(c) \in f.finalized}

\* Faulty variants of BelowFloor: one height too low, and no floor at all.
BelowFloorOffByOne(f, h) == \E c \in FinalizedBlocks(f) : h + 1 < HeightOf[c]
BelowFloorIgnored(f, h) == FALSE

\* get_finalized_floor_height() > h: the floor is the largest height of a
\* finalized checkpoint, 0 when there is none.
BelowFloor(f, h) == \E c \in FinalizedBlocks(f) : h < HeightOf[c]
=============================================================================
