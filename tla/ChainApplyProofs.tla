-------------------------- MODULE ChainApplyProofs --------------------------
(***************************************************************************)
(* The chain's safety for every block tree, epoch length, validator count  *)
(* and order of operations; the apply queue for every number of            *)
(* submissions, queue size and interleaving of callers, clock and worker:  *)
(* its invariants, what a caller may conclude from its answer, and that    *)
(* the chain behind it implements the abstract ledger; and what is left of *)
(* it when fast_sync rolls back on a thread of its own.                    *)
(***************************************************************************)
EXTENDS FastSync, FiniteSetTheorems, TLAPS

(***************************************************************************)
(* The chain, its operations called in any order (ChainSpec).              *)
(***************************************************************************)

\* Epoch numbers are monotone in the height (get_epoch).
LEMMA DivMonotone ==
  ASSUME NEW n \in Nat \ {0}, NEW x \in Nat, NEW y \in Nat, x <= y
  PROVE  x \div n \in Nat /\ y \div n \in Nat /\ x \div n <= y \div n
<1> DEFINE u == x \div n
           v == y \div n
<1>1. u \in Int /\ v \in Int /\ x = n * u + (x % n) /\ y = n * v + (y % n)
      /\ 0 <= x % n /\ x % n < n /\ 0 <= y % n /\ y % n < n
      /\ x % n \in Int /\ y % n \in Int
  BY Z3
<1> HIDE DEF u, v
<1>2. u >= 0 /\ v >= 0
  BY <1>1, Z3
<1>3. ASSUME u > v PROVE FALSE
  <2>1. u >= v + 1
    BY <1>1, <1>3
  <2>2. n * u >= n * (v + 1)
    BY <1>1, <2>1, Z3
  <2> QED
    BY <1>1, <2>2, Z3
<1> QED
  BY <1>1, <1>2, <1>3 DEF u, v

\* What process_block does to the checkpoints and the finalized epochs.
LEMMA ProcessBlockEffect ==
  ASSUME NEW b \in Blocks, NEW n \in Nat, TypeOKChain
  PROVE  LET f == ProcessBlock(fin, b, n) IN
         /\ f \in [checkpoints : SUBSET Blocks, votes : SUBSET (Nat \X Miners),
                   justified : SUBSET Nat, finalized : SUBSET Nat, current : Nat]
         /\ f.checkpoints =
              IF \E c \in fin.checkpoints : GetEpoch(c) = GetEpoch(b)
                THEN fin.checkpoints ELSE fin.checkpoints \cup {b}
         /\ fin.finalized \subseteq f.finalized
         /\ \A e \in f.finalized \ fin.finalized : e <= GetEpoch(b)
<1> DEFINE f0 == CreateCheckpoint(fin, b)
           f1 == AddAttestation(f0, MinerOf[b], b, n)
           Engine == [checkpoints : SUBSET Blocks, votes : SUBSET (Nat \X Miners),
                      justified : SUBSET Nat, finalized : SUBSET Nat, current : Nat]
<1>1. GetEpoch(b) \in Nat /\ MinerOf[b] \in Miners
  <2>1. HeightOf[b] \in Nat
    BY BlockTreeAssumption
  <2> QED
    BY <2>1, BlockTreeAssumption, EpochLengthAssumption,
       DivMonotone DEF GetEpoch
<1>2. fin \in Engine
  BY DEF TypeOKChain
<1>3. /\ f0 \in Engine
      /\ f0.checkpoints =
           IF \E c \in fin.checkpoints : GetEpoch(c) = GetEpoch(b)
             THEN fin.checkpoints ELSE fin.checkpoints \cup {b}
      /\ f0.finalized = fin.finalized
  BY <1>2 DEF CreateCheckpoint
<1> HIDE DEF f0
<1>4. /\ f1 \in Engine
      /\ f1.checkpoints = f0.checkpoints
      /\ f1.finalized = f0.finalized
  <2> DEFINE fv == [f0 EXCEPT !.votes = @ \cup {<<GetEpoch(b), MinerOf[b]>>}]
             fj == [fv EXCEPT !.justified = @ \cup {GetEpoch(b)}]
  <2>1. fv \in Engine /\ fv.checkpoints = f0.checkpoints /\ fv.finalized = f0.finalized
    BY <1>1, <1>3
  <2> HIDE DEF fv
  <2>2. fj \in Engine /\ fj.checkpoints = f0.checkpoints /\ fj.finalized = f0.finalized
    BY <1>1, <2>1
  <2>3. f1 \in {f0, fv, fj}
    BY DEF AddAttestation, fv
  <2> QED
    BY <1>3, <2>1, <2>2, <2>3
<1> DEFINE new == {e \in fin.current .. GetEpoch(b) : CanFinalize(f1, e)}
<1>5. ProcessBlock(fin, b, n) =
        [f1 EXCEPT !.finalized = @ \cup new, !.current = GetEpoch(b)]
  BY DEF ProcessBlock, f0
<1>6. new \subseteq Nat /\ \A e \in new : e <= GetEpoch(b)
  BY <1>1, <1>2
<1> HIDE DEF f1, new
<1> DEFINE f2 == [f1 EXCEPT !.finalized = @ \cup new, !.current = GetEpoch(b)]
<1>7. /\ f2 \in Engine
      /\ f2.checkpoints = f1.checkpoints
      /\ f2.finalized = f1.finalized \cup new
  BY <1>1, <1>4, <1>6
<1> HIDE DEF f2
<1>8. ProcessBlock(fin, b, n) = f2
  BY <1>5 DEF f2
<1>9. /\ fin.finalized \subseteq f2.finalized
      /\ \A e \in f2.finalized \ fin.finalized : e <= GetEpoch(b)
  BY <1>3, <1>4, <1>6, <1>7
<1> QED
  BY <1>3, <1>4, <1>7, <1>8, <1>9

-----------------------------------------------------------------------------
(***************************************************************************)
(* Whatever is called, the chain and the finality engine change in one of  *)
(* three ways.                                                             *)
(***************************************************************************)
Extended(b) ==
  /\ ValidStructure(b)
  /\ chain' = Append(chain, b)
  /\ fin' = ProcessBlock(fin, b, nActive)

CutTo(h) ==
  /\ h < TipHeight
  /\ ~BelowFloor(fin, h)
  /\ chain' = SubSeq(chain, 1, h + 1)
  /\ fin' = fin

Kept == chain' = chain /\ fin' = fin

\* add_block and import_block extend the chain by their block or keep it.
LEMMA AddBlockEffect ==
  ASSUME NEW b \in Blocks, NEW preserve \in BOOLEAN, NEW result \in BOOLEAN,
         AddBlock(b, preserve, result)
  PROVE  Extended(b) \/ Kept
  BY DEF AddBlock, RecordAndPersist, Persist, ProcessBlockFinality, Acceptable, Extended, Kept, chainVars

\* reorg_to_ancestor cuts the chain at its argument or keeps it.
LEMMA ReorgEffect ==
  ASSUME NEW h \in Nat, NEW result \in BOOLEAN, ReorgToAncestor(h, result)
  PROVE  CutTo(h) \/ Kept
  BY DEF ReorgToAncestor, CutTo, Kept, chainVars

LEMMA ChainStepEffect ==
  ASSUME TypeOKChain, [ChainNext]_chainVars
  PROVE  \/ \E b \in Blocks : Extended(b)
         \/ \E h \in Nat : CutTo(h)
         \/ Kept
<1>1. ASSUME NEW b \in Blocks \ {Genesis}, NEW result \in BOOLEAN,
             ImportBlock(b, result) \/ AddBlock(b, FALSE, result)
      PROVE  Extended(b) \/ Kept
  BY <1>1, AddBlockEffect DEF ImportBlock
<1>2. ASSUME NEW h \in 0 .. Len(chain), NEW result \in BOOLEAN,
             ReorgToAncestor(h, result)
      PROVE  CutTo(h) \/ Kept
  <2>1. h \in Nat
    BY DEF TypeOKChain
  <2> QED
    BY <1>2, <2>1, ReorgEffect
<1>3. ASSUME NEW n \in ActiveCounts, SetActiveValidatorCount(n)
      PROVE  Kept
  BY <1>3 DEF SetActiveValidatorCount, Kept
<1>4. CASE UNCHANGED chainVars
  BY <1>4 DEF chainVars, Kept
<1>5. 0 .. Len(chain) \subseteq Nat
  BY DEF TypeOKChain
<1> QED
  BY <1>1, <1>2, <1>3, <1>4, <1>5 DEF ChainNext

-----------------------------------------------------------------------------
\* The heights and epochs of blocks.
LEMMA BlockFacts ==
  ASSUME NEW b \in Blocks
  PROVE  /\ HeightOf[b] \in Nat /\ MinerOf[b] \in Miners /\ ParentOf[b] \in Blocks
         /\ GetEpoch(b) \in Nat
  BY BlockTreeAssumption, EpochLengthAssumption, DivMonotone DEF GetEpoch

\* The links of the chain survive an extension that _validate_block_structure
\* admits and a cut anywhere.
LEMMA ExtendKeepsLinks ==
  ASSUME TypeOKChain, ChainLinked, NEW b \in Blocks, Extended(b)
  PROVE  chain' \in Seq(Blocks) /\ chain' # <<>> /\ ChainLinked'
<1> DEFINE n == Len(chain)
<1>1. /\ chain \in Seq(Blocks) /\ n \in Nat /\ n >= 1
      /\ chain' = Append(chain, b) /\ HeightOf[b] = n /\ ParentOf[b] = chain[n]
  BY DEF TypeOKChain, Extended, ValidStructure, TipHeight, Tip
<1>2. /\ chain' \in Seq(Blocks) /\ chain' # <<>> /\ Len(chain') = n + 1
      /\ chain'[n + 1] = b
      /\ \A i \in 1 .. n : chain'[i] = chain[i] /\ chain[i] \in Blocks
  BY <1>1
<1> HIDE DEF n
<1> QED
  BY <1>1, <1>2 DEF ChainLinked, n

LEMMA CutKeepsLinks ==
  ASSUME TypeOKChain, ChainLinked, NEW h \in Nat, h < TipHeight,
         chain' = SubSeq(chain, 1, h + 1)
  PROVE  chain' \in Seq(Blocks) /\ chain' # <<>> /\ ChainLinked'
<1> DEFINE n == Len(chain)
<1>1. chain \in Seq(Blocks) /\ n \in Nat /\ h + 1 < n
  BY DEF TypeOKChain, TipHeight
<1>2. /\ chain' \in Seq(Blocks) /\ chain' # <<>> /\ Len(chain') = h + 1
      /\ \A i \in 1 .. h + 1 : chain'[i] = chain[i] /\ i \in 1 .. n
  BY <1>1
<1> HIDE DEF n
<1>3. chain'[1] = Genesis
  BY <1>2 DEF ChainLinked
<1>4. \A i \in 1 .. h + 1 : HeightOf[chain'[i]] = i - 1
  BY <1>2 DEF ChainLinked, n
<1>5. \A i \in 1 .. h : ParentOf[chain'[i + 1]] = chain'[i]
  <2>1. \A i \in 1 .. h : i \in 1 .. h + 1 /\ i + 1 \in 1 .. h + 1 /\ i \in 1 .. n - 1
    BY <1>1
  <2> QED
    BY <1>2, <2>1 DEF ChainLinked, n
<1>6. h + 1 - 1 = h
  OBVIOUS
<1> QED
  BY <1>2, <1>3, <1>4, <1>5, <1>6 DEF ChainLinked

\* Extending the chain with a block that passed _validate_block_structure
\* keeps it linked, keeps checkpoints at the start of their epochs and so
\* finalizes nothing above the new tip.
LEMMA ExtendPreserves ==
  ASSUME ChainInv, NEW b \in Blocks, Extended(b)
  PROVE  /\ chain' \in Seq(Blocks) /\ chain' # <<>>
         /\ ChainLinked' /\ ChainCheckpointed' /\ CheckpointFirst' /\ FloorReached'
<1> USE DEF ChainInv
<1> DEFINE n == Len(chain)
<1>1. /\ chain \in Seq(Blocks) /\ n \in Nat /\ n >= 1 /\ TypeOKChain
      /\ chain' = Append(chain, b)
      /\ HeightOf[b] = n /\ ParentOf[b] = chain[n]
      /\ nActive \in Nat
  BY BlockchainAssumption DEF TypeOKChain, Extended, ValidStructure, TipHeight, Tip
<1>2. /\ chain' \in Seq(Blocks) /\ chain' # <<>> /\ Len(chain') = n + 1
      /\ chain'[n + 1] = b
      /\ \A i \in 1 .. n : chain'[i] = chain[i] /\ chain[i] \in Blocks
  BY <1>1
<1> HIDE DEF n
<1>3. ChainLinked'
  BY ExtendKeepsLinks
<1> DEFINE g == ProcessBlock(fin, b, nActive)
<1>4. /\ fin' = g
      /\ g.checkpoints =
           IF \E c \in fin.checkpoints : GetEpoch(c) = GetEpoch(b)
             THEN fin.checkpoints ELSE fin.checkpoints \cup {b}
      /\ \A e \in g.finalized \ fin.finalized : e <= GetEpoch(b)
      /\ fin.checkpoints \subseteq Blocks
  BY <1>1, ProcessBlockEffect DEF Extended, TypeOKChain
<1> HIDE DEF g
<1>5. ChainCheckpointed'
  <2>1. \E c \in g.checkpoints : GetEpoch(c) = GetEpoch(b)
    BY <1>4
  <2>2. \A i \in 2 .. n : \E c \in g.checkpoints : GetEpoch(c) = GetEpoch(chain[i])
    BY <1>4 DEF ChainCheckpointed, n
  <2>3. ASSUME NEW i \in 2 .. n + 1
        PROVE  \E c \in g.checkpoints : GetEpoch(c) = GetEpoch(chain'[i])
    <3>1. CASE i = n + 1
      BY <1>2, <2>1, <3>1
    <3>2. CASE i # n + 1
      <4>1. i \in 2 .. n /\ i \in 1 .. n
        BY <1>1, <3>2
      <4> QED
        BY <1>2, <2>2, <4>1
    <3> QED
      BY <3>1, <3>2
  <2>4. \A i \in 2 .. n + 1 : \E c \in fin'.checkpoints : GetEpoch(c) = GetEpoch(chain'[i])
    BY <1>4, <2>3
  <2> QED
    BY <1>2, <2>4 DEF ChainCheckpointed
<1>6. CheckpointFirst'
  <2>1. SUFFICES ASSUME ~ \E c \in fin.checkpoints : GetEpoch(c) = GetEpoch(b)
                 PROVE  \A h \in 1 .. n - 1 : h \div EpochLength < GetEpoch(b)
    BY <1>1, <1>4 DEF CheckpointFirst, GetEpoch
  <2>2. SUFFICES ASSUME NEW h \in 1 .. n - 1, h \div EpochLength >= GetEpoch(b)
                 PROVE  FALSE
    <3>1. \A h \in 1 .. n - 1 : h \in Nat /\ h <= h
      BY <1>1
    <3>2. \A h \in 1 .. n - 1 : h \div EpochLength \in Nat
      BY <3>1, EpochLengthAssumption, DivMonotone
    <3>3. GetEpoch(b) \in Nat
      BY BlockFacts
    <3> QED
      BY <3>2, <3>3
  <2>3. /\ h \div EpochLength <= (n - 1) \div EpochLength
        /\ (n - 1) \div EpochLength <= n \div EpochLength
        /\ h \div EpochLength \in Nat /\ (n - 1) \div EpochLength \in Nat
        /\ n \div EpochLength \in Nat
    <3>1. h \in Nat /\ n - 1 \in Nat /\ h <= n - 1 /\ n - 1 <= n
      BY <1>1
    <3> QED
      BY <1>1, <3>1, EpochLengthAssumption, DivMonotone
  <2>4. GetEpoch(b) = (n - 1) \div EpochLength
    BY <1>1, <2>2, <2>3 DEF GetEpoch
  <2>5. n \in 2 .. n /\ HeightOf[chain[n]] = n - 1
    BY <1>1 DEF ChainLinked, n
  <2>6. \E c \in fin.checkpoints : GetEpoch(c) = GetEpoch(chain[n])
    BY <2>5 DEF ChainCheckpointed, n
  <2> QED
    BY <2>1, <2>4, <2>5, <2>6 DEF GetEpoch
<1>7. FloorReached'
  <2>1. SUFFICES ASSUME NEW c \in g.checkpoints, GetEpoch(c) \in g.finalized
                 PROVE  HeightOf[c] <= n
    BY <1>1, <1>2, <1>4 DEF FloorReached, FinalizedBlocks, TipHeight, GetEpoch
  <2>2. c \in Blocks /\ HeightOf[c] \in Nat /\ GetEpoch(c) \in Nat /\ GetEpoch(b) \in Nat
    BY <1>4, BlockFacts
  <2>3. CASE GetEpoch(c) \in fin.finalized /\ c \in fin.checkpoints
    BY <1>1, <2>2, <2>3 DEF FloorReached, FinalizedBlocks, TipHeight, n
  <2>4. CASE c = b
    BY <1>1, <2>4
  <2>5. CASE c \in fin.checkpoints /\ GetEpoch(c) <= GetEpoch(b)
    <3>1. SUFFICES ASSUME HeightOf[c] > n PROVE FALSE
      BY <1>1, <2>2
    <3>2. n \div EpochLength < GetEpoch(c)
      BY <1>1, <2>2, <2>5, <3>1 DEF CheckpointFirst
    <3> QED
      BY <1>1, <2>2, <2>5, <3>2 DEF GetEpoch
  <2> QED
    BY <1>4, <2>1, <2>3, <2>4, <2>5
<1> QED
  BY <1>2, <1>3, <1>5, <1>6, <1>7

\* Cutting the chain at or above the finalized floor.
LEMMA CutPreserves ==
  ASSUME ChainInv, NEW h \in Nat, CutTo(h)
  PROVE  /\ chain' \in Seq(Blocks) /\ chain' # <<>>
         /\ ChainLinked' /\ ChainCheckpointed' /\ CheckpointFirst' /\ FloorReached'
<1> USE DEF ChainInv
<1> DEFINE n == Len(chain)
<1>1. /\ chain \in Seq(Blocks) /\ n \in Nat /\ n >= 1
      /\ chain' = SubSeq(chain, 1, h + 1) /\ h + 1 < n /\ fin' = fin
  BY DEF TypeOKChain, CutTo, TipHeight
<1>2. /\ chain' \in Seq(Blocks) /\ chain' # <<>> /\ Len(chain') = h + 1
      /\ \A i \in 1 .. h + 1 : chain'[i] = chain[i] /\ i \in 1 .. n
  BY <1>1
<1> HIDE DEF n
<1>3. ChainLinked'
  BY CutKeepsLinks DEF CutTo
<1>4. ChainCheckpointed'
  <2>1. \A i \in 2 .. h + 1 : i \in 1 .. h + 1 /\ i \in 2 .. n
    BY <1>1
  <2>2. \A i \in 2 .. h + 1 :
          \E c \in fin.checkpoints : GetEpoch(c) = GetEpoch(chain'[i])
    BY <1>2, <2>1 DEF ChainCheckpointed, n
  <2> QED
    BY <1>1, <1>2, <2>2 DEF ChainCheckpointed, GetEpoch
<1>5. CheckpointFirst'
  BY <1>1 DEF CheckpointFirst, GetEpoch
<1>6. FloorReached'
  <2>1. \A c \in FinalizedBlocks(fin) : c \in Blocks /\ HeightOf[c] \in Nat
    BY BlockFacts DEF FinalizedBlocks, TypeOKChain
  <2>2. \A c \in FinalizedBlocks(fin) : HeightOf[c] <= h
    BY <2>1 DEF CutTo, BelowFloor
  <2> QED
    BY <1>1, <1>2, <2>2 DEF FloorReached, FinalizedBlocks, GetEpoch, TipHeight
<1> QED
  BY <1>2, <1>3, <1>4, <1>5, <1>6

\* The rest of the state keeps its types.
LEMMA OtherTypes ==
  ASSUME TypeOKChain, [ChainNext]_chainVars
  PROVE  /\ proposals' \subseteq Blocks
         /\ slashed' \subseteq Miners
         /\ nActive' \in ActiveCounts
  BY BlockFacts DEF ChainNext, chainVars, TypeOKChain, ImportBlock, AddBlock,
     RecordAndPersist, Persist, ProcessBlockFinality, ReorgToAncestor, SetActiveValidatorCount

LEMMA ChainInvInit == InitChain => ChainInv
<1>1. SUFFICES ASSUME InitChain PROVE ChainInv
  OBVIOUS
<1>2. chain = <<Genesis>> /\ Genesis \in Blocks /\ HeightOf[Genesis] = 0
  BY <1>1, BlockTreeAssumption DEF InitChain
<1>3. fin.checkpoints = {} /\ fin.finalized = {}
  BY <1>1 DEF InitChain, InitFinality
<1>4. TypeOKChain
  BY <1>1, <1>2 DEF InitChain, TypeOKChain, InitFinality
<1>5. ChainLinked
  BY <1>2 DEF ChainLinked
<1> QED
  BY <1>2, <1>3, <1>4, <1>5
     DEF ChainInv, ChainCheckpointed, CheckpointFirst, FloorReached, FinalizedBlocks

\* The invariant holds after each of the three ways to change the chain.
LEMMA ChainInvEffect ==
  ASSUME ChainInv,
         \/ \E b \in Blocks : Extended(b)
         \/ \E h \in Nat : CutTo(h)
         \/ Kept,
         proposals' \subseteq Blocks, slashed' \subseteq Miners, nActive' \in ActiveCounts
  PROVE  ChainInv'
<1>1. TypeOKChain
  BY DEF ChainInv
<1>3. CASE \E b \in Blocks : Extended(b)
  <2>1. PICK b \in Blocks : Extended(b)
    BY <1>3
  <2>2. /\ chain' \in Seq(Blocks) /\ chain' # <<>>
        /\ ChainLinked' /\ ChainCheckpointed' /\ CheckpointFirst' /\ FloorReached'
    BY <2>1, ExtendPreserves
  <2>3. fin' \in [checkpoints : SUBSET Blocks, votes : SUBSET (Nat \X Miners),
                  justified : SUBSET Nat, finalized : SUBSET Nat, current : Nat]
    BY <1>1, <2>1, ProcessBlockEffect, BlockchainAssumption DEF Extended, TypeOKChain
  <2> QED
    BY <2>2, <2>3 DEF ChainInv, TypeOKChain
<1>4. CASE \E h \in Nat : CutTo(h)
  <2>1. PICK h \in Nat : CutTo(h)
    BY <1>4
  <2>2. /\ chain' \in Seq(Blocks) /\ chain' # <<>>
        /\ ChainLinked' /\ ChainCheckpointed' /\ CheckpointFirst' /\ FloorReached'
    BY <2>1, CutPreserves
  <2> QED
    BY <1>1, <2>1, <2>2 DEF ChainInv, TypeOKChain, CutTo
<1>5. CASE Kept
  BY <1>1, <1>5
     DEF Kept, ChainInv, TypeOKChain, ChainLinked, ChainCheckpointed, CheckpointFirst,
         FloorReached, FinalizedBlocks, GetEpoch, TipHeight
<1> QED
  BY <1>3, <1>4, <1>5

LEMMA ChainInvStep == ChainInv /\ [ChainNext]_chainVars => ChainInv'
<1> SUFFICES ASSUME ChainInv, [ChainNext]_chainVars PROVE ChainInv'
  OBVIOUS
<1>1. TypeOKChain
  BY DEF ChainInv
<1> QED
  BY <1>1, OtherTypes, ChainStepEffect, ChainInvEffect

\* The canonical chain stays typed, linked and above its finalized floor,
\* for every tree of blocks and every order of imports, forges and reorgs.
THEOREM ChainSafe == ChainSpec => []ChainInv
  BY ChainInvInit, ChainInvStep, PTL DEF ChainSpec

\* A step of the chain never touches a block at or below a finalized height.
LEMMA PrefixStep ==
  ChainInv /\ [ChainNext]_chainVars => KeepsFinalizedPrefix
<1> SUFFICES ASSUME ChainInv, [ChainNext]_chainVars,
                    NEW c \in FinalizedBlocks(fin), NEW i \in 1 .. HeightOf[c] + 1
             PROVE  i <= Len(chain') /\ chain'[i] = chain[i]
  BY DEF KeepsFinalizedPrefix
<1>1. TypeOKChain /\ chain \in Seq(Blocks) /\ Len(chain) \in Nat
  BY DEF ChainInv, TypeOKChain
<1>2. c \in Blocks /\ HeightOf[c] \in Nat
  BY <1>1, BlockFacts DEF FinalizedBlocks, TypeOKChain
<1>3. HeightOf[c] <= Len(chain) - 1
  BY DEF ChainInv, FloorReached, TipHeight
<1>4. i \in 1 .. Len(chain)
  BY <1>1, <1>2, <1>3
<1>5. CASE \E b \in Blocks : Extended(b)
  BY <1>1, <1>4, <1>5 DEF Extended
<1>6. CASE \E h \in Nat : CutTo(h)
  <2>1. PICK h \in Nat : CutTo(h)
    BY <1>6
  <2>2. HeightOf[c] <= h
    BY <1>2, <2>1 DEF CutTo, BelowFloor
  <2>3. i \in 1 .. h + 1 /\ h + 1 <= Len(chain)
    BY <1>1, <1>2, <2>1, <2>2 DEF CutTo, TipHeight
  <2> QED
    BY <1>1, <2>1, <2>3 DEF CutTo
<1>7. CASE Kept
  BY <1>1, <1>4, <1>7 DEF Kept
<1> QED
  BY <1>1, <1>5, <1>6, <1>7, ChainStepEffect

\* reorg_to_ancestor and every other operation leave the finalized part of
\* the canonical chain as it is, for ever.
THEOREM FinalizedPrefixSafe == ChainSpec => FinalizedPrefixStable
  BY ChainSafe, PrefixStep, PTL DEF ChainSpec, FinalizedPrefixStable

\* A conflicting proposal is never recorded, so the witness against a slashed
\* miner stays one.
LEMMA SlashStep ==
  ASSUME OneProposal, SlashedEquivocated, [ChainNext]_chainVars
  PROVE  OneProposal' /\ SlashedEquivocated'
<1>1. ASSUME NEW b \in Blocks, NEW preserve \in BOOLEAN, NEW result \in BOOLEAN,
             AddBlock(b, preserve, result)
      PROVE  OneProposal' /\ SlashedEquivocated'
  <2>1. CASE UNCHANGED <<proposals, slashed>>
    BY <2>1 DEF OneProposal, SlashedEquivocated
  <2>2. CASE Conflicting(b) /\ slashed' = slashed \cup {MinerOf[b]} /\ proposals' = proposals
    <3>1. PICK p \in proposals \ {b} : MinerOf[p] = MinerOf[b] /\ HeightOf[p] = HeightOf[b]
      BY <2>2 DEF Conflicting
    <3>2. b \notin proposals
      BY <3>1 DEF OneProposal
    <3> QED
      BY <2>2, <3>1, <3>2 DEF OneProposal, SlashedEquivocated
  <2>3. CASE ~Conflicting(b) /\ proposals' = proposals \cup {b} /\ slashed' = slashed
    BY <2>3 DEF OneProposal, SlashedEquivocated, Conflicting
  <2> QED
    BY <1>1, <2>1, <2>2, <2>3 DEF AddBlock, RecordAndPersist, Persist, ProcessBlockFinality, chainVars
<1>2. CASE UNCHANGED <<proposals, slashed>>
  BY <1>2 DEF OneProposal, SlashedEquivocated
<1> QED
  BY <1>1, <1>2 DEF ChainNext, ImportBlock, ReorgToAncestor, SetActiveValidatorCount, chainVars

\* No order of retries, failed persists and reorgs slashes a miner that did
\* not propose two different blocks at one height.
THEOREM SlashSound == ChainSpec => []SlashedEquivocated
<1>1. InitChain => OneProposal /\ SlashedEquivocated
  BY DEF InitChain, OneProposal, SlashedEquivocated
<1>2. (OneProposal /\ SlashedEquivocated) /\ [ChainNext]_chainVars
        => (OneProposal /\ SlashedEquivocated)'
  BY SlashStep
<1> QED
  BY <1>1, <1>2, PTL DEF ChainSpec

-----------------------------------------------------------------------------
(***************************************************************************)
(* The tables of the queue.                                                *)
(***************************************************************************)
JobRecord == [kind : Kinds \cup {"SERVED"}, block : Blocks \cup {NoBlock}, to : Nat]

\* The queue's part of the invariant that speaks of jobs and futures.
Tables ==
  /\ job \in Seq(JobRecord)
  /\ fut \in Seq(Outcomes)
  /\ Len(fut) = Len(job)

LEMMA TablesFacts ==
  ASSUME Bookkeeping
  PROVE  /\ Tables
         /\ DOMAIN job = 1 .. Len(job) /\ DOMAIN fut = 1 .. Len(job)
         /\ Len(job) \in Nat
         /\ \A j \in DOMAIN job : job[j] \in JobRecord /\ fut[j] \in Outcomes
<1>1. Tables
  BY DEF Bookkeeping, TypeOK, Tables, JobRecord
<1> QED
  BY <1>1 DEF Tables

LEMMA ServedRecord == Served \in JobRecord /\ Served.kind = "SERVED"
  BY DEF Served, JobRecord

\* Taking a job out of the tables touches nothing else.
LEMMA SettleEffect ==
  ASSUME Bookkeeping, NEW j \in DOMAIN job, NEW outcome \in Outcomes, Settle(j, outcome)
  PROVE  /\ Tables' /\ Len(job') = Len(job)
         /\ job'[j].kind = "SERVED"
         /\ \A k \in DOMAIN job : k # j => job'[k] = job[k] /\ fut'[k] = fut[k]
         /\ fut'[j] = IF fut[j] = "waiting" THEN outcome ELSE fut[j]
         /\ due' = due \ {j}
<1>1. /\ job \in Seq(JobRecord) /\ fut \in Seq(Outcomes) /\ Len(fut) = Len(job)
      /\ j \in 1 .. Len(job) /\ j \in 1 .. Len(fut) /\ fut[j] \in Outcomes
  BY TablesFacts DEF Tables
<1>2. /\ job' = [job EXCEPT ![j] = Served]
      /\ fut' = [fut EXCEPT ![j] = IF fut[j] = "waiting" THEN outcome ELSE fut[j]]
      /\ due' = due \ {j}
  BY DEF Settle
<1>3. /\ job' \in Seq(JobRecord) /\ Len(job') = Len(job) /\ job'[j] = Served
      /\ \A k \in 1 .. Len(job) : k # j => job'[k] = job[k]
  BY <1>1, <1>2, ServedRecord
<1>4. /\ fut' \in Seq(Outcomes) /\ Len(fut') = Len(fut)
      /\ fut'[j] = IF fut[j] = "waiting" THEN outcome ELSE fut[j]
      /\ \A k \in 1 .. Len(fut) : k # j => fut'[k] = fut[k]
  BY <1>1, <1>2
<1> QED
  BY <1>1, <1>2, <1>3, <1>4, ServedRecord, TablesFacts DEF Tables

\* A submission appends one row to the tables.
LEMMA TakeNumberEffect ==
  ASSUME Bookkeeping, NEW r \in JobRecord, TakeNumber(r)
  PROVE  /\ Tables' /\ Len(job') = Len(job) + 1
         /\ \A k \in DOMAIN job : job'[k] = job[k] /\ fut'[k] = fut[k]
         /\ job'[Len(job) + 1] = r /\ fut'[Len(job) + 1] = "waiting"
         /\ DOMAIN job' = 1 .. Len(job) + 1
         /\ putting' = putting \cup {Len(job) + 1}
  BY TablesFacts DEF TakeNumber, Tables, Outcomes

\* Sets of sequence numbers are finite.
LEMMA NumbersFinite ==
  ASSUME Bookkeeping
  PROVE  IsFiniteSet(queue) /\ Cardinality(queue) \in Nat
<1>1. IsFiniteSet(1 .. Len(job))
  BY TablesFacts, FS_Interval
<1>2. queue \subseteq 1 .. Len(job)
  BY DEF Bookkeeping, TypeOK
<1> QED
  BY <1>1, <1>2, FS_Subset, FS_CardinalityType

-----------------------------------------------------------------------------
(***************************************************************************)
(* The chain behind the queue changes as the chain itself does.            *)
(***************************************************************************)

\* The job in the worker's hands, while it runs.
LEMMA CurrentFacts ==
  ASSUME Bookkeeping, worker.pc \in {"held", "expiring", "run", "forged", "reorged"}
  PROVE  /\ worker.job \in DOMAIN job /\ worker.job \in Nat \ {0}
         /\ Current \in JobRecord /\ Current.to \in Nat
         /\ Current.kind \in {"ADD", "IMPORT", "REORG_AND_IMPORT"} => Current.block \in Blocks
         /\ worker.pc = "forged" => worker.cand \in Blocks
         /\ worker.pc = "reorged" => Current.kind = "REORG_AND_IMPORT"
<1>1. worker.job \in DOMAIN job
  BY DEF Bookkeeping, WorkerInv
<1>2. worker.job \in Nat \ {0} /\ Current \in JobRecord
  BY <1>1, TablesFacts DEF Current
<1>3. Current.to \in Nat
  BY <1>2 DEF JobRecord
<1> QED
  BY <1>1, <1>2, <1>3 DEF Bookkeeping, WorkerInv, Current

\* Only a dispatch or a change of the validator set touches the chain state.
LEMMA ChainUntouched ==
  ASSUME [Next]_vars
  PROVE  Dispatch \/ (\E n \in ActiveCounts : SetActiveValidatorCount(n)) \/ UNCHANGED chainVars
  BY DEF Next, vars, Submit, Stop, Put, Elapse, QueueTimeout, AdapterTimeout, CatchUpTimeout, ForkTimeout, GiveUp,
     Worker, WorkerLoop, WorkerGetEmpty, WorkerGet, WorkerStop, WorkerFindsExpired, WorkerExpire,
     WorkerDies, WorkerStart, ValidatorSetChanges

\* The chain operation a dispatch performs.
LEMMA DispatchOperation ==
  ASSUME Bookkeeping, Dispatch
  PROVE  \/ \E b \in Blocks, preserve \in BOOLEAN, result \in BOOLEAN :
              AddBlock(b, preserve, result)
         \/ \E h \in Nat, result \in BOOLEAN : ReorgToAncestor(h, result)
         \/ UNCHANGED chainVars
<1>1. CASE RunImport
  BY <1>1, CurrentFacts DEF RunImport, ImportBlock
<1>2. CASE RunAdd
  BY <1>2, CurrentFacts DEF RunAdd
<1>3. CASE RunForgeCreate \/ RunForgeError
  BY <1>3 DEF RunForgeCreate, RunForgeError
<1>4. CASE RunForgeAdd
  BY <1>4, CurrentFacts DEF RunForgeAdd
<1>5. CASE RunReorg
  BY <1>5, CurrentFacts DEF RunReorg
<1>6. CASE RunReorgFirst
  BY <1>6, CurrentFacts DEF RunReorgFirst
<1>7. CASE RunImportSecond
  BY <1>7, CurrentFacts DEF RunImportSecond, ImportBlock
<1> QED
  BY <1>1, <1>2, <1>3, <1>4, <1>5, <1>6, <1>7 DEF Dispatch

LEMMA QueueStepEffect ==
  ASSUME Bookkeeping, [Next]_vars
  PROVE  /\ \/ \E b \in Blocks : Extended(b)
            \/ \E h \in Nat : CutTo(h)
            \/ Kept
         /\ proposals' \subseteq Blocks /\ slashed' \subseteq Miners
         /\ nActive' \in ActiveCounts
<1>1. TypeOKChain
  BY DEF Bookkeeping, TypeOK
<1>2. ASSUME NEW b \in Blocks, NEW preserve \in BOOLEAN, NEW result \in BOOLEAN,
             AddBlock(b, preserve, result)
      PROVE  /\ Extended(b) \/ Kept
             /\ proposals' \subseteq Blocks /\ slashed' \subseteq Miners
             /\ nActive' \in ActiveCounts
  <2>1. Extended(b) \/ Kept
    BY <1>2, AddBlockEffect
  <2> QED
    BY <1>1, <1>2, <2>1, BlockFacts DEF AddBlock, RecordAndPersist, Persist, ProcessBlockFinality, chainVars, TypeOKChain
<1>3. ASSUME NEW h \in Nat, NEW result \in BOOLEAN, ReorgToAncestor(h, result)
      PROVE  /\ CutTo(h) \/ Kept
             /\ proposals' \subseteq Blocks /\ slashed' \subseteq Miners
             /\ nActive' \in ActiveCounts
  <2>1. CutTo(h) \/ Kept
    BY <1>3, ReorgEffect
  <2> QED
    BY <1>1, <1>3, <2>1 DEF ReorgToAncestor, chainVars, TypeOKChain
<1>4. ASSUME NEW n \in ActiveCounts, SetActiveValidatorCount(n)
      PROVE  /\ Kept /\ proposals' \subseteq Blocks /\ slashed' \subseteq Miners
             /\ nActive' \in ActiveCounts
  BY <1>1, <1>4 DEF SetActiveValidatorCount, Kept, TypeOKChain
<1>5. CASE UNCHANGED chainVars
  BY <1>1, <1>5 DEF chainVars, Kept, TypeOKChain
<1> QED
  BY <1>2, <1>3, <1>4, <1>5, ChainUntouched, DispatchOperation

-----------------------------------------------------------------------------
(***************************************************************************)
(* The invariant of the queue, action by action.                           *)
(***************************************************************************)
WorkerPcs ==
  {"top", "get", "held", "expiring", "run", "forged", "reorged", "exit", "dead"}

QueueTypes ==
  /\ Tables
  /\ putting \subseteq 1 .. Len(job)
  /\ queue \subseteq 1 .. Len(job) /\ Cardinality(queue) <= MaxSize
  /\ due \subseteq 1 .. Len(job)
  /\ worker \in [pc : WorkerPcs, job : 0 .. Len(job), cand : Blocks \cup {NoBlock}]
  /\ running \in BOOLEAN

\* Bookkeeping without the types of the chain.
QueuePart == QueueTypes /\ OnePlace /\ WorkerInv /\ LateIsDue

LEMMA BookSplit == Bookkeeping <=> TypeOKChain /\ QueuePart
  BY DEF Bookkeeping, QueuePart, QueueTypes, WorkerPcs, TypeOK, Tables, JobRecord

\* Submit and Stop.
LEMMA SubmitPreserves ==
  ASSUME Bookkeeping, NEW r \in JobRecord, TakeNumber(r),
         r.kind \in {"ADD", "IMPORT", "REORG_AND_IMPORT"} => r.block \in Blocks,
         UNCHANGED <<chain, queue, due, worker>>, running' \in BOOLEAN
  PROVE  QueuePart'
<1> DEFINE n == Len(job)
<1>1. QueuePart /\ n \in Nat /\ DOMAIN job = 1 .. n /\ DOMAIN fut = 1 .. n
  BY BookSplit, TablesFacts
<1>2. /\ Tables' /\ Len(job') = n + 1 /\ putting' = putting \cup {n + 1}
      /\ \A k \in 1 .. n : job'[k] = job[k] /\ fut'[k] = fut[k]
      /\ job'[n + 1] = r /\ fut'[n + 1] = "waiting"
      /\ DOMAIN job' = 1 .. n + 1 /\ DOMAIN fut' = 1 .. n + 1
  BY <1>1, TakeNumberEffect DEF Tables
<1>3. \A k \in 1 .. n + 1 : k \in 1 .. n \/ k = n + 1
  BY <1>1
<1>4. n + 1 \notin 1 .. n /\ 1 .. n \subseteq 1 .. n + 1 /\ 0 .. n \subseteq 0 .. n + 1
      /\ n + 1 \notin 0 .. n
  BY <1>1
<1>5. /\ queue \subseteq 1 .. n /\ putting \subseteq 1 .. n /\ due \subseteq 1 .. n
      /\ worker.job \in 0 .. n
  BY <1>1 DEF QueuePart, QueueTypes
<1> HIDE DEF n
<1>6. QueueTypes'
  <2>1. worker \in [pc : WorkerPcs, job : 0 .. n, cand : Blocks \cup {NoBlock}]
        /\ Cardinality(queue) <= MaxSize
    BY <1>1 DEF QueuePart, QueueTypes, n
  <2>2. worker \in [pc : WorkerPcs, job : 0 .. n + 1, cand : Blocks \cup {NoBlock}]
    BY <1>4, <2>1
  <2>3. putting' \subseteq 1 .. n + 1
    <3>1. n + 1 \in 1 .. n + 1
      BY <1>1
    <3> QED
      BY <1>2, <1>4, <1>5, <3>1
  <2>4. queue \subseteq 1 .. n + 1 /\ due \subseteq 1 .. n + 1
    BY <1>4, <1>5
  <2> QED
    BY <1>2, <2>1, <2>2, <2>3, <2>4 DEF QueueTypes
<1>7. OnePlace'
  BY <1>1, <1>2, <1>3, <1>4, <1>5 DEF QueuePart, OnePlace
<1>8. WorkerInv'
  BY <1>1, <1>2, <1>3, <1>4, <1>5 DEF QueuePart, WorkerInv, Current
<1>9. LateIsDue'
  BY <1>1, <1>2, <1>3 DEF QueuePart, LateIsDue
<1> QED
  BY <1>6, <1>7, <1>8, <1>9 DEF QueuePart

\* A submission that finds a place in the queue.
LEMMA PutPreserves ==
  ASSUME Bookkeeping, NEW j \in DOMAIN job, j \in putting, putting' = putting \ {j},
         Cardinality(queue) < MaxSize, queue' = queue \cup {j},
         UNCHANGED <<chain, job, fut, due, worker, running>>
  PROVE  QueuePart'
<1>1. QueuePart /\ DOMAIN job = 1 .. Len(job)
  BY BookSplit, TablesFacts
<1>2. Cardinality(queue') <= MaxSize
  <2>1. IsFiniteSet(queue) /\ Cardinality(queue) \in Nat /\ MaxSize \in Nat
    BY NumbersFinite, ChainApplyAssumption
  <2>2. Cardinality(queue \cup {j}) = IF j \in queue THEN Cardinality(queue) ELSE Cardinality(queue) + 1
    BY <2>1, FS_AddElement
  <2> QED
    BY <2>1, <2>2
<1>3. QueueTypes'
  BY <1>1, <1>2 DEF QueuePart, QueueTypes, Tables
<1>4. OnePlace'
  BY <1>1 DEF QueuePart, OnePlace
<1>5. WorkerInv' /\ LateIsDue'
  BY <1>1 DEF QueuePart, WorkerInv, LateIsDue, Current
<1> QED
  BY <1>3, <1>4, <1>5 DEF QueuePart

Jobless == {Idle, At("exit", NoJob, NoBlock), At("dead", NoJob, NoBlock)}

\* Job j is answered and is in no place any more: rejected by a full queue,
\* or over in the worker.
LEMMA SettlePreserves ==
  ASSUME Bookkeeping, NEW j \in DOMAIN job, NEW outcome \in Outcomes, Settle(j, outcome),
         queue' = queue, running' = running, putting' = putting \ {j},
         j \notin queue,
         \/ worker' = worker /\ j # worker.job
         \/ worker' \in Jobless /\ j = worker.job
  PROVE  QueuePart'
<1> DEFINE n == Len(job)
<1>1. QueuePart /\ n \in Nat /\ DOMAIN job = 1 .. n /\ DOMAIN fut = 1 .. n /\ j \in 1 .. n
  BY BookSplit, TablesFacts
<1>2. /\ Tables' /\ Len(job') = n /\ job'[j].kind = "SERVED" /\ due' = due \ {j}
      /\ \A k \in 1 .. n : k # j => job'[k] = job[k] /\ fut'[k] = fut[k]
      /\ DOMAIN job' = 1 .. n /\ DOMAIN fut' = 1 .. n
  BY <1>1, SettleEffect DEF Tables
<1>3. \A w \in Jobless : w.pc \in {"top", "exit", "dead"} /\ w.job = 0 /\ w.cand = NoBlock
  BY DEF Jobless, Idle, At, NoJob
<1>4. worker' \in [pc : WorkerPcs, job : 0 .. n, cand : Blocks \cup {NoBlock}]
  BY <1>1 DEF QueuePart, QueueTypes, WorkerPcs, Jobless, Idle, At, NoJob
<1>5. QueueTypes'
  BY <1>1, <1>2, <1>4 DEF QueuePart, QueueTypes
<1>6. OnePlace'
  <2>1. worker'.job = worker.job \/ worker'.job = 0
    BY <1>3
  <2>2. j # worker'.job
    BY <1>1, <1>3
  <2>3. putting \subseteq 1 .. n /\ queue \subseteq 1 .. n
    BY <1>1 DEF QueuePart, QueueTypes
  <2>4. worker'.job \notin putting \cup queue
    <3>1. 0 \notin 1 .. n
      OBVIOUS
    <3> QED
      BY <1>1, <2>1, <2>3, <3>1 DEF QueuePart, OnePlace
  <2>5. ASSUME NEW k \in 1 .. n,
               fut'[k] \in {"true", "false", "rejected", "expired", "error"}
        PROVE  k \notin putting' \cup queue' \cup {worker'.job}
    <3>1. CASE k = j
      BY <2>2, <3>1
    <3>2. CASE k # j
      <4>1. k \notin putting \cup queue \cup {worker.job}
        BY <1>1, <1>2, <2>5, <3>2 DEF QueuePart, OnePlace
      <4>2. k # 0
        OBVIOUS
      <4> QED
        BY <2>1, <4>1, <4>2
    <3> QED
      BY <3>1, <3>2
  <2> QED
    BY <1>1, <1>2, <2>4, <2>5 DEF QueuePart, OnePlace
<1>7. WorkerInv'
  <2>1. \A k \in 1 .. n :
          job'[k].kind \in {"ADD", "IMPORT", "REORG_AND_IMPORT"} => job'[k].block \in Blocks
    BY <1>1, <1>2 DEF QueuePart, WorkerInv
  <2>2. CASE worker' = worker /\ j # worker.job
    BY <1>1, <1>2, <2>1, <2>2 DEF QueuePart, WorkerInv, Current
  <2>3. CASE worker' \in Jobless
    BY <1>2, <1>3, <2>1, <2>3 DEF WorkerInv, Current, NoJob
  <2> QED
    BY <2>2, <2>3
<1>8. LateIsDue'
  BY <1>1, <1>2 DEF QueuePart, LateIsDue
<1> QED
  BY <1>5, <1>6, <1>7, <1>8 DEF QueuePart

\* A caller gives up: its job was overdue, or its lane has a shorter wait.
LEMMA GiveUpPreserves ==
  ASSUME Bookkeeping, NEW j \in DOMAIN job, GiveUp(j),
         j \in due \/ job[j].kind \in {"REORG", "REORG_AND_IMPORT"}
  PROVE  QueuePart'
<1>1. QueuePart /\ DOMAIN job = 1 .. Len(job) /\ DOMAIN fut = 1 .. Len(job) /\ Tables
  BY BookSplit, TablesFacts
<1>2. /\ fut' = [fut EXCEPT ![j] = "gaveup"] /\ fut[j] = "waiting"
      /\ UNCHANGED <<chain, job, putting, queue, due, worker, running>>
  BY DEF GiveUp, chainVars
<1>3. /\ fut' \in Seq(Outcomes) /\ Len(fut') = Len(fut) /\ fut'[j] = "gaveup"
      /\ \A k \in DOMAIN job : k # j => fut'[k] = fut[k]
      /\ DOMAIN fut' = DOMAIN fut
  BY <1>1, <1>2 DEF Tables, Outcomes
<1>4. QueueTypes'
  BY <1>1, <1>2, <1>3 DEF QueuePart, QueueTypes, Tables
<1>5. OnePlace'
  BY <1>1, <1>2, <1>3 DEF QueuePart, OnePlace
<1>6. WorkerInv'
  BY <1>1, <1>2 DEF QueuePart, WorkerInv, Current
<1>7. LateIsDue'
  BY <1>1, <1>2, <1>3 DEF QueuePart, LateIsDue
<1> QED
  BY <1>4, <1>5, <1>6, <1>7 DEF QueuePart

\* The worker moves and no future changes.
LEMMA MovePreserves ==
  ASSUME Bookkeeping, UNCHANGED <<job, fut, putting, due, running>>,
         queue' \subseteq queue, Cardinality(queue') <= MaxSize,
         worker' \in [pc : WorkerPcs, job : 0 .. Len(job), cand : Blocks \cup {NoBlock}],
         worker'.job \in {NoJob, worker.job} \cup (queue \ queue'),
         worker'.pc \in {"top", "get", "exit", "dead"} => worker'.job = NoJob,
         worker'.pc \in {"held", "expiring", "run", "forged", "reorged"} => worker'.job \in DOMAIN job,
         worker'.pc = "forged" => worker'.cand \in Blocks,
         worker'.pc = "reorged" => job[worker'.job].kind = "REORG_AND_IMPORT"
  PROVE  QueuePart'
<1>1. QueuePart /\ DOMAIN job = 1 .. Len(job) /\ DOMAIN fut = 1 .. Len(job)
      /\ Len(job) \in Nat
  BY BookSplit, TablesFacts
<1>2. QueueTypes'
  BY <1>1 DEF QueuePart, QueueTypes, Tables
<1>3. OnePlace'
  <2>1. 0 \notin 1 .. Len(job) /\ putting \subseteq 1 .. Len(job) /\ queue \subseteq 1 .. Len(job)
    BY <1>1 DEF QueuePart, QueueTypes
  <2>2. worker'.job \notin putting \cup queue'
    BY <1>1, <2>1 DEF QueuePart, OnePlace, NoJob
  <2>3. ASSUME NEW k \in 1 .. Len(job),
               fut[k] \in {"true", "false", "rejected", "expired", "error"}
        PROVE  k \notin putting \cup queue' \cup {worker'.job}
    <3>1. k \notin putting \cup queue \cup {worker.job}
      BY <1>1, <2>3 DEF QueuePart, OnePlace
    <3> QED
      BY <2>1, <3>1 DEF NoJob
  <2> QED
    BY <1>1, <2>2, <2>3 DEF QueuePart, OnePlace
<1>4. WorkerInv'
  BY <1>1 DEF QueuePart, WorkerInv, Current
<1>5. LateIsDue'
  BY <1>1 DEF QueuePart, LateIsDue
<1> QED
  BY <1>2, <1>3, <1>4, <1>5 DEF QueuePart

\* Every step preserves the queue's part of the invariant.
LEMMA BookStep ==
  ASSUME Bookkeeping, [Next]_vars
  PROVE  QueuePart'
<1>0. worker \in [pc : WorkerPcs, job : 0 .. Len(job), cand : Blocks \cup {NoBlock}]
  BY BookSplit DEF QueuePart, QueueTypes
<1>1. QueuePart /\ DOMAIN job = 1 .. Len(job) /\ Len(job) \in Nat
  BY BookSplit, TablesFacts
<1>2. ASSUME NEW r \in Requests, Submit(r) PROVE QueuePart'
  <2>1. r \in JobRecord /\ (r.kind \in {"ADD", "IMPORT", "REORG_AND_IMPORT"} => r.block \in Blocks)
    BY ChainApplyAssumption DEF JobRecord, Kinds
  <2> QED
    BY <1>1, <1>2, <2>1, SubmitPreserves DEF Submit, chainVars, QueuePart, QueueTypes
<1>3. CASE Stop
  <2> DEFINE r == [kind |-> "STOP", block |-> NoBlock, to |-> 0]
  <2>1. r \in JobRecord /\ r.kind = "STOP"
    BY DEF JobRecord, Kinds
  <2> HIDE DEF r
  <2>2. TakeNumber(r)
    BY <1>3 DEF Stop, r
  <2> QED
    BY <1>3, <2>1, <2>2, SubmitPreserves DEF Stop, chainVars
<1>4. ASSUME NEW j \in DOMAIN job, Put(j) PROVE QueuePart'
  <2>1. CASE Cardinality(queue) < MaxSize
    BY <1>4, <2>1, PutPreserves DEF Put, chainVars
  <2>2. CASE ~(Cardinality(queue) < MaxSize)
    <3>1. j \notin queue /\ j # worker.job
      BY <1>1, <1>4 DEF QueuePart, OnePlace, Put
    <3>2. "rejected" \in Outcomes
      BY DEF Outcomes
    <3>3. /\ Settle(j, "rejected") /\ queue' = queue /\ running' = running
          /\ putting' = putting \ {j} /\ worker' = worker
      BY <1>4, <2>2 DEF Put
    <3>4. worker' = worker /\ j # worker.job
      BY <3>1, <3>3
    <3> QED
      BY <3>1, <3>2, <3>3, <3>4, SettlePreserves
  <2> QED
    BY <2>1, <2>2
<1>5. ASSUME NEW j \in DOMAIN job, Elapse(j) PROVE QueuePart'
  <2>1. UNCHANGED <<chain, job, fut, putting, queue, worker, running>> /\ due' = due \cup {j}
    BY <1>5 DEF Elapse, chainVars
  <2> QED
    BY <1>1, <2>1 DEF QueuePart, QueueTypes, Tables, OnePlace, WorkerInv, LateIsDue, Current
<1>6. ASSUME NEW j \in DOMAIN job, QueueTimeout(j) \/ AdapterTimeout(j) PROVE QueuePart'
  BY <1>6, GiveUpPreserves DEF QueueTimeout, AdapterTimeout, CatchUpTimeout, ForkTimeout
<1>7. ASSUME NEW pc \in {"top", "exit", "dead"}, NEW outcome \in Outcomes,
             worker.pc \in {"held", "expiring", "run", "forged", "reorged"},
             Settle(worker.job, outcome), worker' = At(pc, NoJob, NoBlock),
             UNCHANGED <<putting, queue, running>>
      PROVE  QueuePart'
  <2>1. worker.job \in DOMAIN job /\ worker.job \notin putting \cup queue
    BY <1>1, <1>7, CurrentFacts DEF QueuePart, OnePlace
  <2>3. putting' = putting \ {worker.job}
    BY <1>7, <2>1
  <2>4. worker' \in Jobless
    BY <1>7 DEF Jobless, Idle
  <2> QED
    BY <1>7, <2>1, <2>3, <2>4, SettlePreserves
<1>8. ASSUME WorkerStop \/ WorkerExpire \/ WorkerDies \/ RunForgeError PROVE QueuePart'
  BY <1>7, <1>8 DEF WorkerStop, Overdue, WorkerExpire, WorkerDies, RunForgeError, Idle, Outcomes
<1>9. ASSUME NEW result \in BOOLEAN, Finish(result),
             worker.pc \in {"held", "expiring", "run", "forged", "reorged"}
      PROVE  QueuePart'
  BY <1>7, <1>9 DEF Finish, Idle, Outcomes
<1>10. CASE WorkerLoop \/ WorkerGetEmpty
  <2>1. worker.job = 0 /\ Cardinality(queue) <= MaxSize
    BY <1>1, <1>10 DEF QueuePart, QueueTypes, WorkerInv, WorkerLoop, WorkerGetEmpty, NoJob
  <2>2. /\ worker'.pc \in {"top", "get", "exit"} /\ worker'.job = NoJob /\ worker'.cand = NoBlock
        /\ worker' \in [pc : WorkerPcs, job : 0 .. Len(job), cand : Blocks \cup {NoBlock}]
        /\ UNCHANGED <<job, fut, putting, queue, due, running>>
    BY <1>1, <1>10 DEF WorkerPcs, WorkerLoop, WorkerGetEmpty, Idle, At, NoJob
  <2> QED
    BY <2>1, <2>2, MovePreserves
<1>11. CASE WorkerGet
  <2>1. PICK j \in queue : queue' = queue \ {j} /\ worker' = At("held", j, NoBlock)
    BY <1>11 DEF WorkerGet
  <2>2. j \in 1 .. Len(job) /\ Cardinality(queue) <= MaxSize
    BY <1>1 DEF QueuePart, QueueTypes
  <2>3. Cardinality(queue') <= MaxSize
    <3>1. Cardinality(queue \ {j}) = Cardinality(queue) - 1
      BY NumbersFinite, FS_RemoveElement
    <3>2. Cardinality(queue) \in Nat /\ MaxSize \in Nat
      BY NumbersFinite, ChainApplyAssumption
    <3> QED
      BY <2>1, <2>2, <3>1, <3>2
  <2>4. /\ worker'.pc = "held" /\ worker'.job = j
        /\ worker' \in [pc : WorkerPcs, job : 0 .. Len(job), cand : Blocks \cup {NoBlock}]
    BY <1>1, <2>1, <2>2 DEF WorkerPcs, At
  <2>5. UNCHANGED <<job, fut, putting, due, running>>
    BY <1>11 DEF WorkerGet
  <2> QED
    BY <1>1, <2>1, <2>2, <2>3, <2>4, <2>5, MovePreserves
<1>12. ASSUME NEW pc \in {"expiring", "run", "forged", "reorged"}, NEW cand \in Blocks \cup {NoBlock},
              worker.pc \in {"held", "run"},
              worker'.pc = pc, worker'.job = worker.job, worker'.cand = cand,
              worker' \in [pc : WorkerPcs, job : 0 .. Len(job), cand : Blocks \cup {NoBlock}],
              UNCHANGED <<job, fut, putting, queue, due, running>>,
              pc = "forged" => cand \in Blocks,
              pc = "reorged" => Current.kind = "REORG_AND_IMPORT"
       PROVE  QueuePart'
  <2>1. worker.job \in DOMAIN job /\ Cardinality(queue) <= MaxSize
    BY <1>1, <1>12, CurrentFacts DEF QueuePart, QueueTypes
  <2>3. worker'.pc = "reorged" => job[worker'.job].kind = "REORG_AND_IMPORT"
    BY <1>12 DEF Current
  <2> QED
    BY <1>12, <2>1, <2>3, MovePreserves
<1>13. CASE WorkerFindsExpired \/ WorkerStart \/ RunForgeCreate
  <2>1. worker.cand \in Blocks \cup {NoBlock} /\ worker.job \in 0 .. Len(job)
    BY <1>0
  <2>2. ASSUME NEW pc \in {"expiring", "run"}, worker.pc = "held",
               worker' = [worker EXCEPT !.pc = pc],
               UNCHANGED <<job, fut, putting, queue, due, running>>
        PROVE  QueuePart'
    <3>1. /\ worker'.pc = pc /\ worker'.job = worker.job /\ worker'.cand = worker.cand
          /\ worker' \in [pc : WorkerPcs, job : 0 .. Len(job), cand : Blocks \cup {NoBlock}]
      BY <1>0, <2>2 DEF WorkerPcs
    <3> QED
      BY <1>12, <2>1, <2>2, <3>1
  <2>3. CASE RunForgeCreate
    <3>1. PICK b \in CreateBlock(LocalMiner) : worker' = At("forged", worker.job, b)
      BY <2>3 DEF RunForgeCreate
    <3>2. b \in Blocks
      BY DEF CreateBlock
    <3>3. /\ worker'.pc = "forged" /\ worker'.job = worker.job /\ worker'.cand = b
          /\ worker' \in [pc : WorkerPcs, job : 0 .. Len(job), cand : Blocks \cup {NoBlock}]
      BY <2>1, <3>1, <3>2 DEF WorkerPcs, At
    <3> QED
      BY <1>12, <2>3, <3>2, <3>3 DEF RunForgeCreate
  <2> QED
    BY <1>13, <2>2, <2>3 DEF WorkerFindsExpired, Overdue, WorkerStart
<1>14. CASE RunReorgFirst
  <2>1. ASSUME worker' = [worker EXCEPT !.pc = "reorged"],
               UNCHANGED <<job, fut, putting, queue, due, running>>
        PROVE  QueuePart'
    <3>1. /\ worker'.pc = "reorged" /\ worker'.job = worker.job /\ worker'.cand = worker.cand
          /\ worker' \in [pc : WorkerPcs, job : 0 .. Len(job), cand : Blocks \cup {NoBlock}]
          /\ worker.cand \in Blocks \cup {NoBlock}
      BY <1>0, <2>1 DEF WorkerPcs
    <3> QED
      BY <1>12, <1>14, <2>1, <3>1 DEF RunReorgFirst
  <2> QED
    BY <1>9, <1>14, <2>1 DEF RunReorgFirst
<1>15. CASE RunImport \/ RunAdd \/ RunForgeAdd \/ RunReorg \/ RunImportSecond
  BY <1>9, <1>15 DEF RunImport, RunAdd, RunForgeAdd, RunReorg, RunImportSecond
<1>16. CASE UNCHANGED vars \/ \E n \in ActiveCounts : ValidatorSetChanges(n)
  <2>1. UNCHANGED <<chain, job, fut, putting, queue, due, worker, running>>
    BY <1>16 DEF vars, chainVars, queueVars, ValidatorSetChanges, SetActiveValidatorCount
  <2> QED
    BY <1>1, <2>1 DEF QueuePart, QueueTypes, Tables, OnePlace, WorkerInv, LateIsDue, Current
<1> QED
  BY <1>2, <1>3, <1>4, <1>5, <1>6, <1>8, <1>10, <1>11, <1>13, <1>14, <1>15, <1>16
     DEF Next, Worker, Dispatch

\* Nothing but the worker changes the chain, and it does so only where it
\* holds no forged block or gives its forged block up.
LEMMA ForgedStep ==
  ASSUME Bookkeeping, ForgedExtendsTip, [Next]_vars
  PROVE  ForgedExtendsTip'
<1> SUFFICES ASSUME worker'.pc = "forged" PROVE ForgedExtendsTip'
  BY DEF ForgedExtendsTip
<1>1. ASSUME NEW b, worker'.cand = b, ValidStructure(b), chain' = chain
      PROVE  ForgedExtendsTip'
  BY <1>1 DEF ForgedExtendsTip, ValidStructure, TipHeight, Tip
<1>2. CASE RunForgeCreate
  <2>1. PICK b \in CreateBlock(LocalMiner) : worker' = At("forged", worker.job, b)
    BY <1>2 DEF RunForgeCreate
  <2>2. ValidStructure(b) /\ worker'.cand = b /\ chain' = chain
    BY <1>2, <2>1 DEF CreateBlock, At, RunForgeCreate, chainVars
  <2> QED
    BY <1>1, <2>2
<1>3. CASE worker' = worker /\ chain' = chain
  BY <1>1, <1>3 DEF ForgedExtendsTip
<1>4. ASSUME NEW pc \in {"top", "get", "exit", "dead", "held"}, NEW j, worker' = At(pc, j, NoBlock)
      PROVE  FALSE
  BY <1>4 DEF At
<1>5. ASSUME NEW pc \in {"expiring", "run", "reorged"}, worker' = [worker EXCEPT !.pc = pc]
      PROVE  FALSE
  <2>1. worker \in [pc : WorkerPcs, job : 0 .. Len(job), cand : Blocks \cup {NoBlock}]
    BY DEF Bookkeeping, TypeOK, WorkerPcs
  <2> QED
    BY <1>5, <2>1
<1>6. ~WorkerLoop /\ ~WorkerGetEmpty /\ ~WorkerGet /\ ~WorkerStop /\ ~WorkerExpire
      /\ ~WorkerDies /\ ~RunForgeError /\ ~ \E result \in BOOLEAN : Finish(result)
  BY <1>4 DEF WorkerLoop, WorkerGetEmpty, WorkerGet, WorkerStop, WorkerExpire, WorkerDies,
     RunForgeError, Finish, Idle
<1>7. ~WorkerFindsExpired /\ ~WorkerStart /\ ~RunReorgFirst
  BY <1>5, <1>6 DEF WorkerFindsExpired, WorkerStart, RunReorgFirst
<1>8. ~RunImport /\ ~RunAdd /\ ~RunForgeAdd /\ ~RunReorg /\ ~RunImportSecond
  BY <1>6 DEF RunImport, RunAdd, RunForgeAdd, RunReorg, RunImportSecond
<1>9. RunForgeCreate \/ (worker' = worker /\ chain' = chain)
  BY <1>6, <1>7, <1>8
     DEF Next, Worker, Dispatch, Submit, Stop, Put, Elapse, QueueTimeout, AdapterTimeout,
         CatchUpTimeout, ForkTimeout, GiveUp, ValidatorSetChanges, SetActiveValidatorCount,
         vars, chainVars, queueVars
<1> QED
  BY <1>2, <1>3, <1>9

LEMMA QueueInvInit == Init => QueueInv /\ ChainInv
<1> SUFFICES ASSUME Init PROVE QueueInv /\ ChainInv
  OBVIOUS
<1>1. ChainInv /\ TypeOKChain
  BY ChainInvInit DEF Init, ChainInv
<1>2. /\ job = <<>> /\ fut = <<>> /\ putting = {} /\ queue = {} /\ due = {} /\ running = TRUE
      /\ worker = [pc |-> "top", job |-> 0, cand |-> NoBlock]
  BY DEF Init, Idle, At, NoJob
<1>3. Cardinality(queue) <= MaxSize
  BY <1>2, FS_EmptySet, ChainApplyAssumption
<1>4. QueueTypes
  BY <1>2, <1>3 DEF QueueTypes, WorkerPcs, Tables
<1>5. OnePlace /\ WorkerInv /\ LateIsDue /\ ForgedExtendsTip
  BY <1>2 DEF OnePlace, WorkerInv, LateIsDue, ForgedExtendsTip, NoJob
<1> QED
  BY <1>1, <1>4, <1>5, BookSplit DEF QueuePart, QueueInv

LEMMA FullStep ==
  (QueueInv /\ ChainInv) /\ [Next]_vars => (QueueInv /\ ChainInv)'
<1> SUFFICES ASSUME QueueInv, ChainInv, [Next]_vars PROVE QueueInv' /\ ChainInv'
  OBVIOUS
<1>0. Bookkeeping /\ ForgedExtendsTip
  BY DEF QueueInv
<1>1. ChainInv'
  BY <1>0, QueueStepEffect, ChainInvEffect
<1>2. QueuePart' /\ TypeOKChain'
  BY <1>0, <1>1, BookStep DEF ChainInv
<1>3. Bookkeeping'
  BY <1>2, BookSplit, PTL
<1>4. QueueInv'
  BY <1>0, <1>3, ForgedStep DEF QueueInv
<1> QED
  BY <1>1, <1>4

\* The apply queue and the chain behind it keep their invariants: capacity,
\* one place per job, no import between create and add, one linked chain at
\* or above its finalized floor.
THEOREM QueueSafe == Spec => [](QueueInv /\ ChainInv)
  BY QueueInvInit, FullStep, PTL DEF Spec

-----------------------------------------------------------------------------
(***************************************************************************)
(* What a caller may conclude.                                             *)
(***************************************************************************)
LEMMA StartStep ==
  ASSUME Bookkeeping, [Next]_vars
  PROVE  StartsInTime
<1> SUFFICES ASSUME Starts, Current.kind \in {"IMPORT", "ADD", "FORGE_AND_APPLY"}
             PROVE  fut[worker.job] = "waiting"
  BY DEF StartsInTime
<1>1. worker.pc = "held" /\ worker'.pc = "run"
  BY DEF Starts
<1>2. worker.job \notin due
  <2>1. ASSUME NEW pc \in {"top", "exit", "dead"}, worker' = At(pc, NoJob, NoBlock) PROVE FALSE
    BY <1>1, <2>1 DEF At
  <2>2. worker' # worker
    BY <1>1
  <2>3. ~WorkerStop /\ ~WorkerExpire /\ ~WorkerDies /\ ~WorkerFindsExpired
    <3>1. DOMAIN worker = {"pc", "job", "cand"}
      BY DEF Bookkeeping, TypeOK
    <3> QED
      BY <1>1, <2>1, <3>1 DEF WorkerStop, WorkerExpire, WorkerDies,
         WorkerFindsExpired, Idle
  <2>4. /\ ~Dispatch /\ ~WorkerLoop /\ ~WorkerGetEmpty /\ ~WorkerGet
    BY <1>1 DEF Dispatch, WorkerLoop, WorkerGetEmpty, WorkerGet, RunImport, RunAdd, RunForgeCreate,
       RunForgeAdd, RunForgeError, RunReorg, RunReorgFirst, RunImportSecond
  <2>5. WorkerStart
    BY <2>2, <2>3, <2>4 DEF Next, vars, queueVars, Worker, Submit, Stop, Put, Elapse, QueueTimeout,
       AdapterTimeout, CatchUpTimeout, ForkTimeout, GiveUp, ValidatorSetChanges
  <2> QED
    BY <2>5 DEF WorkerStart
<1>3. worker.job \in DOMAIN job
  BY <1>1, CurrentFacts
<1> QED
  BY <1>2, <1>3 DEF Bookkeeping, LateIsDue, Current

\* A job whose caller waits as long as its deadline never starts after that
\* caller gave up: the deadline test of _run is enough for these lanes.
THEOREM StartsSafe == Spec => NoStartAfterTimeout
<1>1. (QueueInv /\ ChainInv) /\ [Next]_vars => StartsInTime
  BY StartStep DEF QueueInv
<1> QED
  BY <1>1, QueueSafe, PTL DEF Spec, NoStartAfterTimeout

\* add_block and import_block return True exactly when they append.
LEMMA ResultMatches ==
  ASSUME TypeOKChain, NEW b \in Blocks, NEW preserve \in BOOLEAN, NEW result \in BOOLEAN,
         AddBlock(b, preserve, result)
  PROVE  IF result THEN Len(chain') = Len(chain) + 1 ELSE chain' = chain
  BY DEF AddBlock, RecordAndPersist, Persist, ProcessBlockFinality, TypeOKChain, chainVars

LEMMA AnswerStep ==
  ASSUME Bookkeeping, [Next]_vars
  PROVE  TrueAnswers
<1> SUFFICES ASSUME NEW j \in DOMAIN job, Answered(j)
             PROVE  IF fut'[j] = "true" THEN Len(chain') = Len(chain) + 1 ELSE chain' = chain
  BY TablesFacts DEF TrueAnswers
<1>1. /\ TypeOKChain /\ fut[j] = "waiting" /\ fut'[j] # "waiting"
      /\ job[j].kind \in {"IMPORT", "ADD", "FORGE_AND_APPLY"}
  BY DEF Bookkeeping, TypeOK, Answered
<1>2. ASSUME NEW k \in DOMAIN job, NEW outcome \in Outcomes, Settle(k, outcome)
      PROVE  k = j /\ fut'[j] = outcome
  BY <1>1, <1>2, SettleEffect
<1>3. ASSUME NEW b \in Blocks, NEW preserve \in BOOLEAN, NEW result \in BOOLEAN,
             AddBlock(b, preserve, result), Finish(result), worker.job \in DOMAIN job
      PROVE  IF fut'[j] = "true" THEN Len(chain') = Len(chain) + 1 ELSE chain' = chain
  <2>1. fut'[j] = IF result THEN "true" ELSE "false"
    BY <1>2, <1>3 DEF Finish, Outcomes
  <2> QED
    BY <1>1, <1>3, <2>1, ResultMatches
<1>4. CASE RunImport \/ RunAdd \/ RunForgeAdd \/ RunImportSecond
  BY <1>3, <1>4, CurrentFacts DEF RunImport, RunAdd, RunForgeAdd, RunImportSecond, ImportBlock
<1>5. ~RunReorg /\ ~RunReorgFirst
  <2>1. ASSUME worker.pc = "run", Current.kind \in {"REORG", "REORG_AND_IMPORT"},
               NEW result \in BOOLEAN, Finish(result)
        PROVE  FALSE
    <3>1. worker.job \in DOMAIN job
      BY <2>1, CurrentFacts
    <3>2. worker.job = j
      BY <1>2, <2>1, <3>1 DEF Finish, Outcomes
    <3> QED
      BY <1>1, <2>1, <3>2 DEF Current
  <2> QED
    BY <1>1, <2>1 DEF RunReorg, RunReorgFirst
<1>6. ASSUME NEW outcome \in Outcomes \ {"true"}, NEW k \in DOMAIN job, Settle(k, outcome),
             UNCHANGED chainVars
      PROVE  IF fut'[j] = "true" THEN Len(chain') = Len(chain) + 1 ELSE chain' = chain
  BY <1>2, <1>6 DEF chainVars
<1>7. CASE WorkerExpire \/ WorkerDies \/ RunForgeError
  BY <1>6, <1>7, CurrentFacts DEF Overdue, WorkerExpire, WorkerDies, RunForgeError, Outcomes
<1>8. ~WorkerStop
  <2>1. SUFFICES ASSUME WorkerStop PROVE FALSE
    OBVIOUS
  <2>2. worker.job = j
    BY <1>2, <2>1, CurrentFacts DEF WorkerStop, Outcomes
  <2> QED
    BY <1>1, <2>1, <2>2 DEF WorkerStop, Current
<1>9. ASSUME NEW k \in DOMAIN job, Put(k)
      PROVE  IF fut'[j] = "true" THEN Len(chain') = Len(chain) + 1 ELSE chain' = chain
  BY <1>1, <1>6, <1>9 DEF Put, Outcomes
<1>10. ASSUME NEW k \in DOMAIN job, GiveUp(k)
       PROVE  IF fut'[j] = "true" THEN Len(chain') = Len(chain) + 1 ELSE chain' = chain
  <2>1. chain' = chain /\ fut'[j] \in {fut[j], "gaveup"}
    BY <1>10, TablesFacts DEF GiveUp, chainVars, Tables
  <2> QED
    BY <1>1, <2>1
<1>11. ASSUME NEW r, TakeNumber(r) PROVE FALSE
  BY <1>1, <1>11, TablesFacts DEF TakeNumber, Tables
<1>12. ASSUME fut' = fut PROVE FALSE
  BY <1>1, <1>12
<1>13. ~ \E r \in Requests : Submit(r)
  BY <1>11 DEF Submit
<1>14. ~Stop
  BY <1>11 DEF Stop
<1>15. /\ ~WorkerLoop /\ ~WorkerGetEmpty /\ ~WorkerGet
       /\ ~WorkerFindsExpired /\ ~WorkerStart /\ ~RunForgeCreate
  BY <1>12 DEF WorkerLoop, WorkerGetEmpty, WorkerGet, WorkerFindsExpired, WorkerStart, RunForgeCreate
<1>16. /\ fut' # fut
       /\ ~ \E k \in DOMAIN job : Elapse(k)
       /\ ~ \E n \in ActiveCounts : ValidatorSetChanges(n)
       /\ ~ UNCHANGED vars
  BY <1>12 DEF Elapse, ValidatorSetChanges, queueVars, vars
<1> QED
  BY <1>4, <1>5, <1>7, <1>8, <1>9, <1>10, <1>13, <1>14, <1>15, <1>16
     DEF Next, Worker, Dispatch, QueueTimeout, AdapterTimeout, CatchUpTimeout, ForkTimeout

\* A caller that is told True has its block on the chain; any other answer to
\* a single-block job came from a step that left the chain alone.
THEOREM AnswersSafe == Spec => AnswerMatchesChain
<1>1. (QueueInv /\ ChainInv) /\ [Next]_vars => TrueAnswers
  BY AnswerStep DEF QueueInv
<1> QED
  BY <1>1, QueueSafe, PTL DEF Spec, AnswerMatchesChain

-----------------------------------------------------------------------------
(***************************************************************************)
(* Refinement: the chain behind the queue is the abstract ledger.          *)
(***************************************************************************)
LEMMA LedgerInit == Init => Ledger!Init
  BY DEF Init, InitChain, InitFinality, Ledger!Init, FinalizedBlocks

LEMMA LedgerStep ==
  (QueueInv /\ ChainInv) /\ [Next]_vars /\ (QueueInv /\ ChainInv)' => [Ledger!Next]_(Ledger!vars)
<1> SUFFICES ASSUME QueueInv, ChainInv, [Next]_vars, ChainInv'
             PROVE  [Ledger!Next]_(Ledger!vars)
  OBVIOUS
<1>1. TypeOKChain /\ chain \in Seq(Blocks) /\ Len(chain) \in Nat /\ nActive \in Nat
  BY BlockchainAssumption DEF ChainInv, TypeOKChain
<1>2. CASE \E b \in Blocks : Extended(b)
  <2>1. PICK b \in Blocks : Extended(b)
    BY <1>2
  <2>2. /\ ParentOf[b] = chain[Len(chain)] /\ HeightOf[b] = Len(chain)
        /\ chain' = Append(chain, b)
    BY <1>1, <2>1 DEF Extended, ValidStructure, Tip, TipHeight
  <2>3. FinalizedBlocks(fin) \subseteq FinalizedBlocks(fin)'
    <3>1. fin.checkpoints \subseteq fin'.checkpoints /\ fin.finalized \subseteq fin'.finalized
      <4> DEFINE g == ProcessBlock(fin, b, nActive)
      <4>1. /\ g.checkpoints =
                 IF \E c \in fin.checkpoints : GetEpoch(c) = GetEpoch(b)
                   THEN fin.checkpoints ELSE fin.checkpoints \cup {b}
            /\ fin.finalized \subseteq g.finalized
        BY <1>1, ProcessBlockEffect
      <4> HIDE DEF g
      <4>2. fin' = g
        BY <2>1 DEF Extended, g
      <4> QED
        BY <4>1, <4>2
    <3> QED
      BY <3>1 DEF FinalizedBlocks, GetEpoch
  <2>4. \A c \in FinalizedBlocks(fin)' : HeightOf[c] <= HeightOf[b]
    <3>1. Len(chain') = Len(chain) + 1
      BY <1>1, <2>2
    <3> QED
      BY <1>1, <2>2, <3>1 DEF ChainInv, FloorReached, TipHeight
  <2>5. Ledger!Extend(b)
    BY <2>2, <2>3, <2>4 DEF Ledger!Extend
  <2> QED
    BY <2>5 DEF Ledger!Next
<1>3. CASE \E h \in Nat : CutTo(h)
  <2>1. PICK h \in Nat : CutTo(h)
    BY <1>3
  <2>2. h \in 0 .. Len(chain) - 2 /\ chain' = SubSeq(chain, 1, h + 1) /\ fin' = fin
    BY <1>1, <2>1 DEF CutTo, TipHeight
  <2>3. \A c \in FinalizedBlocks(fin) : HeightOf[c] <= h
    <3>1. \A c \in FinalizedBlocks(fin) : c \in Blocks /\ HeightOf[c] \in Nat
      BY <1>1, BlockFacts DEF FinalizedBlocks, TypeOKChain
    <3> QED
      BY <2>1, <3>1 DEF CutTo, BelowFloor
  <2>4. Ledger!Rollback(h)
    BY <2>2, <2>3 DEF Ledger!Rollback, FinalizedBlocks, GetEpoch
  <2> QED
    BY <2>2, <2>4 DEF Ledger!Next
<1>4. CASE Kept
  BY <1>4 DEF Kept, Ledger!vars, FinalizedBlocks, GetEpoch
<1> QED
  BY <1>2, <1>3, <1>4, QueueStepEffect DEF QueueInv

\* Seen through the queue, with every interleaving of callers and worker, the
\* canonical chain only gains a child of its tip or loses an unsealed suffix.
THEOREM LedgerImplemented == Spec => ImplementsLedger
  BY LedgerInit, LedgerStep, QueueSafe, PTL DEF Spec, ImplementsLedger, Ledger!Spec

-----------------------------------------------------------------------------
(***************************************************************************)
(* fast_sync beside the queue.  ForgedExtendsTip and FloorReached do not   *)
(* survive it; the queue's tables and the links of the chain do, and a     *)
(* rollback that was allowed stays above the floor it has read.            *)
(***************************************************************************)
SyncTyped ==
  /\ sync \in [pc : {"idle", "picked", "allowed"}, to : Nat, floor : SUBSET Blocks]
  /\ sync.pc = "allowed" => \A c \in sync.floor : HeightOf[c] <= sync.to

LEMMA NoSyncTyped ==
  NoSync \in [pc : {"idle", "picked", "allowed"}, to : Nat, floor : SUBSET Blocks]
    /\ NoSync.pc = "idle"
  BY DEF NoSync

\* The engine keeps its type: what TypeOKChain needs besides the chain.
LEMMA ChainTyped ==
  ASSUME TypeOKChain, [Next]_vars, Bookkeeping, chain' \in Seq(Blocks) /\ chain' # <<>>
  PROVE  TypeOKChain'
<1>1. nActive \in Nat
  BY BlockchainAssumption DEF TypeOKChain
<1>2. fin' \in [checkpoints : SUBSET Blocks, votes : SUBSET (Nat \X Miners),
                justified : SUBSET Nat, finalized : SUBSET Nat, current : Nat]
  <2>1. ASSUME NEW b \in Blocks, Extended(b) PROVE fin' \in
          [checkpoints : SUBSET Blocks, votes : SUBSET (Nat \X Miners),
           justified : SUBSET Nat, finalized : SUBSET Nat, current : Nat]
    <3>1. fin' = ProcessBlock(fin, b, nActive)
      BY <2>1 DEF Extended
    <3> QED
      BY <1>1, <3>1, ProcessBlockEffect
  <2>2. CASE fin' = fin
    BY <2>2 DEF TypeOKChain
  <2> QED
    BY <2>1, <2>2, QueueStepEffect DEF CutTo, Kept
<1> QED
  BY <1>2, QueueStepEffect DEF TypeOKChain

\* A step of the queue beside a rollback.
LEMMA QueueBesideSync ==
  ASSUME SurvivesFastSync, [Next]_vars
  PROVE  SurvivesFastSync'
<1>1. Bookkeeping /\ ChainLinked /\ TypeOKChain
  BY DEF SurvivesFastSync, Bookkeeping, TypeOK
<1>2. chain' \in Seq(Blocks) /\ chain' # <<>> /\ ChainLinked'
  <2>1. ASSUME NEW b \in Blocks, Extended(b) PROVE chain' \in Seq(Blocks) /\ chain' # <<>> /\ ChainLinked'
    BY <1>1, <2>1, ExtendKeepsLinks
  <2>2. ASSUME NEW h \in Nat, CutTo(h) PROVE chain' \in Seq(Blocks) /\ chain' # <<>> /\ ChainLinked'
    BY <1>1, <2>2, CutKeepsLinks DEF CutTo
  <2>3. CASE Kept
    BY <1>1, <2>3 DEF Kept, TypeOKChain, ChainLinked
  <2> QED
    BY <1>1, <2>1, <2>2, <2>3, QueueStepEffect
<1>3. QueuePart' /\ TypeOKChain'
  BY <1>1, <1>2, BookStep, ChainTyped
<1>4. Bookkeeping'
  BY <1>3, BookSplit, PTL
<1> QED
  BY <1>2, <1>4 DEF SurvivesFastSync

LEMMA CutStep ==
  ASSUME SurvivesFastSync, SyncTyped, SyncCut
  PROVE  SurvivesFastSync'
<1>1. Bookkeeping /\ ChainLinked /\ TypeOKChain /\ QueuePart
  BY BookSplit DEF SurvivesFastSync, Bookkeeping, TypeOK
<1>2. sync.to \in Nat
  BY DEF SyncTyped
<1>3. UNCHANGED <<queueVars, proposals, slashed, fin, nActive>>
  BY DEF SyncCut
<1>4. CASE chain' = chain
  BY <1>3, <1>4 DEF SurvivesFastSync, Bookkeeping, TypeOK, TypeOKChain, OnePlace, WorkerInv,
     LateIsDue, Current, ChainLinked, queueVars
<1>5. CASE sync.to < TipHeight /\ chain' = SubSeq(chain, 1, sync.to + 1)
  <2>1. chain' \in Seq(Blocks) /\ chain' # <<>> /\ ChainLinked'
    BY <1>1, <1>2, <1>5, CutKeepsLinks
  <2>2. TypeOKChain'
    BY <1>1, <1>3, <2>1 DEF TypeOKChain
  <2>3. QueuePart'
    BY <1>1, <1>3 DEF QueuePart, QueueTypes, Tables, OnePlace, WorkerInv, LateIsDue, Current,
       queueVars
  <2>4. Bookkeeping'
    BY <2>2, <2>3, BookSplit, PTL
  <2> QED
    BY <2>1, <2>4 DEF SurvivesFastSync
<1> QED
  BY <1>4, <1>5 DEF SyncCut

LEMMA SyncStep ==
  (SurvivesFastSync /\ SyncTyped) /\ [NextSync]_allVars => (SurvivesFastSync /\ SyncTyped)'
<1> SUFFICES ASSUME SurvivesFastSync, SyncTyped, [NextSync]_allVars
             PROVE  SurvivesFastSync' /\ SyncTyped'
  OBVIOUS
<1>1. TypeOKChain /\ chain \in Seq(Blocks) /\ Len(chain) \in Nat
  BY DEF SurvivesFastSync, Bookkeeping, TypeOK, TypeOKChain
<1>2. CASE [Next]_vars /\ UNCHANGED sync
  BY <1>2, QueueBesideSync DEF SyncTyped
<1>3. ASSUME NEW b \in Blocks, SyncPick(b) PROVE SurvivesFastSync' /\ SyncTyped'
  <2>1. SyncTyped'
    BY <1>1, <1>3 DEF SyncPick, SyncTyped
  <2> QED
    BY <1>3, <2>1, QueueBesideSync DEF SyncPick
<1>4. CASE SyncFloor
  <2>1. SurvivesFastSync'
    BY <1>4, QueueBesideSync DEF SyncFloor
  <2>2. CASE sync' = NoSync
    BY <2>1, <2>2, NoSyncTyped DEF SyncTyped
  <2>3. CASE ~BelowFloor(fin, sync.to)
             /\ sync' = [sync EXCEPT !.pc = "allowed", !.floor = FinalizedBlocks(fin)]
    <3>1. FinalizedBlocks(fin) \subseteq Blocks
      BY <1>1 DEF FinalizedBlocks, TypeOKChain
    <3>2. /\ sync' \in [pc : {"idle", "picked", "allowed"}, to : Nat, floor : SUBSET Blocks]
          /\ sync'.to = sync.to /\ sync'.floor = FinalizedBlocks(fin)
      BY <2>3, <3>1 DEF SyncTyped
    <3>3. \A c \in FinalizedBlocks(fin) : HeightOf[c] <= sync.to
      BY <2>3, <3>1, BlockFacts DEF BelowFloor, SyncTyped
    <3> QED
      BY <2>1, <3>2, <3>3 DEF SyncTyped
  <2> QED
    BY <1>4, <2>2, <2>3 DEF SyncFloor
<1>5. CASE SyncCut
  <2>1. SyncTyped'
    BY <1>5, NoSyncTyped DEF SyncCut, SyncTyped
  <2> QED
    BY <1>5, <2>1, CutStep
<1> QED
  BY <1>2, <1>3, <1>4, <1>5 DEF NextSync, allVars

\* A rollback on the thread of the request that asked for a synchronisation,
\* between any two steps of the worker, breaks neither the links of the chain
\* nor the queue's promise to execute a job once and in time.
THEOREM FastSyncSurvived == SyncSpec => []SurvivesFastSync
<1>1. InitSync => SurvivesFastSync /\ SyncTyped
  BY QueueInvInit, NoSyncTyped
     DEF InitSync, QueueInv, ChainInv, SurvivesFastSync, SyncTyped
<1> QED
  BY <1>1, SyncStep, PTL DEF SyncSpec

LEMMA UnseenStep ==
  ASSUME SurvivesFastSync, SyncTyped, [NextSync]_allVars
  PROVE  CutsOnlyUnseen
<1> DEFINE protected == IF sync.pc = "allowed" /\ sync'.pc = "idle"
                          THEN sync.floor ELSE FinalizedBlocks(fin)
<1> SUFFICES ASSUME NEW c \in protected, NEW i \in 1 .. Len(chain), i <= HeightOf[c] + 1
             PROVE  i <= Len(chain') /\ chain'[i] = chain[i]
  BY DEF CutsOnlyUnseen
<1>0. Bookkeeping /\ TypeOKChain
  BY DEF SurvivesFastSync, Bookkeeping, TypeOK
<1>1. Bookkeeping /\ TypeOKChain /\ chain \in Seq(Blocks) /\ Len(chain) \in Nat
  BY <1>0 DEF TypeOKChain
<1>2. c \in Blocks /\ HeightOf[c] \in Nat
  BY <1>1, BlockFacts DEF SyncTyped, FinalizedBlocks, TypeOKChain
<1>3. CASE chain' = chain
  BY <1>1, <1>3
<1>4. ASSUME NEW h \in Nat, HeightOf[c] <= h, h < TipHeight, chain' = SubSeq(chain, 1, h + 1)
      PROVE  i <= Len(chain') /\ chain'[i] = chain[i]
  <2>1. i \in 1 .. h + 1 /\ h + 1 <= Len(chain)
    BY <1>1, <1>2, <1>4 DEF TipHeight
  <2> QED
    BY <1>1, <1>4, <2>1
<1>5. CASE [Next]_vars /\ UNCHANGED sync
  <2>1. c \in FinalizedBlocks(fin)
    BY <1>5
  <2>2. CASE \E b \in Blocks : Extended(b)
    BY <1>1, <2>2 DEF Extended
  <2>3. ASSUME NEW h \in Nat, CutTo(h) PROVE i <= Len(chain') /\ chain'[i] = chain[i]
    <3>1. HeightOf[c] <= h
      BY <1>2, <2>1, <2>3 DEF CutTo, BelowFloor
    <3> QED
      BY <1>4, <2>3, <3>1 DEF CutTo
  <2>4. CASE Kept
    BY <1>3, <2>4 DEF Kept
  <2> QED
    BY <1>1, <1>5, <2>2, <2>3, <2>4, QueueStepEffect
<1>6. CASE SyncCut
  <2>1. sync.pc = "allowed" /\ sync'.pc = "idle"
    BY <1>6, NoSyncTyped DEF SyncCut
  <2>2. HeightOf[c] <= sync.to /\ sync.to \in Nat
    BY <2>1 DEF SyncTyped
  <2> QED
    BY <1>3, <1>4, <1>6, <2>2 DEF SyncCut
<1>7. CASE SyncFloor \/ \E b \in Blocks : SyncPick(b)
  BY <1>3, <1>7 DEF SyncFloor, SyncPick, vars, chainVars
<1> QED
  BY <1>5, <1>6, <1>7 DEF NextSync, allVars

\* reorg_to_ancestor outside the queue never cuts a height that was final when
\* it read the floor, and nothing else cuts a final one: only checkpoints
\* finalized between the read and the chain lock are exposed.
THEOREM FloorSeenHolds == SyncSpec => SeenFloorHolds
<1>1. InitSync => SurvivesFastSync /\ SyncTyped
  BY QueueInvInit, NoSyncTyped
     DEF InitSync, QueueInv, ChainInv, SurvivesFastSync, SyncTyped
<1>2. (SurvivesFastSync /\ SyncTyped) /\ [NextSync]_allVars => [CutsOnlyUnseen]_allVars
  BY UnseenStep
<1> QED
  BY <1>1, <1>2, SyncStep, PTL DEF SyncSpec, SeenFloorHolds
=============================================================================
