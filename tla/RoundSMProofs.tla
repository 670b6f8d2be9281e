---------------------------- MODULE RoundSMProofs ----------------------------
(***************************************************************************)
(* The round state machine for every set of validators, distribution of    *)
(* stake and votes: its shape, what stands behind a hash that has a        *)
(* precommit certificate, and that two such hashes in one stay in a round  *)
(* cost a third of the stake.                                              *)
(*                                                                         *)
(* The first part is about sums of stake.  StakeOf adds the stakes of a    *)
(* set one by one; the lemmas show that this is the number of the set's    *)
(* units of stake, so that the theorems about cardinality apply to it.     *)
(***************************************************************************)
EXTENDS RoundSM, FiniteSetTheorems, FunctionTheorems, WellFoundedInduction, TLAPS

\* The least element of a set of numbers, for the arguments by minimal
\* counterexample below.
LEMMA LeastNat ==
  ASSUME NEW T \in SUBSET Nat, T # {}
  PROVE  \E x \in T : \A y \in T : x <= y
<1> DEFINE R == OpToRel(<, Nat)
<1>1. IsWellFoundedOn(R, Nat)
  BY NatLessThanWellFounded
<1>2. \A y \in Nat, x \in Nat : y < x => <<y, x>> \in R
  BY DEF OpToRel
<1> HIDE DEF R
<1>3. PICK x \in T : \A y \in T : ~ (<<y, x>> \in R)
  BY <1>1, WFMin
<1>4. ASSUME NEW y \in T PROVE x <= y
  <2>1. x \in Nat /\ y \in Nat /\ ~ (<<y, x>> \in R)
    BY <1>3
  <2>2. ~ (y < x)
    BY <1>2, <2>1
  <2> QED
    BY <2>1, <2>2
<1> QED
  BY <1>4

\* A validator's stake, unit by unit: the sum of a set is the size of its units.
Units(S) == {p \in S \X Nat : p[2] \in 1 .. Stake[p[1]]}

LEMMA UnitsOfOne ==
  ASSUME NEW v \in Validators
  PROVE  IsFiniteSet(Units({v})) /\ Cardinality(Units({v})) = Stake[v]
<1>1. Stake[v] \in Nat
  BY RoundAssumption
<1>2. Units({v}) = {v} \X (1 .. Stake[v])
  BY <1>1 DEF Units
<1>3. IsFiniteSet({v}) /\ Cardinality({v}) = 1
  BY FS_Singleton
<1>4. IsFiniteSet(1 .. Stake[v]) /\ Cardinality(1 .. Stake[v]) = Stake[v]
  BY <1>1, FS_Interval
<1>5. IsFiniteSet({v} \X (1 .. Stake[v]))
      /\ Cardinality({v} \X (1 .. Stake[v])) = Cardinality({v}) * Cardinality(1 .. Stake[v])
  BY <1>3, <1>4, FS_Product
<1>6. 1 * Stake[v] = Stake[v]
  BY <1>1
<1> QED
  BY <1>2, <1>3, <1>4, <1>5, <1>6

LEMMA UnitsFinite ==
  ASSUME NEW S \in SUBSET Validators
  PROVE  IsFiniteSet(Units(S)) /\ Cardinality(Units(S)) \in Nat
<1> DEFINE f == [v \in S |-> Units({v})]
           T == {Units({v}) : v \in S}
<1>1. IsFiniteSet(S)
  BY RoundAssumption, FS_Subset
<1>2. f \in Surjection(S, T)
  BY DEF Surjection
<1>3. IsFiniteSet(T)
  <2> HIDE DEF f, T
  <2> QED
    BY <1>1, <1>2, FS_Surjection
<1>4. \A u \in T : IsFiniteSet(u)
  BY UnitsOfOne
<1>5. IsFiniteSet(UNION T)
  <2> HIDE DEF f, T
  <2> QED
    BY <1>3, <1>4, FS_UNION
<1>6. Units(S) \subseteq UNION T
  BY DEF Units
<1>7. IsFiniteSet(Units(S))
  <2> HIDE DEF f, T
  <2> QED
    BY <1>5, <1>6, FS_Subset
<1> QED
  BY <1>7, FS_CardinalityType

LEMMA UnitsWithout ==
  ASSUME NEW s \in SUBSET Validators, NEW x \in s
  PROVE  Cardinality(Units(s)) = Stake[x] + Cardinality(Units(s \ {x}))
<1>1. Units(s) = Units({x}) \cup Units(s \ {x}) /\ Units({x}) \cap Units(s \ {x}) = {}
  BY DEF Units
<1>2. IsFiniteSet(Units({x})) /\ Cardinality(Units({x})) = Stake[x] /\ Stake[x] \in Nat
  BY UnitsOfOne, RoundAssumption
<1>3. IsFiniteSet(Units(s \ {x})) /\ Cardinality(Units(s \ {x})) \in Nat
  BY UnitsFinite
<1>4. Cardinality(Units({x}) \cup Units(s \ {x}))
        = Cardinality(Units({x})) + Cardinality(Units(s \ {x})) - Cardinality(Units({x}) \cap Units(s \ {x}))
  BY <1>2, <1>3, FS_Union
<1>5. Cardinality(Units({x}) \cap Units(s \ {x})) = 0
  BY <1>1, FS_EmptySet
<1> QED
  BY <1>1, <1>2, <1>3, <1>4, <1>5

\* What MapThenSumSet computes: the function that takes one element at a time.
Some(s) == CHOOSE x \in s : TRUE
Tally(S) ==
  CHOOSE g : g = [s \in SUBSET S |->
                    IF s = {} THEN 0 ELSE Stake[Some(s)] + g[s \ {Some(s)}]]

LEMMA StakeIsTally == ASSUME NEW S PROVE StakeOf(S) = Tally(S)[S]
  BY Zenon DEF StakeOf, MapThenSumSet, MapThenFoldSet, Tally, Some

LEMMA TallyDefined ==
  ASSUME NEW S \in SUBSET Validators
  PROVE  Tally(S) = [s \in SUBSET S |->
                       IF s = {} THEN 0 ELSE Stake[Some(s)] + Tally(S)[s \ {Some(s)}]]
<1> DEFINE g == [s \in SUBSET S |-> Cardinality(Units(s))]
<1>1. ASSUME NEW s \in SUBSET S
      PROVE  g[s] = IF s = {} THEN 0 ELSE Stake[Some(s)] + g[s \ {Some(s)}]
  <2>1. CASE s = {}
    <3>1. Units(s) = {}
      BY <2>1 DEF Units
    <3> QED
      BY <2>1, <3>1, FS_EmptySet
  <2>2. CASE s # {}
    <3>1. Some(s) \in s
      BY <2>2 DEF Some
    <3>2. s \in SUBSET Validators /\ s \ {Some(s)} \in SUBSET S
      OBVIOUS
    <3>3. Cardinality(Units(s)) = Stake[Some(s)] + Cardinality(Units(s \ {Some(s)}))
      BY <3>1, <3>2, UnitsWithout
    <3> QED
      BY <2>2, <3>2, <3>3
  <2> QED
    BY <2>1, <2>2
<1>2. g = [s \in SUBSET S |-> IF s = {} THEN 0 ELSE Stake[Some(s)] + g[s \ {Some(s)}]]
  <2> DEFINE h == [s \in SUBSET S |-> IF s = {} THEN 0 ELSE Stake[Some(s)] + g[s \ {Some(s)}]]
  <2>1. \A s \in SUBSET S : g[s] = h[s]
    <3> HIDE DEF g
    <3> QED
      BY <1>1
  <2>2. DOMAIN g = SUBSET S /\ DOMAIN h = SUBSET S
    OBVIOUS
  <2>3. g = [s \in SUBSET S |-> g[s]] /\ h = [s \in SUBSET S |-> h[s]]
    OBVIOUS
  <2> QED
    BY <2>1, <2>3, Zenon
<1> HIDE DEF g
<1>3. \E k : k = [s \in SUBSET S |-> IF s = {} THEN 0 ELSE Stake[Some(s)] + k[s \ {Some(s)}]]
  BY <1>2
<1> QED
  BY <1>3, Zenon DEF Tally

\* The stake of a set of validators is the number of its units.
LEMMA StakeCounts ==
  ASSUME NEW S \in SUBSET Validators
  PROVE  StakeOf(S) = Cardinality(Units(S))
<1> DEFINE Wrong == {s \in SUBSET S : Tally(S)[s] # Cardinality(Units(s))}
           Sizes == {n \in Nat : \E s \in Wrong : Cardinality(s) = n}
<1>1. ASSUME NEW s \in SUBSET S
      PROVE  Tally(S)[s] = IF s = {} THEN 0 ELSE Stake[Some(s)] + Tally(S)[s \ {Some(s)}]
  BY TallyDefined
<1>2. ASSUME NEW s \in SUBSET S
      PROVE  IsFiniteSet(s) /\ Cardinality(s) \in Nat
  BY RoundAssumption, FS_Subset, FS_CardinalityType
<1>3. ASSUME Sizes # {} PROVE FALSE
  <2>1. PICK n \in Sizes : \A m \in Sizes : n <= m
    <3> HIDE DEF Sizes
    <3>1. Sizes \in SUBSET Nat
      BY DEF Sizes
    <3> QED
      BY <1>3, <3>1, LeastNat
  <2>2. PICK s \in Wrong : Cardinality(s) = n
    BY <2>1
  <2>3. s # {}
    <3>1. ASSUME s = {} PROVE Tally(S)[s] = Cardinality(Units(s))
      <4>1. Units(s) = {}
        BY <3>1 DEF Units
      <4> QED
        BY <1>1, <2>2, <3>1, <4>1, FS_EmptySet
    <3> QED
      BY <2>2, <3>1
  <2> DEFINE x == Some(s)
  <2>4. x \in s
    BY <2>3 DEF Some
  <2>5. s \in SUBSET S /\ s \ {x} \in SUBSET S
    BY <2>2
  <2>6. Cardinality(s \ {x}) = n - 1 /\ n - 1 \in Nat
    <3> HIDE DEF x, Wrong, Sizes
    <3>1. IsFiniteSet(s) /\ n \in Nat
      BY <1>2, <2>2, <2>5
    <3>2. Cardinality(s \ {x}) = Cardinality(s) - 1 /\ IsFiniteSet(s \ {x})
      BY <2>4, <3>1, FS_RemoveElement
    <3>3. Cardinality(s \ {x}) \in Nat
      BY <3>2, FS_CardinalityType
    <3> QED
      BY <2>2, <3>2, <3>3
  <2>7. s \ {x} \notin Wrong
    <3>1. ASSUME s \ {x} \in Wrong PROVE n - 1 \in Sizes
      BY <2>6, <3>1
    <3> QED
      BY <2>1, <2>6, <3>1
  <2>8. Tally(S)[s \ {x}] = Cardinality(Units(s \ {x}))
    BY <2>5, <2>7
  <2>9. Cardinality(Units(s)) = Stake[x] + Cardinality(Units(s \ {x}))
    BY <2>4, <2>5, UnitsWithout
  <2>10. Tally(S)[s] = Stake[x] + Tally(S)[s \ {x}]
    BY <1>1, <2>3, <2>5
  <2> QED
    BY <2>2, <2>8, <2>9, <2>10
<1>4. S \notin Wrong
  BY <1>2, <1>3
<1> QED
  BY <1>4, StakeIsTally

LEMMA StakeNat == ASSUME NEW S \in SUBSET Validators PROVE StakeOf(S) \in Nat
  BY StakeCounts, UnitsFinite

LEMMA StakeMonotone ==
  ASSUME NEW T \in SUBSET Validators, NEW S \in SUBSET T
  PROVE  StakeOf(S) <= StakeOf(T)
<1>1. S \in SUBSET Validators /\ Units(S) \in SUBSET Units(T)
  BY DEF Units
<1> QED
  BY <1>1, StakeCounts, UnitsFinite, FS_Subset

LEMMA StakeUnion ==
  ASSUME NEW S \in SUBSET Validators, NEW T \in SUBSET Validators
  PROVE  StakeOf(S \cup T) = StakeOf(S) + StakeOf(T) - StakeOf(S \cap T)
<1>1. Units(S \cup T) = Units(S) \cup Units(T) /\ Units(S \cap T) = Units(S) \cap Units(T)
  BY DEF Units
<1>2. IsFiniteSet(Units(S)) /\ IsFiniteSet(Units(T))
  BY UnitsFinite
<1>3. Cardinality(Units(S) \cup Units(T)) =
        Cardinality(Units(S)) + Cardinality(Units(T)) - Cardinality(Units(S) \cap Units(T))
  BY <1>2, FS_Union
<1>4. S \cup T \in SUBSET Validators /\ S \cap T \in SUBSET Validators
  OBVIOUS
<1> QED
  BY <1>1, <1>3, <1>4, StakeCounts
-----------------------------------------------------------------------------
(***************************************************************************)
(* The shape of the machine.                                               *)
(***************************************************************************)

LEMMA VoteFacts ==
  ASSUME NEW x \in Vote
  PROVE  /\ x.who \in Validators /\ x.type \in VoteTypes
         /\ x.height \in Heights /\ x.hash \in Hashes
  BY DEF Vote

BallotType(M) == [pc : Pcs, vote : Vote \cup {NoVote}, snap : SUBSET M, reached : BOOLEAN]
Voting == Pcs \ {"none", "locking", "rejected"}

LEMMA BallotFacts ==
  ASSUME TypeOK
  PROVE  /\ ballot \in BallotType(members)
         /\ ballot.pc \in Voting => TheVote \in Vote
  BY DEF TypeOK, BallotType, Voting, TheVote

LEMMA AtFacts ==
  ASSUME NEW pc \in Pcs, NEW x \in Vote \cup {NoVote}, NEW M, NEW S \in SUBSET M
  PROVE  /\ At(pc, x, S) \in BallotType(M) /\ At(pc, x, S).pc = pc
         /\ At(pc, x, S).vote = x /\ At(pc, x, S).snap = S
  BY DEF At, BallotType

LEMMA NoVoteFacts ==
  ASSUME NEW M, NEW pc \in {"none", "locking", "rejected"}
  PROVE  At(pc, NoVote, {}) \in BallotType(M) /\ At(pc, NoVote, {}).pc = pc
  BY AtFacts DEF Pcs

\* A ballot that moves on keeps its vote and its snapshot.
LEMMA MoveFacts ==
  ASSUME TypeOK, NEW pc \in Pcs, ballot' = [ballot EXCEPT !.pc = pc]
  PROVE  /\ ballot' \in BallotType(members) /\ ballot'.pc = pc
         /\ ballot'.vote = ballot.vote /\ ballot'.snap = ballot.snap
  BY BallotFacts DEF BallotType

LEMMA EnterTyped ==
  ASSUME TypeOK, NEW r \in Heights, EnterRound(r)
  PROVE  /\ round' \in Heights /\ proposed' \in BOOLEAN
         /\ votes' \subseteq Vote /\ seen' \subseteq Vote
         /\ certified' \subseteq Hashes
  BY DEF TypeOK, EnterRound

LEMMA HeightsFacts ==
  0 \in Heights /\ \A b \in Hashes : ChainHeight[b] \in Heights
  BY RoundAssumption DEF Heights

LEMMA TypeInit == Init => TypeOK
<1> SUFFICES ASSUME Init PROVE TypeOK
  OBVIOUS
<1>1. NoCert \in Certs
  BY DEF NoCert, Certs
<1>2. qc \in [Heights -> Certs]
  BY <1>1 DEF Init
<1>3. ballot \in BallotType(members) /\ ballot.pc = "none"
  BY NoVoteFacts DEF Init, NoBallot
<1> QED
  BY <1>2, <1>3, HeightsFacts, RoundAssumption DEF Init, TypeOK, BallotType, Phases

\* The part of the type invariant that speaks of the submission under way.
BallotOK ==
  ballot \in BallotType(members) /\ (ballot.pc \in Voting => ballot.vote \in Vote)
\* The rest of it.
RoundOK ==
  /\ round \in Heights /\ phase \in Phases
  /\ proposed \in BOOLEAN /\ expected \in Validators \cup {Nobody, Miner}
  /\ votes \subseteq Vote /\ seen \subseteq Vote
  /\ qc \in [Heights -> Certs]
  /\ finalized \subseteq Hashes /\ certified \subseteq Hashes
  /\ members \subseteq Validators /\ slashed \subseteq members

LEMMA TypeSplit == TypeOK <=> RoundOK /\ BallotOK
  BY DEF TypeOK, RoundOK, BallotOK, BallotType, Voting

\* The ballot of the next state.
LEMMA BallotStep ==
  ASSUME TypeOK, [Next]_vars
  PROVE  BallotOK'
<1>0. BallotOK /\ TheVote = ballot.vote
  BY TypeSplit DEF TheVote
<1>1. ASSUME members' = members,
             ballot' \in {NoBallot, At("locking", NoVote, {}), At("rejected", NoVote, {})}
      PROVE  BallotOK'
  BY <1>1, NoVoteFacts DEF NoBallot, BallotOK, Voting
<1>2. ASSUME members \subseteq members', ballot' = ballot PROVE BallotOK'
  BY <1>0, <1>2 DEF BallotOK, BallotType
<1>3. ASSUME members' = members, NEW pc \in Pcs, NEW x \in Vote, NEW S \in SUBSET members,
             ballot' = At(pc, x, S)
      PROVE  BallotOK'
  BY <1>3, AtFacts DEF BallotOK
<1>4. ASSUME members' = members, NEW pc \in Pcs, ballot.pc \in Voting,
             ballot' = [ballot EXCEPT !.pc = pc]
      PROVE  BallotOK'
  BY <1>0, <1>4, MoveFacts DEF BallotOK
<1>5. Ballots \subseteq Vote /\ Active \in SUBSET members
  BY RoundAssumption DEF Active
<1>6. ASSUME NEW v \in Validators, WorkerSlash(v) \/ SubmitProposal(v) \/ LegacyReject(v)
      PROVE  BallotOK'
  BY <1>1, <1>2, <1>6 DEF WorkerSlash, SubmitProposal, Convict, LegacyReject
<1>7. ASSUME NEW x \in Ballots,
             BuildPrevote(x) \/ \E verified \in BOOLEAN : SubmitVote(x, verified)
      PROVE  BallotOK'
  BY <1>1, <1>3, <1>5, <1>7 DEF BuildPrevote, SubmitVote, Convict, Pcs
<1>8. CASE SubmitBuilt \/ ConvictVote \/ Lock \/ ConcludePrevote \/ ConcludePrecommit
  BY <1>0, <1>1, <1>3, <1>5, <1>8
     DEF SubmitBuilt, ConvictVote, Convict, Lock, ConcludePrevote, ConcludePrecommit,
         BallotOK, Voting, Pcs
<1>9. CASE AdmitVote \/ Record \/ JudgePrecommit
  BY <1>1, <1>4, <1>9 DEF AdmitVote, Record, JudgePrecommit, Voting, Pcs
<1>10. CASE Certify
  BY <1>0, <1>10 DEF Certify, CertReached, QuorumReached, BallotOK, BallotType, Voting, Pcs
<1>11. ASSUME NEW b \in Hashes, AddBlock(b) PROVE BallotOK'
  BY <1>2, <1>11 DEF AddBlock
<1>12. ASSUME NEW slot \in Heights \ {0}, FailClosedDoubleVote(slot) PROVE BallotOK'
  BY <1>1, <1>12 DEF FailClosedDoubleVote
<1>13. ASSUME NEW v \in Joiners, Join(v) PROVE BallotOK'
  BY <1>2, <1>13 DEF Join
<1>14. CASE UNCHANGED vars
  BY <1>2, <1>14 DEF vars
<1> QED
  BY <1>6, <1>7, <1>8, <1>9, <1>10, <1>11, <1>12, <1>13, <1>14 DEF Next

LEMMA TypeStep == TypeOK /\ [Next]_vars => TypeOK'
<1> SUFFICES ASSUME TypeOK, [Next]_vars PROVE RoundOK'
  <2>1. TypeOK /\ [Next]_vars => BallotOK'
    BY BallotStep
  <2>2. TypeOK' <=> RoundOK' /\ BallotOK'
    BY TypeSplit, PTL
  <2> QED
    BY <2>1, <2>2
<1>0. RoundOK
  BY TypeSplit
<1>1. ASSUME NEW b \in Hashes, AddBlock(b) PROVE RoundOK'
  <2>1. CASE BeginRound(ChainHeight[b])
    BY <1>0, <1>1, <2>1, EnterTyped, HeightsFacts DEF AddBlock, BeginRound, RoundOK, Phases
  <2>2. CASE UNCHANGED <<round, phase, proposed, votes, seen, certified>>
    BY <1>0, <1>1, <2>2 DEF AddBlock, RoundOK
  <2> QED
    BY <1>1, <2>1, <2>2 DEF AddBlock
<1>2. ASSUME NEW v \in Validators, WorkerSlash(v) PROVE RoundOK'
  BY <1>0, <1>2 DEF WorkerSlash, MarkSlashed, roundVars, resultVars, RoundOK
<1>3. ASSUME NEW v \in Validators, SubmitProposal(v) PROVE RoundOK'
  BY <1>0, <1>3 DEF SubmitProposal, Convict, MarkSlashed, resultVars, RoundOK, Phases
<1>4. ASSUME NEW v \in Validators, LegacyReject(v) PROVE RoundOK'
  BY <1>0, <1>4 DEF LegacyReject, MarkSlashed, roundVars, resultVars, RoundOK
<1>5. ASSUME NEW slot \in Heights \ {0}, FailClosedDoubleVote(slot) PROVE RoundOK'
  BY <1>0, <1>5, EnterTyped DEF FailClosedDoubleVote, RoundOK, Phases
<1>6. ASSUME NEW x \in Ballots, BuildPrevote(x) PROVE RoundOK'
  <2>1. x \in Vote /\ x.height \in Heights
    BY RoundAssumption, VoteFacts
  <2>2. CASE BeginRound(x.height) /\ expected' \in ProposersDrawn
    <3>1. expected' \in Validators \cup {Nobody, Miner}
      BY <1>0, <2>2 DEF ProposersDrawn, Active, RoundOK
    <3> QED
      BY <1>0, <1>6, <2>1, <2>2, <3>1, EnterTyped DEF BuildPrevote, BeginRound, RoundOK, Phases
  <2>3. CASE UNCHANGED <<roundVars, certified>>
    BY <1>0, <1>6, <2>3 DEF BuildPrevote, roundVars, RoundOK
  <2> QED
    BY <1>6, <2>2, <2>3 DEF BuildPrevote
<1>7. ASSUME NEW x, NEW verified, SubmitVote(x, verified) PROVE RoundOK'
  BY <1>0, <1>7 DEF SubmitVote, Convict, MarkSlashed, roundVars, resultVars, RoundOK
<1>8. CASE SubmitBuilt \/ ConvictVote \/ JudgePrecommit
  BY <1>0, <1>8
     DEF SubmitBuilt, ConvictVote, Convict, MarkSlashed, JudgePrecommit, roundVars, resultVars,
         RoundOK
<1>9. CASE AdmitVote \/ Lock
  BY <1>0, <1>9 DEF AdmitVote, Lock, resultVars, RoundOK, Phases
<1>10. ASSUME ballot.pc \in Voting PROVE TheVote \in Vote /\ TheVote.hash \in Hashes
  BY <1>10, BallotFacts, VoteFacts
<1>11. CASE Record
  BY <1>0, <1>10, <1>11 DEF Record, Prior, resultVars, RoundOK, Voting, Pcs
<1>12. CASE Certify
  BY <1>0, <1>10, <1>12 DEF Certify, roundVars, RoundOK, Voting, Pcs
<1>13. CASE ConcludePrevote
  <2>1. [hash |-> TheVote.hash, reached |-> ballot.reached] \in Certs
    BY <1>10, <1>13, BallotFacts DEF ConcludePrevote, Certs, BallotType, Voting, Pcs
  <2> QED
    BY <1>0, <1>13, <2>1 DEF ConcludePrevote, RoundOK, Phases
<1>14. CASE ConcludePrecommit
  BY <1>0, <1>10, <1>14 DEF ConcludePrecommit, RoundOK, Phases, Voting, Pcs
<1>15. ASSUME NEW v \in Joiners, Join(v) PROVE RoundOK'
  BY <1>0, <1>15, RoundAssumption DEF Join, roundVars, resultVars, RoundOK
<1>16. CASE UNCHANGED vars
  BY <1>0, <1>16 DEF vars, roundVars, resultVars, RoundOK
<1> QED
  BY <1>1, <1>2, <1>3, <1>4, <1>5, <1>6, <1>7, <1>8, <1>9, <1>11, <1>12, <1>13, <1>14, <1>15,
     <1>16 DEF Next

\* The machine keeps its shape whatever comes between the steps of a
\* submission; only registered validators are ever slashed (_fail_closed).
THEOREM RoundTyped == Spec => []TypeOK
  BY TypeInit, TypeStep, PTL DEF Spec
-----------------------------------------------------------------------------
(***************************************************************************)
(* Accountable safety.  A hash that has been certified in this stay in the *)
(* round keeps its backers: the validators whose precommit _seen holds,    *)
(* with those slashed since and those who registered since, hold two       *)
(* thirds of the stake.  The snapshot by which it was certified differs    *)
(* from the registry only by those excused.  Since _seen survives a        *)
(* reopened round and holds one vote a validator, the backers of two       *)
(* hashes are different people.                                            *)
(***************************************************************************)
OneVote ==
  \A x, y \in seen : x.who = y.who /\ x.type = y.type /\ x.height = y.height => x = y
VotesSeen == votes \subseteq seen
VotersKnown == Founders \subseteq members /\ \A x \in seen : x.who \in members
AdmittedFresh ==
  ballot.pc = "admitted" =>
    Prior(TheVote) \subseteq {TheVote} /\ TheVote.who \in members
SnapFresh ==
  ballot.pc \in Voting \ {"built"} => members \ ballot.snap \subseteq Excused

VoteInv == OneVote /\ VotesSeen /\ VotersKnown /\ AdmittedFresh /\ SnapFresh

\* A round that is entered forgets votes; it never changes one.
LEMMA EnterKeepsVotes ==
  ASSUME TypeOK, VoteInv, NEW r, EnterRound(r), members' = members, slashed \subseteq slashed',
         ballot' = ballot \/ ballot'.pc \in {"none", "built", "locking", "rejected"}
  PROVE  VoteInv'
<1>1. seen' \subseteq seen /\ votes' = {}
  BY DEF EnterRound
<1> QED
  BY <1>1 DEF VoteInv, OneVote, VotesSeen, VotersKnown, AdmittedFresh, SnapFresh, Excused, Prior,
     TheVote, Voting

\* Steps that leave the votes alone and take the ballot no further than it
\* was, or to a point where nothing is asked of it.
LEMMA QuietKeepsVotes ==
  ASSUME VoteInv, UNCHANGED <<votes, seen>>,
         members \subseteq members', members' \ members \subseteq members' \ Founders,
         slashed \subseteq slashed',
         ballot' = ballot \/ ballot'.pc \in {"none", "built", "locking", "rejected"}
  PROVE  VoteInv'
  BY DEF VoteInv, OneVote, VotesSeen, VotersKnown, AdmittedFresh, SnapFresh, Excused, Prior,
     TheVote, Voting

\* A ballot that advances with its snapshot.
LEMMA AdvanceKeepsVotes ==
  ASSUME VoteInv, UNCHANGED <<votes, seen, members, slashed>>,
         ballot.pc \in Voting \ {"built"}, ballot'.snap = ballot.snap, ballot'.pc # "admitted"
  PROVE  VoteInv'
  BY DEF VoteInv, OneVote, VotesSeen, VotersKnown, AdmittedFresh, SnapFresh, Excused

\* A submission starts with the registry as it is.
LEMMA StartKeepsVotes ==
  ASSUME TypeOK, VoteInv, UNCHANGED <<votes, seen, members, slashed>>,
         NEW x \in Vote, ballot' = At("current", x, Active)
  PROVE  VoteInv'
<1>1. ballot'.pc = "current" /\ ballot'.snap = Active
  BY DEF At
<1>2. members \ Active \subseteq slashed
  BY DEF Active
<1> QED
  BY <1>1, <1>2
     DEF VoteInv, OneVote, VotesSeen, VotersKnown, AdmittedFresh, SnapFresh, Excused

LEMMA SlashedGrows ==
  ASSUME NEW v, MarkSlashed(v)
  PROVE  slashed \subseteq slashed'
  BY DEF MarkSlashed

LEMMA JumpFacts ==
  \A pc : At(pc, NoVote, {}).pc = pc
  BY DEF At

LEMMA AdmitKeepsVotes ==
  ASSUME TypeOK, VoteInv, AdmitVote
  PROVE  VoteInv'
<1>1. UNCHANGED <<votes, seen, members, slashed>> /\ ballot.pc = "current"
      /\ TheVote.who \in ballot.snap /\ Prior(TheVote) \subseteq {TheVote}
  BY DEF AdmitVote, Malicious
<1>2. CASE ballot' = NoBallot
  BY <1>1, <1>2, QuietKeepsVotes, JumpFacts DEF NoBallot
<1>3. CASE ballot' = [ballot EXCEPT !.pc = "admitted"]
  <2>1. ballot'.pc = "admitted" /\ ballot'.vote = ballot.vote /\ ballot'.snap = ballot.snap
    BY <1>3, MoveFacts DEF Pcs
  <2>2. TheVote.who \in members /\ TheVote' = TheVote
    BY <1>1, <2>1, BallotFacts DEF BallotType, TheVote
  <2>3. Prior(TheVote)' = Prior(TheVote)
    BY <1>1, <2>2 DEF Prior
  <2> QED
    BY <1>1, <2>1, <2>2, <2>3
       DEF VoteInv, OneVote, VotesSeen, VotersKnown, AdmittedFresh, SnapFresh, Excused, Voting, Pcs
<1> QED
  BY <1>2, <1>3 DEF AdmitVote

LEMMA RecordEffect ==
  ASSUME TypeOK, VoteInv, Record
  PROVE  seen' = seen \cup {TheVote} /\ votes' \subseteq seen'
  BY DEF VoteInv, AdmittedFresh, VotesSeen, Record

LEMMA RecordKeepsVotes ==
  ASSUME TypeOK, VoteInv, Record
  PROVE  VoteInv'
<1>1. seen' = seen \cup {TheVote} /\ votes' \subseteq seen'
  BY RecordEffect
<1>2. /\ ballot'.pc \in {"judged", "recorded"} /\ ballot'.snap = ballot.snap
      /\ UNCHANGED <<members, slashed>> /\ ballot.pc \in Voting \ {"built"}
  BY MoveFacts DEF Record, Pcs, Voting
<1>3. Prior(TheVote) \subseteq {TheVote} /\ TheVote.who \in members
  BY DEF Record, VoteInv, AdmittedFresh
<1>4. OneVote'
  BY <1>1, <1>3 DEF VoteInv, OneVote, Prior
<1> QED
  BY <1>1, <1>2, <1>3, <1>4 DEF VoteInv, VotesSeen, VotersKnown, AdmittedFresh, SnapFresh, Excused

LEMMA VoteStep ==
  ASSUME TypeOK, VoteInv, [Next]_vars
  PROVE  VoteInv'
<1>1. ASSUME NEW b \in Hashes, AddBlock(b) PROVE VoteInv'
  BY <1>1, EnterKeepsVotes, QuietKeepsVotes DEF AddBlock, BeginRound
<1>2. ASSUME NEW v \in Validators, WorkerSlash(v) \/ SubmitProposal(v) PROVE VoteInv'
  BY <1>2, QuietKeepsVotes, SlashedGrows, JumpFacts
     DEF WorkerSlash, SubmitProposal, Convict, roundVars
<1>3. ASSUME NEW x \in Ballots, BuildPrevote(x) PROVE VoteInv'
  <2>1. ballot'.pc = "built" /\ members' = members /\ slashed' = slashed
    BY <1>3 DEF BuildPrevote, At
  <2> QED
    BY <1>3, <2>1, EnterKeepsVotes, QuietKeepsVotes DEF BuildPrevote, BeginRound, roundVars
<1>4. ASSUME NEW v \in Validators, LegacyReject(v) PROVE VoteInv'
  BY <1>4, QuietKeepsVotes, SlashedGrows, JumpFacts DEF LegacyReject, roundVars, NoBallot
<1>5. ASSUME NEW slot \in Heights, FailClosedDoubleVote(slot) PROVE VoteInv'
  BY <1>5, EnterKeepsVotes, QuietKeepsVotes, JumpFacts DEF FailClosedDoubleVote, NoBallot
<1>6. CASE SubmitBuilt
  <2>1. TheVote \in Vote
    BY <1>6, BallotFacts DEF SubmitBuilt, Voting, Pcs
  <2> QED
    BY <1>6, <2>1, StartKeepsVotes, QuietKeepsVotes, JumpFacts DEF SubmitBuilt, roundVars, NoBallot
<1>7. ASSUME NEW x \in Ballots, NEW verified \in BOOLEAN, SubmitVote(x, verified) PROVE VoteInv'
  <2>1. x \in Vote
    BY RoundAssumption
  <2> QED
    BY <1>7, <2>1, StartKeepsVotes, QuietKeepsVotes, SlashedGrows, JumpFacts
       DEF SubmitVote, Convict, roundVars
<1>8. CASE ConvictVote \/ Lock \/ ConcludePrevote \/ ConcludePrecommit
  BY <1>8, QuietKeepsVotes, SlashedGrows, JumpFacts
     DEF ConvictVote, Convict, Lock, ConcludePrevote, ConcludePrecommit, roundVars, NoBallot
<1>9. CASE JudgePrecommit
  <2>1. CASE ballot' = At("locking", NoVote, {})
    BY <1>9, <2>1, QuietKeepsVotes, JumpFacts DEF JudgePrecommit, roundVars
  <2>2. CASE ballot' = [ballot EXCEPT !.pc = "judged"]
    <3>1. ballot'.pc = "judged" /\ ballot'.snap = ballot.snap
      BY <2>2, MoveFacts DEF Pcs
    <3> QED
      BY <1>9, <3>1, AdvanceKeepsVotes DEF JudgePrecommit, roundVars, Voting, Pcs
  <2> QED
    BY <1>9, <2>1, <2>2 DEF JudgePrecommit
<1>10. CASE Certify
  <2>1. ballot'.pc = "tallied" /\ ballot'.snap = ballot.snap
    BY <1>10, BallotFacts DEF Certify, BallotType
  <2> QED
    BY <1>10, <2>1, AdvanceKeepsVotes DEF Certify, roundVars, Voting, Pcs
<1>11. ASSUME NEW v \in Joiners, Join(v) PROVE VoteInv'
  <2>1. v \notin Founders
    BY <1>11 DEF Join, VoteInv, VotersKnown
  <2> QED
    BY <1>11, <2>1, QuietKeepsVotes DEF Join, roundVars
<1>12. CASE UNCHANGED vars
  BY <1>12, QuietKeepsVotes DEF vars, roundVars
<1> QED
  BY <1>1, <1>2, <1>3, <1>4, <1>5, <1>6, <1>7, <1>8, <1>9, <1>10, <1>11, <1>12,
     AdmitKeepsVotes, RecordKeepsVotes DEF Next

\* What a hash has behind it is a set of registered validators.
LEMMA BehindKnown ==
  ASSUME TypeOK, VoteInv, NEW b
  PROVE  Backers(b) \cup Excused \in SUBSET members /\ members \in SUBSET Validators
  BY DEF Backers, Excused, VoteInv, VotersKnown, TypeOK

LEMMA BehindKnownNext ==
  ASSUME TypeOK', VoteInv', NEW b
  PROVE  Backers(b)' \cup Excused' \in SUBSET Validators
  BY DEF Backers, Excused, VoteInv, VotersKnown, TypeOK

\* Backers and slashed validators are never taken away from a hash that stays.
LEMMA QuorateKept ==
  ASSUME TypeOK, TypeOK', VoteInv, VoteInv', CertifiedByQuorum, members' = members,
         slashed \subseteq slashed',
         NEW b \in certified, Backers(b) \subseteq Backers(b)'
  PROVE  3 * StakeOf(Backers(b)' \cup Excused') >= 2 * StakeOf(members')
<1> DEFINE S == Backers(b) \cup Excused
           T == Backers(b)' \cup Excused'
<1>1. S \in SUBSET T
  BY DEF Excused
<1>2. T \in SUBSET Validators
  BY BehindKnownNext
<1>3. 3 * StakeOf(S) >= 2 * StakeOf(members)
  BY DEF CertifiedByQuorum
<1>4. S \in SUBSET Validators /\ members \in SUBSET Validators
  BY <1>1, <1>2 DEF TypeOK
<1> HIDE DEF S, T
<1>5. StakeOf(S) <= StakeOf(T) /\ StakeOf(S) \in Nat /\ StakeOf(T) \in Nat /\ StakeOf(members) \in Nat
  BY <1>1, <1>2, <1>4, StakeMonotone, StakeNat
<1>6. 3 * StakeOf(T) >= 2 * StakeOf(members')
  BY <1>3, <1>5
<1> QED
  BY <1>6 DEF T

\* Only the certificate of a precommit certifies, and only the hash it is for.
LEMMA Certifies ==
  ASSUME TypeOK, [Next]_vars, NEW b \in certified', b \notin certified
  PROVE  /\ Certify /\ b = TheVote.hash
         /\ CertReached("precommit", b, ballot.snap)
<1>1. ASSUME NEW r, EnterRound(r) PROVE FALSE
  BY <1>1 DEF EnterRound
<1>2. \A h \in Hashes : ~ AddBlock(h)
  BY <1>1 DEF AddBlock, BeginRound
<1>3. \A x : ~ BuildPrevote(x)
  BY <1>1 DEF BuildPrevote, BeginRound
<1>4. \A slot : ~ FailClosedDoubleVote(slot)
  BY <1>1 DEF FailClosedDoubleVote
<1>5. Certify
  BY <1>2, <1>3, <1>4
     DEF Next, WorkerSlash, SubmitProposal, LegacyReject, SubmitVote, SubmitBuilt, ConvictVote,
         AdmitVote, Lock, Record, JudgePrecommit, ConcludePrevote, ConcludePrecommit, Join,
         vars, resultVars
<1> QED
  BY <1>5 DEF Certify

\* A hash that becomes certified has two thirds of the snapshot behind it, and
\* what the snapshot lacks is excused.
LEMMA QuorateNew ==
  ASSUME TypeOK, TypeOK', VoteInv, VoteInv', [Next]_vars, NEW b \in certified', b \notin certified
  PROVE  3 * StakeOf(Backers(b)' \cup Excused') >= 2 * StakeOf(members')
<1> DEFINE snap == ballot.snap
           late == members \ snap
           S == Supporters(votes, round, "precommit", b, snap)
           T == Backers(b)' \cup Excused'
<1>1. /\ ballot.pc = "judged" /\ UNCHANGED <<round, seen, members, slashed>>
      /\ QuorumReached(StakeOf(S), StakeOf(snap))
  BY Certifies DEF Certify, CertReached, roundVars
<1>2. S \in SUBSET snap /\ S \in SUBSET Backers(b)'
  BY <1>1 DEF Supporters, Backers, VoteInv, VotesSeen
<1>3. late \subseteq Excused
  BY <1>1 DEF VoteInv, SnapFresh, Voting, Pcs
<1>4. S \cup late \in SUBSET T /\ members' = members
  BY <1>1, <1>2, <1>3 DEF Excused
<1>5. T \in SUBSET Validators
  BY BehindKnownNext
<1>6. snap \in SUBSET members /\ members \in SUBSET Validators
  BY BallotFacts DEF BallotType, TypeOK
<1>7. S \cap late = {} /\ snap \cap late = {} /\ snap \cup late = members
  BY <1>2, <1>6
<1>8. S \in SUBSET Validators /\ late \in SUBSET Validators /\ snap \in SUBSET Validators
  BY <1>2, <1>6
<1> HIDE DEF snap, late, S, T
<1>9. StakeOf({}) \in Nat /\ StakeOf(S) \in Nat /\ StakeOf(late) \in Nat
      /\ StakeOf(snap) \in Nat /\ StakeOf(members) \in Nat /\ StakeOf(T) \in Nat
  BY <1>5, <1>6, <1>8, StakeNat
<1>10. StakeOf(S \cup late) = StakeOf(S) + StakeOf(late) - StakeOf({})
  BY <1>7, <1>8, StakeUnion
<1>11. StakeOf(members) = StakeOf(snap) + StakeOf(late) - StakeOf({})
  BY <1>7, <1>8, StakeUnion
<1>12. StakeOf(S \cup late) <= StakeOf(T)
  BY <1>4, <1>5, StakeMonotone
<1>13. StakeOf({}) <= StakeOf(late)
  BY <1>8, StakeMonotone
<1>14. 3 * StakeOf(S) >= 2 * StakeOf(snap)
  BY <1>1, <1>9 DEF QuorumReached
<1>15. 3 * StakeOf(T) >= 2 * StakeOf(members')
  BY <1>4, <1>9, <1>10, <1>11, <1>12, <1>13, <1>14
<1> QED
  BY <1>15 DEF T

\* A validator who registers is a newcomer: its whole stake is excused.
LEMMA QuorateJoined ==
  ASSUME TypeOK, TypeOK', VoteInv, CertifiedByQuorum, NEW v \in Joiners, Join(v),
         NEW b \in certified
  PROVE  3 * StakeOf(Backers(b)' \cup Excused') >= 2 * StakeOf(members')
<1> DEFINE S == Backers(b) \cup Excused
           T == Backers(b)' \cup Excused'
<1>1. v \notin members /\ members' = members \cup {v} /\ UNCHANGED <<seen, round, slashed>>
  BY DEF Join, roundVars
<1>2. Backers(b)' = Backers(b)
  BY <1>1 DEF Backers
<1>3. v \notin Founders
  BY <1>1 DEF VoteInv, VotersKnown
<1>4. T = S \cup {v}
  BY <1>1, <1>2, <1>3 DEF Excused
<1>5. S \in SUBSET members /\ members \in SUBSET Validators /\ {v} \in SUBSET Validators
  BY BehindKnown, RoundAssumption
<1>6. S \cap {v} = {} /\ members \cap {v} = {} /\ S \in SUBSET Validators
  BY <1>1, <1>5
<1>7. 3 * StakeOf(S) >= 2 * StakeOf(members)
  BY DEF CertifiedByQuorum
<1> HIDE DEF S, T
<1>8. StakeOf({}) \in Nat /\ StakeOf(S) \in Nat /\ StakeOf(members) \in Nat /\ StakeOf({v}) \in Nat
  BY <1>5, <1>6, StakeNat
<1>9. StakeOf(S \cup {v}) = StakeOf(S) + StakeOf({v}) - StakeOf({})
  BY <1>5, <1>6, StakeUnion
<1>10. StakeOf(members \cup {v}) = StakeOf(members) + StakeOf({v}) - StakeOf({})
  BY <1>5, <1>6, StakeUnion
<1>11. StakeOf({}) <= StakeOf({v})
  BY <1>5, StakeMonotone
<1>12. 3 * StakeOf(S \cup {v}) >= 2 * StakeOf(members \cup {v})
  BY <1>7, <1>8, <1>9, <1>10, <1>11
<1> QED
  BY <1>1, <1>4, <1>12 DEF T

\* How the other steps treat what stands behind a hash of this stay.
LEMMA EnterKeepsBackers ==
  ASSUME NEW r, EnterRound(r), NEW b \in certified'
  PROVE  b \in certified /\ Backers(b) \subseteq Backers(b)'
<1>1. r = round /\ round' = r /\ seen' = {x \in seen : x.height = r} /\ b \in certified
  BY DEF EnterRound
<1> QED
  BY <1>1 DEF Backers

LEMMA BackersKept ==
  ASSUME TypeOK, VoteInv, [Next]_vars, NEW b \in certified', b \in certified,
         ~ \E v \in Joiners : Join(v)
  PROVE  Backers(b) \subseteq Backers(b)' /\ members' = members /\ slashed \subseteq slashed'
<1> DEFINE Goal ==
      Backers(b) \subseteq Backers(b)' /\ members' = members /\ slashed \subseteq slashed'
<1>0. ASSUME UNCHANGED <<round, seen>> PROVE Backers(b) \subseteq Backers(b)'
  BY <1>0 DEF Backers
<1>1. ASSUME NEW h \in Hashes, AddBlock(h) PROVE Goal
  BY <1>0, <1>1, EnterKeepsBackers DEF AddBlock, BeginRound
<1>2. ASSUME NEW v \in Validators, WorkerSlash(v) \/ SubmitProposal(v) \/ LegacyReject(v) PROVE Goal
  BY <1>0, <1>2, SlashedGrows DEF WorkerSlash, SubmitProposal, Convict, LegacyReject, roundVars
<1>3. ASSUME NEW x \in Ballots, BuildPrevote(x) PROVE Goal
  BY <1>0, <1>3, EnterKeepsBackers DEF BuildPrevote, BeginRound, roundVars
<1>4. ASSUME NEW slot \in Heights, FailClosedDoubleVote(slot) PROVE Goal
  BY <1>0, <1>4, EnterKeepsBackers DEF FailClosedDoubleVote
<1>5. ASSUME NEW x \in Ballots, NEW verified, SubmitVote(x, verified) PROVE Goal
  BY <1>0, <1>5, SlashedGrows DEF SubmitVote, Convict, roundVars
<1>6. CASE SubmitBuilt \/ ConvictVote \/ AdmitVote \/ Lock
  BY <1>0, <1>6, SlashedGrows DEF SubmitBuilt, ConvictVote, Convict, AdmitVote, Lock, roundVars
<1>7. CASE Record
  <2>1. seen \subseteq seen' /\ round' = round
    BY <1>7, RecordEffect DEF Record
  <2> QED
    BY <1>7, <2>1 DEF Record, Backers
<1>8. CASE JudgePrecommit \/ Certify \/ ConcludePrevote \/ ConcludePrecommit
  BY <1>0, <1>8 DEF JudgePrecommit, Certify, ConcludePrevote, ConcludePrecommit, roundVars
<1>9. CASE UNCHANGED vars
  BY <1>0, <1>9 DEF roundVars, vars
<1> QED
  BY <1>1, <1>2, <1>3, <1>4, <1>5, <1>6, <1>7, <1>8, <1>9 DEF Next

LEMMA QuorateStep ==
  ASSUME TypeOK, TypeOK', VoteInv, VoteInv', CertifiedByQuorum, [Next]_vars
  PROVE  CertifiedByQuorum'
<1> SUFFICES ASSUME NEW b \in certified'
             PROVE  3 * StakeOf(Backers(b)' \cup Excused') >= 2 * StakeOf(members')
  BY DEF CertifiedByQuorum
<1>1. CASE b \notin certified
  BY <1>1, QuorateNew
<1>2. CASE b \in certified /\ \E v \in Joiners : Join(v)
  BY <1>2, QuorateJoined
<1>3. CASE b \in certified /\ ~ \E v \in Joiners : Join(v)
  BY <1>3, BackersKept, QuorateKept
<1> QED
  BY <1>1, <1>2, <1>3

RoundInv == TypeOK /\ VoteInv /\ CertifiedByQuorum

LEMMA RoundInvInit == Init => RoundInv
<1> SUFFICES ASSUME Init PROVE RoundInv
  OBVIOUS
<1>1. ballot.pc = "none"
  BY JumpFacts DEF Init, NoBallot
<1> QED
  BY <1>1, TypeInit, RoundAssumption
     DEF Init, RoundInv, VoteInv, OneVote, VotesSeen, VotersKnown, AdmittedFresh, SnapFresh,
         CertifiedByQuorum, Voting

LEMMA RoundInvStep == RoundInv /\ [Next]_vars => RoundInv'
<1>1. ASSUME RoundInv, [Next]_vars PROVE TypeOK' /\ VoteInv'
  BY <1>1, TypeStep, VoteStep DEF RoundInv
<1> QED
  BY <1>1, QuorateStep DEF RoundInv

\* Whatever the apply worker does between the steps of a submission, a hash
\* certified in this stay has two thirds of the stake behind it, but for the
\* slashed and the newcomers (_maybe_advance_precommit with its old snapshot).
THEOREM RoundCertified == Spec => []CertifiedByQuorum
<1>1. RoundInv => CertifiedByQuorum
  BY DEF RoundInv
<1> QED
  BY <1>1, RoundInvInit, RoundInvStep, PTL DEF Spec

\* Two quorums share a third of the stake, and nobody who kept to the rules is
\* in both.
LEMMA RoundInvSafe ==
  ASSUME RoundInv
  PROVE  AccountableSafety
<1> USE DEF RoundInv
<1> SUFFICES ASSUME Cardinality(certified) > 1
             PROVE  3 * StakeOf(Excused) >= StakeOf(members)
  BY DEF AccountableSafety
<1>1. PICK b1 \in certified, b2 \in certified : b1 # b2
  <2>1. certified # {}
    BY FS_EmptySet
  <2>2. PICK b1 \in certified : TRUE
    BY <2>1
  <2>3. Cardinality({b1}) = 1
    BY FS_Singleton
  <2>4. certified # {b1}
    BY <2>3
  <2> QED
    BY <2>2, <2>4
<1> DEFINE S == Backers(b1) \cup Excused
           T == Backers(b2) \cup Excused
<1>2. Backers(b1) \cap Backers(b2) = {}
  BY <1>1 DEF Backers, VoteInv, OneVote
<1>3. S \cap T = Excused /\ S \in SUBSET members /\ T \in SUBSET members /\ members \in SUBSET Validators
  BY <1>2, BehindKnown
<1>4. 3 * StakeOf(S) >= 2 * StakeOf(members) /\ 3 * StakeOf(T) >= 2 * StakeOf(members)
  BY <1>1 DEF CertifiedByQuorum
<1> HIDE DEF S, T
<1>5. /\ S \in SUBSET Validators /\ T \in SUBSET Validators
      /\ S \cup T \in SUBSET members /\ Excused \in SUBSET Validators /\ S \cup T \in SUBSET Validators
  BY <1>3
<1>6. /\ StakeOf(S) \in Nat /\ StakeOf(T) \in Nat /\ StakeOf(Excused) \in Nat
      /\ StakeOf(members) \in Nat /\ StakeOf(S \cup T) \in Nat
  BY <1>3, <1>5, StakeNat
<1>7. StakeOf(S \cup T) = StakeOf(S) + StakeOf(T) - StakeOf(Excused)
  BY <1>3, <1>5, StakeUnion
<1>8. StakeOf(S \cup T) <= StakeOf(members)
  BY <1>3, <1>5, StakeMonotone
<1> QED
  BY <1>4, <1>6, <1>7, <1>8

\* Accountable safety for every set of validators and every stake: certifying
\* a second hash in one stay in a round, reopened after a lock or not
\* (_begin_round keeps _seen), costs a third of the stake.
THEOREM RoundAccountable == Spec => []AccountableSafety
  BY RoundInvInit, RoundInvStep, RoundInvSafe, PTL DEF Spec
=============================================================================
