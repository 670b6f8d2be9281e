------------------------------- MODULE RoundSM -------------------------------
(***************************************************************************)
(* consensus/bft/service.py: the round state machine (Propose, Prevote,    *)
(* Precommit, Finalize, or Locked), with the way consensus/adapter.py      *)
(* drives it.                                                              *)
(*                                                                         *)
(* Two threads use it without a lock.  The event loop casts votes, one     *)
(* submission at a time.  A submission reads the registry once (snap) and  *)
(* goes through checks, phase gate, record, certificate and conclusion;    *)
(* between any two of these steps the apply worker may enter another round *)
(* (add_block) or slash a validator (record_proposal), and a validator may *)
(* register.  Where the code has more points at which the threads can      *)
(* change, two steps are one here when a change between them is the same   *)
(* as a change before or after both.  All callers under src/ open round 0  *)
(* of a height, so a round is its height.                                  *)
(*                                                                         *)
(* Left out because no decision of the machine reads it: _head, _blocks    *)
(* and the finalized height, _attest_by_block, the precommit certificates, *)
(* the attempt counter and the reason codes of the evidence.  Votes of     *)
(* type PROPOSE are recorded and never tallied, and are left out too.  The *)
(* "conflicting proposal" branch of submit_proposal is unreachable: a      *)
(* round that waits for a proposal has none.                               *)
(***************************************************************************)
EXTENDS Integers, FiniteSets, FiniteSetsExt

CONSTANTS
  Validators,   \* every identity that may vote or propose
  Founders,     \* the registered validators at the start
  Joiners,      \* those that may register later
  Stake,        \* ValidatorInfo.stake
  Hashes,       \* block hashes
  ChainHeight,  \* the height of a hash on the node's own chain
  MaxHeight,    \* bound on round heights
  Ballots,      \* bound on the votes that are cast
  Miner,        \* config.miner_address, the proposer when nobody can be drawn
  SlashFaults,  \* may persisting a slash fail?
  NoHash, Nobody

Heights == 0 .. MaxHeight
VoteTypes == {"prevote", "precommit"}
Vote == [who : Validators, type : VoteTypes, height : Heights, hash : Hashes]

ASSUME RoundAssumption ==
  /\ IsFiniteSet(Validators) /\ Founders \cup Joiners \subseteq Validators
  /\ Stake \in [Validators -> Nat]
  /\ MaxHeight \in Nat
  /\ Ballots \subseteq Vote
  /\ ChainHeight \in [Hashes -> 1 .. MaxHeight]
  /\ Miner # Nobody
  /\ SlashFaults \in BOOLEAN
  /\ NoHash \notin Hashes /\ Nobody \notin Validators

VARIABLES
  round,      \* _round
  phase,      \* _phase
  proposed,   \* is _proposal set?  Its hash is never compared
  expected,   \* _expected_proposer
  votes,      \* _votes
  seen,       \* _seen: votes remembered to detect double votes
  qc,         \* _qc: the last prevote certificate of each round
  finalized,  \* _finalized_hashes
  members,    \* validators of the registry
  slashed,    \* slashed validators of the registry
  ballot,     \* the submission under way: [pc, vote, snap, reached]
  certified   \* history: hashes with a precommit certificate since the round
              \* was last entered

roundVars == <<round, phase, proposed, expected, votes, seen>>
resultVars == <<qc, finalized, certified>>
vars == <<roundVars, resultVars, members, slashed, ballot>>

NoCert == [hash |-> NoHash, reached |-> FALSE]
At(pc, x, snap) == [pc |-> pc, vote |-> x, snap |-> snap, reached |-> FALSE]
NoVote == [who |-> Nobody]
NoBallot == At("none", NoVote, {})
TheVote == ballot.vote

Init ==
  /\ round = 0 /\ phase = "propose" /\ proposed = FALSE /\ expected = Nobody
  /\ votes = {} /\ seen = {}
  /\ qc = [r \in Heights |-> NoCert]
  /\ finalized = {} /\ certified = {}
  /\ members = Founders /\ slashed = {}
  /\ ballot = NoBallot

Active == members \ slashed
StakeOf(S) == MapThenSumSet(LAMBDA v : Stake[v], S)

\* quorum_reached, in integers; an empty set never reaches it.
QuorumReached(voted, total) == total > 0 /\ voted * 3 >= total * 2

\* A faulty variant of Supporters that counts the votes of every round.
SupportersAnyRound(vs, r, type, b, snap) ==
  {v \in snap : \E x \in vs : x.who = v /\ x.type = type /\ x.hash = b}

\* stake_for_votes: each validator of snap with a vote for this hash in this
\* round, once.
Supporters(vs, r, type, b, snap) ==
  {v \in snap : \E x \in vs : x.who = v /\ x.type = type /\ x.height = r /\ x.hash = b}

\* certificate(snap, _votes, _round, ...).reached
CertReached(type, b, snap) ==
  QuorumReached(StakeOf(Supporters(votes, round, type, b, snap)), StakeOf(snap))

\* A faulty variant of EnterRound that forgets the votes seen in the round
\* that is reopened.
EnterRoundForgetful(r) ==
  /\ round' = r
  /\ proposed' = FALSE
  /\ votes' = {}
  /\ seen' = {}
  /\ certified' = IF r = round THEN certified ELSE {}

\* _begin_round: the double-vote memory survives only for the same round.
EnterRound(r) ==
  /\ round' = r
  /\ proposed' = FALSE
  /\ votes' = {}
  /\ seen' = {x \in seen : x.height = r}
  /\ certified' = IF r = round THEN certified ELSE {}

BeginRound(r) == EnterRound(r) /\ phase' = "propose"

\* add_block on the apply worker (block.new): the tip moved.
AddBlock(b) ==
  /\ IF ChainHeight[b] > round \/ (ChainHeight[b] = round /\ phase = "finalize")
       THEN BeginRound(ChainHeight[b])
       ELSE UNCHANGED <<round, phase, proposed, votes, seen, certified>>
  /\ UNCHANGED <<expected, qc, finalized, members, slashed, ballot>>

\* mark_slashed: only a registered validator can be slashed.
MarkSlashed(v) == slashed' = slashed \cup ({v} \cap members)

\* record_proposal on the apply worker slashes the author of two blocks.
WorkerSlash(v) ==
  /\ v \in members \ slashed
  /\ MarkSlashed(v)
  /\ UNCHANGED <<roundVars, resultVars, members, ballot>>

\* A faulty variant of Convict that slashes whoever signed the vote.
ConvictAnyone(v) ==
  /\ slashed' = slashed \cup {v}
  /\ ballot' = At("locking", NoVote, {})

\* _fail_closed: slash v; the request for lockdown and the lock follow.
Convict(v) ==
  /\ MarkSlashed(v)
  /\ ballot' = At("locking", NoVote, {})

\* The end of _fail_closed, in whatever round it is by now.
Lock ==
  /\ ballot.pc = "locking"
  /\ phase' = "locked"
  /\ ballot' = NoBallot
  /\ UNCHANGED <<round, proposed, expected, votes, seen, resultVars, members, slashed>>

\* submit_proposal for the current round; a wrong round or phase is refused.
SubmitProposal(p) ==
  /\ ballot = NoBallot
  /\ phase = "propose"
  /\ IF p \notin Active \/ expected \notin {Nobody, p}
       THEN Convict(p) /\ UNCHANGED <<proposed, phase>>
       ELSE /\ proposed' = TRUE
            /\ phase' = "prevote"
            /\ UNCHANGED <<slashed, ballot>>
  /\ UNCHANGED <<round, expected, votes, seen, resultVars, members>>

\* select_proposer: a draw weighted by stake, its hash of the slot taken as any
\* outcome with positive weight; the local miner when there is none.
ProposersDrawn ==
  LET weighted == {v \in Active : Stake[v] > 0}
  IN  IF weighted = {} THEN {Miner} ELSE weighted

\* _build_prevote: open a round at the current slot unless one is under way.
BuildPrevote(x) ==
  /\ ballot = NoBallot
  /\ x.type = "prevote" /\ x.who \in Active
  /\ IF round # x.height \/ phase \in {"finalize", "locked"}
       THEN BeginRound(x.height) /\ expected' \in ProposersDrawn
       ELSE UNCHANGED <<roundVars, certified>>
  /\ ballot' = At("built", x, {})
  /\ UNCHANGED <<qc, finalized, members, slashed>>

\* attest() refused by the slashing engine: v was slashed before, perhaps
\* before it registered, or is slashed for this second vote.  When the slash
\* cannot be persisted the error leaves attest() at once.
LegacyReject(v) ==
  /\ ballot = NoBallot
  /\ MarkSlashed(v) \/ (v \notin Founders /\ UNCHANGED slashed)
  /\ \/ ballot' = At("rejected", NoVote, {})
     \/ SlashFaults /\ v \notin slashed /\ ballot' = NoBallot
  /\ UNCHANGED <<roundVars, resultVars, members>>

\* _fail_closed_double_vote locks the round, opening one first if none was.
FailClosedDoubleVote(slot) ==
  /\ ballot.pc = "rejected"
  /\ IF round = 0 THEN EnterRound(slot)
                   ELSE UNCHANGED <<round, proposed, votes, seen, certified>>
  /\ phase' = "locked"
  /\ ballot' = NoBallot
  /\ UNCHANGED <<expected, qc, finalized, members, slashed>>

\* submit_vote: a vote of another round, or in a locked one, has no effect.
\* The registry is read here, once for the whole submission.
SubmitBuilt ==
  /\ ballot.pc = "built"
  /\ ballot' = IF phase # "locked" /\ TheVote.height = round
                 THEN At("current", TheVote, Active) ELSE NoBallot
  /\ UNCHANGED <<roundVars, resultVars, members, slashed>>

\* A vote through ConsensusPort, which may be unverified.
SubmitVote(x, verified) ==
  /\ ballot = NoBallot
  /\ phase # "locked"
  /\ IF verified
       THEN x.height = round /\ ballot' = At("current", x, Active) /\ UNCHANGED slashed
       ELSE Convict(x.who)
  /\ UNCHANGED <<roundVars, resultVars, members>>

\* What _seen holds for the validator, type and round of vote x.
Prior(x) ==
  {y \in seen : y.who = x.who /\ y.type = x.type /\ y.height = x.height}

Malicious(x) == x.who \notin ballot.snap \/ Prior(x) \ {x} # {}

\* An inactive author or a second vote.
ConvictVote ==
  /\ ballot.pc = "current" /\ Malicious(TheVote)
  /\ Convict(TheVote.who)
  /\ UNCHANGED <<roundVars, resultVars, members>>

\* The phase gates; a prevote without proposal opens the vote.
PhaseAdmits ==
  IF TheVote.type = "prevote" THEN phase # "locked"
                              ELSE phase \in {"prevote", "precommit", "finalize"}
OpensVote == TheVote.type = "prevote" /\ phase = "propose" /\ ~proposed

AdmitVote ==
  /\ ballot.pc = "current" /\ ~Malicious(TheVote)
  /\ IF TheVote \notin seen /\ PhaseAdmits
       THEN /\ ballot' = [ballot EXCEPT !.pc = "admitted"]
            /\ phase' = IF OpensVote THEN "prevote" ELSE phase
       ELSE ballot' = NoBallot /\ UNCHANGED phase
  /\ UNCHANGED <<round, proposed, expected, votes, seen, resultVars, members, slashed>>

\* _seen and _votes.append, whatever round it is by now.
Record ==
  /\ ballot.pc = "admitted"
  /\ votes' = votes \cup {TheVote}
  /\ seen' = (seen \ Prior(TheVote)) \cup {TheVote}
  /\ ballot' = [ballot EXCEPT !.pc = IF TheVote.type = "prevote" THEN "judged" ELSE "recorded"]
  /\ UNCHANGED <<round, phase, proposed, expected, resultVars, members, slashed>>

\* prevote_precommit_hash_mismatch, judged by the last prevote certificate.
Mismatch == qc[round].reached /\ qc[round].hash # TheVote.hash

JudgePrecommit ==
  /\ ballot.pc = "recorded"
  /\ ballot' = IF Mismatch THEN At("locking", NoVote, {}) ELSE [ballot EXCEPT !.pc = "judged"]
  /\ UNCHANGED <<roundVars, resultVars, members, slashed>>

\* The certificate: the votes of the round that is current now, by the stake
\* of the snapshot.
Certify ==
  /\ ballot.pc = "judged"
  /\ LET reached == CertReached(TheVote.type, TheVote.hash, ballot.snap)
     IN  /\ ballot' = [ballot EXCEPT !.pc = "tallied", !.reached = reached]
         /\ certified' = IF reached /\ TheVote.type = "precommit"
                           THEN certified \cup {TheVote.hash} ELSE certified
  /\ UNCHANGED <<roundVars, qc, finalized, members, slashed>>

\* The end of _maybe_advance_prevote: the certificate is stored for the round
\* that is current now.
ConcludePrevote ==
  /\ ballot.pc = "tallied" /\ TheVote.type = "prevote"
  /\ qc' = [qc EXCEPT ![round] = [hash |-> TheVote.hash, reached |-> ballot.reached]]
  /\ phase' = IF ballot.reached THEN "precommit" ELSE phase
  /\ ballot' = NoBallot
  /\ UNCHANGED <<round, proposed, expected, votes, seen, finalized, certified, members, slashed>>

\* The end of _maybe_advance_precommit: _finalize, in whatever round it is.
ConcludePrecommit ==
  /\ ballot.pc = "tallied" /\ TheVote.type = "precommit"
  /\ IF ballot.reached
       THEN phase' = "finalize" /\ finalized' = finalized \cup {TheVote.hash}
       ELSE /\ phase' = IF phase = "prevote" THEN "precommit" ELSE phase
            /\ UNCHANGED finalized
  /\ ballot' = NoBallot
  /\ UNCHANGED <<round, proposed, expected, votes, seen, qc, certified, members, slashed>>

\* A validator registers while rounds go on.
Join(v) ==
  /\ v \in Joiners \ members
  /\ members' = members \cup {v}
  /\ UNCHANGED <<roundVars, resultVars, slashed, ballot>>

Next ==
  \/ \E b \in Hashes : AddBlock(b)
  \/ \E v \in Validators : WorkerSlash(v) \/ SubmitProposal(v) \/ LegacyReject(v)
  \/ \E slot \in Heights \ {0} : FailClosedDoubleVote(slot)
  \/ \E x \in Ballots : BuildPrevote(x) \/ \E verified \in BOOLEAN : SubmitVote(x, verified)
  \/ SubmitBuilt \/ ConvictVote \/ AdmitVote \/ Lock
  \/ Record \/ JudgePrecommit \/ Certify \/ ConcludePrevote \/ ConcludePrecommit
  \/ \E v \in Joiners : Join(v)

Spec == Init /\ [][Next]_vars

-----------------------------------------------------------------------------
Phases == {"propose", "prevote", "precommit", "finalize", "locked"}
Certs == [hash : Hashes \cup {NoHash}, reached : BOOLEAN]
Pcs == {"none", "built", "current", "admitted", "recorded", "judged", "tallied",
        "locking", "rejected"}

\* The round machine has its shape; only validators are ever slashed or locked
\* out (RoundStateMachine).
TypeOK ==
  /\ round \in Heights /\ phase \in Phases
  /\ proposed \in BOOLEAN /\ expected \in Validators \cup {Nobody, Miner}
  /\ votes \subseteq Vote /\ seen \subseteq Vote
  /\ qc \in [Heights -> Certs]
  /\ finalized \subseteq Hashes /\ certified \subseteq Hashes
  /\ members \subseteq Validators /\ slashed \subseteq members
  /\ ballot \in [pc : Pcs, vote : Vote \cup {NoVote}, snap : SUBSET members, reached : BOOLEAN]
  /\ ballot.pc \notin {"none", "locking", "rejected"} => ballot.vote \in Vote

\* The validators whose precommit to b the double-vote memory holds.
Backers(b) ==
  {x.who : x \in {y \in seen : y.type = "precommit" /\ y.height = round /\ y.hash = b}}

\* Those a stale snapshot may have wrong: slashed since, or registered since.
Excused == slashed \cup (members \ Founders)

\* Whatever rounds the worker enters and whoever is slashed or registers while
\* a vote is on its way (service.py tallies by the registry as it was read at
\* the start), a certificate of this stay in the round has precommits of this
\* round behind it that, but for the slashed and the newcomers, hold two
\* thirds of the stake; reopening the round does not take them away.
CertifiedByQuorum ==
  \A b \in certified : 3 * StakeOf(Backers(b) \cup Excused) >= 2 * StakeOf(members)

\* Accountable safety: two hashes certified in one stay in a round cost a third
\* of the stake: it belongs to validators that were slashed or that registered
\* after the start, even if the round was locked and reopened in between.
AccountableSafety ==
  Cardinality(certified) > 1 => 3 * StakeOf(Excused) >= StakeOf(members)
=============================================================================
