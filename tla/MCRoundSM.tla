------------------------------ MODULE MCRoundSM ------------------------------
(***************************************************************************)
(* Two founders and a third validator that may register, all of equal      *)
(* stake.  Two competing hashes A and B are voted on in round 1; the       *)
(* node's chain brings A and B at height 1 and C at height 2, so that the  *)
(* round can be left and entered again.  Everybody may precommit to either *)
(* hash and one founder prevotes for A: alone it is a quorum once the      *)
(* other founder is slashed.                                               *)
(***************************************************************************)
EXTENDS RoundSM, TLC

CONSTANTS v1, v2, v3, A, B, C

Two == {v1, v2}
Three == {v1, v2, v3}
Late == {v3}
EqualStake == [v \in Validators |-> 1]
ABC == {A, B, C}
HashHeights == (A :> 1) @@ (B :> 1) @@ (C :> 2)
RoundOneVotes ==
  {x \in Vote : x.height = 1 /\ x.hash # C /\ (x.type = "prevote" => x.who = v1 /\ x.hash = A)}
=============================================================================
