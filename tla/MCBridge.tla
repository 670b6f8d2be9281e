---- MODULE MCBridge ----
(* One transfer with the id of a lock, reported with its L1 transaction and without;
   where the replay key is asked about, only with it. *)
EXTENDS Bridge

MCClaims == {[id |-> "h", l1 |-> "e"], [id |-> "h", l1 |-> NoL1]}
MCReplay == {[id |-> "h", l1 |-> "e"]}
====
