----------------------------- MODULE CrossShard -----------------------------
(***************************************************************************)
(* Transfers between shards: dynamic_sharding.py in distributed mode with  *)
(* consensus/cross_shard_coordinator.py.  A node of the source shard       *)
(* debits and gossips the transfer, every node of the destination shard    *)
(* credits its own store and acknowledges, and the source holds the        *)
(* transfer for confirmed when both shards have acknowledged: a quorum of  *)
(* the shard's committee, or one acknowledgement of the shard as such when *)
(* it has no committee.  Nothing but the balances is persisted.            *)
(*                                                                         *)
(* This is the source's view of one direction.  A transfer is its id, the  *)
(* hash of sender, recipient, value and nonce: the same one may be asked   *)
(* for again.  Messages may be lost, repeated and overtaken; the relay of  *)
(* an acknowledgement by other nodes is one more way to repeat it.  A      *)
(* member of a committee may also acknowledge without having credited      *)
(* anything (submit_cross_shard_validator_ack).                            *)
(***************************************************************************)
EXTENDS Naturals, FiniteSets

CONSTANTS
    Transfers,
    Dests,        \* the nodes of the destination shard
    Self,         \* the validator of the source node
    Setups,       \* the networks: the committees of the shards, and the
                  \* destinations whose nodes have no id
    Threads,      \* HTTP requests served at a time by the source
    Funds,        \* the senders' balance, taken together
    Amount,       \* what a transfer moves
    MaxAdds       \* bound: requests for a transfer

Shards == {"from", "to"}

ASSUME CrossShardAssumption ==
    /\ "none" \notin Transfers
    /\ \A c \in Setups : \A s \in Shards : IsFiniteSet(c[s]) /\ "none" \notin c[s]
    /\ Funds \in Nat /\ Amount \in Nat \ {0}
    /\ MaxAdds \in Nat

VARIABLES
    setup,        \* what the nodes were started with
    bal,          \* what the senders hold
    status,       \* of the transfer's entry in cross_shard_txs
    entry,        \* the request that made that entry
    pending,      \* how often it is in pending_cross_txs
    begun,        \* _required: the coordinator waits for acknowledgements
    acks,         \* _validator_acks of each shard
    whole,        \* _acks: the shards that have acknowledged as such
    seen,         \* _seen_validator_acks
    closing,      \* the transfer receive_cross_shard_ack is about to confirm
    th,           \* the requests
    credits,      \* how often a destination has credited a transfer
    net,          \* messages under way
    debits, asked \* history: debits of a transfer, and requests for it

source == <<setup, bal, status, entry, pending, begun, acks, whole, seen, closing,
            th, debits, asked>>
vars == <<source, credits, net>>

Free == [pc |-> "idle", tx |-> "none"]

Silent == [s \in Shards |-> {}]

Init ==
    /\ setup \in Setups
    /\ bal = Funds
    /\ status = [x \in Transfers |-> "none"]
    /\ entry = [x \in Transfers |-> "none"]
    /\ pending = [x \in Transfers |-> 0]
    /\ begun = {}
    /\ acks = [x \in Transfers |-> Silent]
    /\ whole = [x \in Transfers |-> {}]
    /\ seen = {}
    /\ closing = "none"
    /\ th = [t \in Threads |-> Free]
    /\ credits = [d \in Dests |-> [x \in Transfers |-> 0]]
    /\ net = {}
    /\ debits = [x \in Transfers |-> 0]
    /\ asked = [x \in Transfers |-> 0]

-----------------------------------------------------------------------------
(* Messages.  An acknowledgement names the shard and the validator, which  *)
(* is "none" when the node has no id.                                      *)

Transfer(x, d) == [kind |-> "transfer", tx |-> x, node |-> d]
Ack(x, s, v) == [kind |-> "ack", tx |-> x, shard |-> s, validator |-> v]

Gossip(x) == {Transfer(x, d) : d \in Dests}

Name(d) == IF d \in setup.nameless THEN "none" ELSE d

Members == setup.from \cup setup.to

Lose ==
    \E m \in net :
        /\ net' = net \ {m}
        /\ UNCHANGED <<source, credits>>

-----------------------------------------------------------------------------
(* The coordinator.                                                        *)

\* Two thirds, rounded up.
QuorumSize(n) == (2 * n + 2) \div 3

\* Anybody's acknowledgement is recorded.
RecordedAnyone(x, s, v) ==
    IF x \in begun THEN [acks EXCEPT ![x][s] = @ \cup {v}] ELSE acks

\* record_validator_ack.  The ids kept for a shard without a committee are left
\* out: nothing looks at them.
Recorded(x, s, v) ==
    IF x \in begun /\ v \in setup[s]
    THEN [acks EXCEPT ![x][s] = @ \cup {v}]
    ELSE acks

\* An outsider's acknowledgement is refused whether it was seen or not, so that
\* it was seen is left out.
Noticed(x, s, v) == IF v \in setup[s] THEN seen \cup {<<x, s, v>>} ELSE seen

\* record_ack: a shard with a committee does not acknowledge as such.
RecordedWhole(x, s) ==
    IF x \in begun /\ setup[s] = {} THEN [whole EXCEPT ![x] = @ \cup {s}] ELSE whole

\* One acknowledgement of a shard is enough.
QuorumReachedByAny(x, A, W) ==
    x \in begun /\ \A s \in Shards : IF setup[s] = {} THEN s \in W[x] ELSE A[x][s] # {}

\* quorum_reached, for the recorded acknowledgements A and W.
QuorumReached(x, A, W) ==
    /\ x \in begun
    /\ \A s \in Shards :
         IF setup[s] = {}
         THEN s \in W[x]
         ELSE Cardinality(A[x][s]) >= QuorumSize(Cardinality(setup[s]))

-----------------------------------------------------------------------------
(* add_transaction, on the thread of its request.                          *)

Go(t, pc) == th' = [th EXCEPT ![t].pc = pc]

\* The entry of an earlier request for the same transfer is replaced.
Register(t, x) ==
    /\ th[t].pc = "idle" /\ closing = "none"
    /\ asked[x] < MaxAdds
    /\ asked' = [asked EXCEPT ![x] = @ + 1]
    /\ status' = [status EXCEPT ![x] = "pending"]
    /\ entry' = [entry EXCEPT ![x] = t]
    /\ pending' = [pending EXCEPT ![x] = @ + 1]
    /\ th' = [th EXCEPT ![t] = [pc |-> "begin", tx |-> x]]
    /\ UNCHANGED <<setup, bal, begun, acks, whole, seen, closing, debits, credits, net>>

\* begin forgets the validators that have acknowledged, but neither the shards
\* that have nor that acknowledgements were seen.
CoordinatorBegin(t) ==
    LET x == th[t].tx
    IN  /\ th[t].pc = "begin"
        /\ begun' = begun \cup {x}
        /\ acks' = [acks EXCEPT ![x] = Silent]
        /\ Go(t, "check")
        /\ UNCHANGED <<setup, bal, status, entry, pending, whole, seen, closing, debits,
                       asked, credits, net>>

\* An entry that has been replaced keeps its status to itself.
Becomes(t, s) ==
    status' = IF entry[th[t].tx] = t THEN [status EXCEPT ![th[t].tx] = s] ELSE status

\* What has been confirmed meanwhile is not pending any more.
Dropped(x) == [pending EXCEPT ![x] = IF @ > 0 THEN @ - 1 ELSE 0]

Fails(t) ==
    /\ Becomes(t, "failed")
    /\ pending' = Dropped(th[t].tx)
    /\ th' = [th EXCEPT ![t] = Free]

ValidateCrossShardTx(t) ==
    /\ th[t].pc = "check"
    /\ \/ bal >= Amount /\ Go(t, "debit") /\ UNCHANGED <<status, pending>>
       \/ bal < Amount /\ Fails(t)
    /\ UNCHANGED <<setup, bal, entry, begun, acks, whole, seen, closing, debits, asked,
                   credits, net>>

\* The balance is not looked at again: it stops at zero.  The store may fail.
DebitSource(t) ==
    /\ th[t].pc = "debit"
    /\ \/ /\ bal' = IF bal >= Amount THEN bal - Amount ELSE 0
          /\ debits' = [debits EXCEPT ![th[t].tx] = @ + 1]
          /\ Go(t, "mark")
          /\ UNCHANGED <<status, pending>>
       \/ Fails(t) /\ UNCHANGED <<bal, debits>>
    /\ UNCHANGED <<setup, entry, begun, acks, whole, seen, closing, asked, credits, net>>

MarkDebited(t) ==
    /\ th[t].pc = "mark"
    /\ Becomes(t, "debited")
    /\ Go(t, "ack")
    /\ UNCHANGED <<setup, bal, entry, pending, begun, acks, whole, seen, closing, debits,
                   asked, credits, net>>

\* _record_shard_ack: the node speaks for its shard.
ShardAcked(x, s) ==
    IF setup[s] = {}
    THEN acks' = acks /\ whole' = RecordedWhole(x, s) /\ seen' = seen
    ELSE acks' = Recorded(x, s, Self) /\ whole' = whole /\ seen' = Noticed(x, s, Self)

RecordShardAck(t) ==
    /\ th[t].pc = "ack"
    /\ ShardAcked(th[t].tx, "from")
    /\ Go(t, "gossip")
    /\ UNCHANGED <<setup, bal, status, entry, pending, begun, closing, debits, asked,
                   credits, net>>

GossipCrossShard(t) ==
    /\ th[t].pc = "gossip"
    /\ net' = net \cup Gossip(th[t].tx)
    /\ th' = [th EXCEPT ![t] = Free]
    /\ UNCHANGED <<setup, bal, status, entry, pending, begun, acks, whole, seen, closing,
                   debits, asked, credits>>

AddTransaction(t) ==
    \/ CoordinatorBegin(t)
    \/ ValidateCrossShardTx(t)
    \/ DebitSource(t)
    \/ MarkDebited(t)
    \/ RecordShardAck(t)
    \/ GossipCrossShard(t)

-----------------------------------------------------------------------------

\* process_cross_shard_transactions, of a mining node past its gates or of a
\* request to do so.
ProcessCrossShard(x) ==
    /\ status[x] = "debited" /\ pending[x] > 0
    /\ net' = net \cup Gossip(x)
    /\ UNCHANGED <<source, credits>>

\* Every message credits.
CreditAlways(d, x) ==
    /\ Transfer(x, d) \in net
    /\ credits[d][x] < 2
    /\ credits' = [credits EXCEPT ![d][x] = @ + 1]
    /\ net' = net \cup {Ack(x, "to", Name(d))}
    /\ UNCHANGED source

\* A transfer that is known is not answered.
CreditOnceSilently(d, x) ==
    /\ Transfer(x, d) \in net
    /\ credits[d][x] = 0
    /\ credits' = [credits EXCEPT ![d][x] = @ + 1]
    /\ net' = net \cup {Ack(x, "to", Name(d))}
    /\ UNCHANGED source

\* What is confirmed already is acknowledged again, and not credited.
ReceiveCrossShardCredit(d, x) ==
    /\ Transfer(x, d) \in net
    /\ credits' = IF credits[d][x] = 0 THEN [credits EXCEPT ![d][x] = 1] ELSE credits
    /\ net' = net \cup {Ack(x, "to", Name(d))}
    /\ UNCHANGED source

\* submit_cross_shard_validator_ack at the node of a committee's member, who
\* need not have credited anything; the source's own comes back from relays.
SubmitValidatorAck(x, s, v) ==
    /\ v \in setup[s]
    /\ v = Self => <<x, s, v>> \in seen
    /\ net' = net \cup {Ack(x, s, v)}
    /\ UNCHANGED <<source, credits>>

\* The same at the source: nobody looks whether that makes the quorum.
SubmitValidatorAckHere(x, s, v) ==
    /\ acks' = Recorded(x, s, v)
    /\ seen' = Noticed(x, s, v)
    /\ UNCHANGED <<setup, bal, status, entry, pending, begun, whole, closing, th, debits,
                   asked, credits, net>>

\* receive_cross_shard_ack up to its question for the quorum; a validator's
\* acknowledgement counts the first time it is seen.  The lock is held until
\* the transfer is confirmed.
ReceiveCrossShardAck(x, s, v) ==
    /\ Ack(x, s, v) \in net
    /\ status[x] # "none" /\ closing = "none"
    /\ IF v = "none"
       THEN ShardAcked(x, s)
       ELSE /\ acks' = IF <<x, s, v>> \in seen THEN acks ELSE Recorded(x, s, v)
            /\ whole' = whole
            /\ seen' = Noticed(x, s, v)
    /\ closing' = IF QuorumReached(x, acks', whole') THEN x ELSE "none"
    /\ UNCHANGED <<setup, bal, status, entry, pending, begun, th, debits, asked, credits, net>>

\* clear, and the entry is confirmed; a request may have begun in between.
Confirm(x) ==
    /\ closing = x
    /\ closing' = "none"
    /\ begun' = begun \ {x}
    /\ acks' = [acks EXCEPT ![x] = Silent]
    /\ whole' = [whole EXCEPT ![x] = {}]
    /\ status' = [status EXCEPT ![x] = "confirmed"]
    /\ pending' = Dropped(x)
    /\ UNCHANGED <<setup, bal, entry, seen, th, debits, asked, credits, net>>

Next ==
    \/ Lose
    \/ \E t \in Threads, x \in Transfers : Register(t, x)
    \/ \E t \in Threads : AddTransaction(t)
    \/ \E x \in Transfers : ProcessCrossShard(x)
    \/ \E d \in Dests, x \in Transfers : ReceiveCrossShardCredit(d, x)
    \/ \E x \in Transfers, s \in Shards, v \in Members :
          SubmitValidatorAck(x, s, v) \/ SubmitValidatorAckHere(x, s, v)
    \/ \E x \in Transfers, s \in Shards, v \in Members \cup Dests \cup {"none"} :
          ReceiveCrossShardAck(x, s, v)
    \/ \E x \in Transfers : Confirm(x)

Spec == Init /\ [][Next]_vars

\* Threads go on, and a message that is sent again and again arrives some time.
FairSpec ==
    /\ Spec
    /\ \A t \in Threads : WF_vars(AddTransaction(t))
    /\ \A x \in Transfers :
        /\ WF_vars(Confirm(x))
        /\ \A d \in Dests :
            /\ SF_vars(ReceiveCrossShardCredit(d, x))
            /\ SF_vars(ReceiveCrossShardAck(x, "to", Name(d)))

-----------------------------------------------------------------------------
(* Properties.                                                             *)

\* The state has its shape: balances stay in range, a transfer is debited at
\* most once for each request, and only acknowledgements of a shard's committee
\* are counted (record_validator_ack).
TypeOK ==
    /\ setup \in Setups
    /\ bal \in 0 .. Funds
    /\ status \in [Transfers -> {"none", "pending", "debited", "confirmed", "failed"}]
    /\ entry \in [Transfers -> Threads \cup {"none"}]
    /\ pending \in [Transfers -> 0 .. MaxAdds]
    /\ begun \subseteq Transfers /\ closing \in Transfers \cup {"none"}
    /\ whole \in [Transfers -> SUBSET {s \in Shards : setup[s] = {}}]
    /\ \A x \in Transfers, s \in Shards : setup[s] # {} => acks[x][s] \subseteq setup[s]
    /\ credits \in [Dests -> [Transfers -> Nat]]
    /\ debits \in [Transfers -> 0 .. MaxAdds] /\ asked \in [Transfers -> 0 .. MaxAdds]
    /\ \A x \in Transfers : debits[x] <= asked[x]

\* However often a transfer is asked for, gossiped and repeated, a node of the
\* destination credits it once, and only after the source has debited it
\* (receive_cross_shard_credit).
CreditsFollowDebits ==
    \A d \in Dests, x \in Transfers :
        credits[d][x] <= 1 /\ (credits[d][x] > 0 => debits[x] > 0)

\* The members of a shard's committee that have spoken for the transfer.
Spoken(x, s) == {v \in setup[s] : <<x, s, v>> \in seen}

\* What a shard must have done for a transfer to be confirmed.
Vouched(x, s) ==
    IF setup[s] # {}
    THEN 3 * Cardinality(Spoken(x, s)) >= 2 * Cardinality(setup[s])
    ELSE IF s = "from" THEN debits[x] > 0
    ELSE \E d \in Dests : credits[d][x] > 0

\* The source holds a transfer for confirmed only when two thirds of each
\* committee have spoken for it, a source without one has debited and a
\* destination without one has credited, although requests for it overlap,
\* acknowledgements of an earlier one still arrive and outsiders acknowledge
\* too (quorum_reached, receive_cross_shard_ack).
ConfirmedIsVouched ==
    \A x \in Transfers : status[x] = "confirmed" => \A s \in Shards : Vouched(x, s)

\* The node's own acknowledgement is enough for the source shard, and those of
\* the nodes that credit are enough for the destination.
Confirmable ==
    /\ setup["from"] = {} \/ setup["from"] = {Self}
    /\ IF setup["to"] = {}
       THEN setup.nameless # {}
       ELSE Cardinality(setup["to"] \cap (Dests \ setup.nameless))
                >= QuorumSize(Cardinality(setup["to"]))

\* No member's acknowledgement was used up before the coordinator waited for it.
Unspent(x) == x \in begun /\ \A s \in Shards : Spoken(x, s) \subseteq acks[x][s]

\* A debited transfer that was asked for once is confirmed in the end, whatever
\* is lost on the way, if the source keeps gossiping what is debited, which a
\* mining node does between two blocks (main.py, process_cross_shard_transactions
\* and the repeated acknowledgement of receive_cross_shard_credit).
DebitedConfirms ==
    \A x \in Transfers :
        WF_vars(ProcessCrossShard(x)) =>
            ((Confirmable /\ status[x] = "debited" /\ asked[x] = 1 /\ Unspent(x))
                ~> (status[x] = "confirmed" \/ asked[x] > 1))

=============================================================================
