------------------------- MODULE CrossShardProofs -------------------------
(***************************************************************************)
(* Transfers between shards, for every number of transfers, requests and   *)
(* nodes and every choice of committees: no credit without a debit, and no *)
(* confirmation that the two shards have not vouched for.                  *)
(***************************************************************************)
EXTENDS CrossShard, FiniteSetTheorems, TLAPS

Pcs == {"idle", "begin", "check", "debit", "mark", "ack", "gossip"}
Statuses == {"none", "pending", "debited", "confirmed", "failed"}

Shape ==
  /\ setup \in Setups
  /\ status \in [Transfers -> Statuses]
  /\ debits \in [Transfers -> Nat]
  /\ credits \in [Dests -> [Transfers -> {0, 1}]]
  /\ th \in [Threads -> [pc : Pcs, tx : Transfers \cup {"none"}]]
  /\ \A t \in Threads : th[t].pc # "idle" => th[t].tx \in Transfers
  /\ acks \in [Transfers -> [Shards -> SUBSET Members]]
  /\ whole \in [Transfers -> SUBSET Shards]

\* Whatever speaks for a transfer, an entry, a request or a message, does so
\* after a debit; this is what makes CreditsFollowDebits inductive.
DebitedFirst ==
  /\ \A x \in Transfers : status[x] = "debited" => debits[x] > 0
  /\ \A t \in Threads : th[t].pc \in {"mark", "ack", "gossip"} => debits[th[t].tx] > 0
  /\ \A x \in Transfers, d \in Dests : Transfer(x, d) \in net => debits[x] > 0
  /\ \A d \in Dests, x \in Transfers : credits[d][x] > 0 => debits[x] > 0

Inv == Shape /\ DebitedFirst

LEMMA InvInit == Init => Inv
  BY CrossShardAssumption
  DEF Init, Inv, Shape, DebitedFirst, Silent, Free, Pcs, Statuses

LEMMA MessageFacts ==
  /\ \A x, y, d, e : Transfer(x, d) = Transfer(y, e) => x = y /\ d = e
  /\ \A x, y, d, s, v : Transfer(x, d) # Ack(y, s, v)
  /\ \A x, y, s, r, v, w : Ack(x, s, v) = Ack(y, r, w) => x = y /\ s = r /\ v = w
<1>1. \A x, d : Transfer(x, d).kind = "transfer" /\ Transfer(x, d).tx = x /\ Transfer(x, d).node = d
  BY DEF Transfer
<1>2. \A x, s, v : /\ Ack(x, s, v).kind = "ack" /\ Ack(x, s, v).tx = x
                   /\ Ack(x, s, v).shard = s /\ Ack(x, s, v).validator = v
  BY DEF Ack
<1> QED
  BY <1>1, <1>2

\* Steps that touch neither debits nor credits nor transfers under way.
LEMMA QuietStep ==
  ASSUME Inv, UNCHANGED <<debits, credits>>, Shape',
         \A x \in Transfers, d \in Dests : Transfer(x, d) \in net' => debits[x] > 0,
         \A x \in Transfers : status'[x] = "debited" => debits[x] > 0,
         \A t \in Threads : th'[t].pc \in {"mark", "ack", "gossip"} => debits[th'[t].tx] > 0
  PROVE  Inv'
  BY DEF Inv, DebitedFirst

LEMMA GossipedFollow ==
  ASSUME Inv, NEW x \in Transfers, debits[x] > 0, net' = net \cup Gossip(x)
  PROVE  \A y \in Transfers, d \in Dests : Transfer(y, d) \in net' => debits[y] > 0
<1> SUFFICES ASSUME NEW y \in Transfers, NEW d \in Dests, Transfer(y, d) \in Gossip(x)
             PROVE  y = x
  BY DEF Inv, DebitedFirst
<1>1. PICK e \in Dests : Transfer(y, d) = Transfer(x, e)
  BY DEF Gossip
<1> QED
  BY <1>1, MessageFacts

\* What the coordinator records keeps the shape of its tables.
LEMMA RecordedShape ==
  ASSUME Shape, NEW x \in Transfers, NEW s \in Shards, NEW v
  PROVE  /\ Recorded(x, s, v) \in [Transfers -> [Shards -> SUBSET Members]]
         /\ RecordedWhole(x, s) \in [Transfers -> SUBSET Shards]
         /\ \A y \in Transfers, r \in Shards :
              Recorded(x, s, v)[y][r] \subseteq
                acks[y][r] \cup (IF y = x /\ r = s /\ v \in setup[s] THEN {v} ELSE {})
         /\ \A y \in Transfers, r \in Shards :
              r \in RecordedWhole(x, s)[y] =>
                r \in whole[y] \/ (y = x /\ r = s /\ setup[s] = {})
<1>1. v \in setup[s] => v \in Members
  BY DEF Members, Shards
<1>2. acks \in [Transfers -> [Shards -> SUBSET Members]] /\ whole \in [Transfers -> SUBSET Shards]
  BY DEF Shape
<1>3. CASE x \in begun /\ v \in setup[s]
  <2>1. Recorded(x, s, v) = [acks EXCEPT ![x] = [acks[x] EXCEPT ![s] = acks[x][s] \cup {v}]]
    BY <1>3 DEF Recorded
  <2>2. [acks[x] EXCEPT ![s] = acks[x][s] \cup {v}] \in [Shards -> SUBSET Members]
    BY <1>1, <1>2, <1>3
  <2>3. \A y \in Transfers, r \in Shards :
          Recorded(x, s, v)[y][r] = IF y = x /\ r = s THEN acks[x][s] \cup {v} ELSE acks[y][r]
    BY <1>2, <2>1
  <2> QED
    BY <1>2, <1>3, <2>1, <2>2, <2>3 DEF RecordedWhole
<1>4. CASE ~(x \in begun /\ v \in setup[s])
  BY <1>2, <1>4 DEF Recorded, RecordedWhole
<1> QED
  BY <1>3, <1>4

LEMMA RegisterStep ==
  ASSUME Inv, NEW t \in Threads, NEW x \in Transfers, Register(t, x)
  PROVE  Inv'
<1>1. Shape'
  BY DEF Inv, Shape, Register, Pcs, Statuses, Members
<1>2. \A y \in Transfers : status'[y] = "debited" => debits[y] > 0
  BY DEF Inv, Shape, DebitedFirst, Register
<1>3. \A u \in Threads : th'[u].pc \in {"mark", "ack", "gossip"} => debits[th'[u].tx] > 0
  BY DEF Inv, Shape, DebitedFirst, Register
<1>4. \A y \in Transfers, d \in Dests : Transfer(y, d) \in net' => debits[y] > 0
  BY DEF Inv, DebitedFirst, Register
<1> QED
  BY <1>1, <1>2, <1>3, <1>4, QuietStep DEF Register

\* A request that gives up.
LEMMA FailsStep ==
  ASSUME Inv, NEW t \in Threads, th[t].tx \in Transfers, Fails(t),
         UNCHANGED <<setup, acks, whole, debits, credits, net>>
  PROVE  Inv'
<1>1. Shape'
  BY DEF Inv, Shape, Fails, Becomes, Free, Pcs, Statuses, Members
<1>2. \A y \in Transfers : status'[y] = "debited" => debits[y] > 0
  BY DEF Inv, Shape, DebitedFirst, Fails, Becomes
<1>3. \A u \in Threads : th'[u].pc \in {"mark", "ack", "gossip"} => debits[th'[u].tx] > 0
  BY DEF Inv, Shape, DebitedFirst, Fails, Free
<1>4. \A y \in Transfers, d \in Dests : Transfer(y, d) \in net' => debits[y] > 0
  BY DEF Inv, DebitedFirst
<1> QED
  BY <1>1, <1>2, <1>3, <1>4, QuietStep

\* A request that goes on, its transfer debited if it has come that far.
LEMMA GoesStep ==
  ASSUME Inv, NEW t \in Threads, NEW pc \in Pcs, th[t].tx \in Transfers, Go(t, pc),
         pc \in {"mark", "ack", "gossip"} => debits[th[t].tx] > 0,
         acks' \in [Transfers -> [Shards -> SUBSET Members]],
         whole' \in [Transfers -> SUBSET Shards],
         \/ UNCHANGED status
         \/ Becomes(t, "debited") /\ debits[th[t].tx] > 0,
         UNCHANGED <<setup, debits, credits, net>>
  PROVE  Inv'
<1>1. /\ th' \in [Threads -> [pc : Pcs, tx : Transfers \cup {"none"}]]
      /\ \A u \in Threads : th'[u].tx = th[u].tx /\ (u # t => th'[u] = th[u])
      /\ th'[t].pc = pc
  <2>1. th \in [Threads -> [pc : Pcs, tx : Transfers \cup {"none"}]]
    BY DEF Inv, Shape
  <2>2. th' = [th EXCEPT ![t] = [th[t] EXCEPT !.pc = pc]]
    BY DEF Go
  <2>3. [th[t] EXCEPT !.pc = pc] \in [pc : Pcs, tx : Transfers \cup {"none"}]
    BY <2>1
  <2>4. th'[t] = [th[t] EXCEPT !.pc = pc] /\ \A u \in Threads \ {t} : th'[u] = th[u]
    BY <2>1, <2>2
  <2> QED
    BY <2>1, <2>2, <2>3, <2>4
<1>2. Shape'
  BY <1>1 DEF Inv, Shape, Becomes, Statuses, Members
<1>3. \A y \in Transfers : status'[y] = "debited" => debits[y] > 0
  BY DEF Inv, Shape, DebitedFirst, Becomes
<1>4. \A u \in Threads : th'[u].pc \in {"mark", "ack", "gossip"} => debits[th'[u].tx] > 0
  BY <1>1 DEF Inv, DebitedFirst
<1>5. \A y \in Transfers, d \in Dests : Transfer(y, d) \in net' => debits[y] > 0
  BY DEF Inv, DebitedFirst
<1> QED
  BY <1>2, <1>3, <1>4, <1>5, QuietStep

LEMMA DebitStep ==
  ASSUME Inv, NEW t \in Threads, DebitSource(t), th[t].tx \in Transfers, ~Fails(t)
  PROVE  Inv'
<1>0. /\ debits' = [debits EXCEPT ![th[t].tx] = @ + 1] /\ Go(t, "mark")
      /\ UNCHANGED <<setup, status, acks, whole, credits, net>>
  BY DEF DebitSource
<1>1. /\ \A x \in Transfers : debits'[x] >= debits[x]
      /\ debits'[th[t].tx] > 0 /\ debits' \in [Transfers -> Nat]
  BY <1>0 DEF Inv, Shape
<1>2. /\ th' \in [Threads -> [pc : Pcs, tx : Transfers \cup {"none"}]]
      /\ \A u \in Threads : th'[u].tx = th[u].tx /\ (u # t => th'[u] = th[u])
  BY <1>0 DEF Inv, Shape, Go, Pcs
<1>3. Shape'
  BY <1>0, <1>1, <1>2 DEF Inv, Shape, Members
<1>4. ASSUME NEW u \in Threads, th'[u].pc \in {"mark", "ack", "gossip"}
      PROVE  debits'[th'[u].tx] > 0
  <2>1. CASE u = t
    BY <1>1, <1>2, <2>1
  <2>2. CASE u # t
    <3>1. th[u].tx \in Transfers /\ debits[th[u].tx] > 0
      BY <1>2, <1>4, <2>2 DEF Inv, Shape, DebitedFirst
    <3> QED
      BY <1>1, <1>2, <3>1 DEF Inv, Shape
  <2> QED
    BY <2>1, <2>2
<1>5. \A x \in Transfers : debits[x] > 0 => debits'[x] > 0
  BY <1>1 DEF Inv, Shape
<1>6. DebitedFirst'
  BY <1>0, <1>4, <1>5 DEF Inv, DebitedFirst
<1> QED
  BY <1>3, <1>6 DEF Inv

LEMMA RequestStep ==
  ASSUME Inv, NEW t \in Threads, AddTransaction(t)
  PROVE  Inv'
<1>0. /\ th[t].tx \in Transfers
      /\ acks \in [Transfers -> [Shards -> SUBSET Members]] /\ whole \in [Transfers -> SUBSET Shards]
      /\ Shape
  BY DEF Inv, Shape, AddTransaction, CoordinatorBegin, ValidateCrossShardTx, DebitSource,
         MarkDebited, RecordShardAck, GossipCrossShard
<1>1. CASE CoordinatorBegin(t)
  <2>1. acks' \in [Transfers -> [Shards -> SUBSET Members]]
    BY <1>0, <1>1 DEF CoordinatorBegin, Silent
  <2> QED
    BY <1>0, <1>1, <2>1, GoesStep DEF CoordinatorBegin, Pcs
<1>2. CASE ValidateCrossShardTx(t)
  BY <1>0, <1>2, GoesStep, FailsStep DEF ValidateCrossShardTx, Pcs
<1>3. CASE DebitSource(t)
  <2>1. CASE Fails(t)
    <3>1. th'[t].pc # "mark"
      BY <2>1, <1>0 DEF Fails, Shape, Free
    <3>2. UNCHANGED <<setup, acks, whole, debits, credits, net>>
      BY <1>0, <1>3, <3>1 DEF DebitSource, Go, Shape
    <3> QED
      BY <1>0, <2>1, <3>2, FailsStep
  <2> QED
    BY <1>0, <1>3, <2>1, DebitStep
<1>4. CASE MarkDebited(t)
  BY <1>0, <1>4, GoesStep DEF MarkDebited, Pcs, Inv, DebitedFirst
<1>5. CASE RecordShardAck(t)
  <2>1. /\ acks' \in [Transfers -> [Shards -> SUBSET Members]]
        /\ whole' \in [Transfers -> SUBSET Shards]
    BY <1>0, <1>5, RecordedShape DEF RecordShardAck, ShardAcked, Shards
  <2> QED
    BY <1>0, <1>5, <2>1, GoesStep DEF RecordShardAck, Pcs, Inv, DebitedFirst
<1>6. CASE GossipCrossShard(t)
  <2>1. debits[th[t].tx] > 0
    BY <1>6 DEF Inv, DebitedFirst, GossipCrossShard
  <2>2. Shape'
    BY <1>6 DEF Inv, Shape, GossipCrossShard, Free, Pcs, Members
  <2>3. /\ \A x \in Transfers : status'[x] = "debited" => debits[x] > 0
        /\ \A u \in Threads : th'[u].pc \in {"mark", "ack", "gossip"} => debits[th'[u].tx] > 0
    BY <1>6 DEF Inv, Shape, DebitedFirst, GossipCrossShard, Free
  <2>4. \A y \in Transfers, d \in Dests : Transfer(y, d) \in net' => debits[y] > 0
    BY <1>0, <1>6, <2>1, GossipedFollow DEF GossipCrossShard
  <2> QED
    BY <1>6, <2>2, <2>3, <2>4, QuietStep DEF GossipCrossShard
<1> QED
  BY <1>1, <1>2, <1>3, <1>4, <1>5, <1>6 DEF AddTransaction

LEMMA CreditStep ==
  ASSUME Inv, NEW d \in Dests, NEW x \in Transfers, ReceiveCrossShardCredit(d, x)
  PROVE  /\ Inv' /\ credits'[d][x] > 0
         /\ \A e \in Dests, y \in Transfers : credits[e][y] > 0 => credits'[e][y] > 0
<1>1. debits[x] > 0
  BY DEF Inv, DebitedFirst, ReceiveCrossShardCredit
<1>2. /\ credits' \in [Dests -> [Transfers -> {0, 1}]] /\ credits'[d][x] = 1
      /\ \A e \in Dests, y \in Transfers :
           /\ credits[e][y] > 0 => credits'[e][y] > 0
           /\ <<e, y>> # <<d, x>> => credits'[e][y] = credits[e][y]
  <2>0. credits \in [Dests -> [Transfers -> {0, 1}]]
    BY DEF Inv, Shape
  <2>1. CASE credits[d][x] = 0
    <3>1. credits' = [credits EXCEPT ![d] = [credits[d] EXCEPT ![x] = 1]]
      BY <2>1 DEF ReceiveCrossShardCredit
    <3> QED
      BY <2>0, <3>1
  <2>2. CASE credits[d][x] # 0
    BY <2>0, <2>2 DEF ReceiveCrossShardCredit
  <2> QED
    BY <2>1, <2>2
<1>3. Shape'
  BY <1>2 DEF Inv, Shape, ReceiveCrossShardCredit, source, Members
<1>4. \A y \in Transfers, e \in Dests : Transfer(y, e) \in net' => Transfer(y, e) \in net
  BY MessageFacts DEF ReceiveCrossShardCredit
<1>5. DebitedFirst'
  BY <1>1, <1>2, <1>4 DEF Inv, Shape, DebitedFirst, ReceiveCrossShardCredit, source
<1> QED
  BY <1>2, <1>3, <1>5 DEF Inv

\* Acknowledgements touch the coordinator alone.
LEMMA AckStep ==
  ASSUME Inv, NEW x \in Transfers, NEW s \in Shards, NEW v,
         \/ SubmitValidatorAck(x, s, v)
         \/ SubmitValidatorAckHere(x, s, v)
         \/ ReceiveCrossShardAck(x, s, v)
         \/ Confirm(x)
  PROVE  Inv'
<1>0. Shape
  BY DEF Inv
<1>1. /\ acks' \in [Transfers -> [Shards -> SUBSET Members]]
      /\ whole' \in [Transfers -> SUBSET Shards]
  <2>1. CASE SubmitValidatorAck(x, s, v)
    BY <1>0, <2>1 DEF SubmitValidatorAck, source, Shape
  <2>2. CASE SubmitValidatorAckHere(x, s, v)
    BY <1>0, <2>2, RecordedShape DEF SubmitValidatorAckHere, Shape
  <2>3. CASE ReceiveCrossShardAck(x, s, v)
    <3>1. /\ Recorded(x, s, v) \in [Transfers -> [Shards -> SUBSET Members]]
          /\ Recorded(x, s, Self) \in [Transfers -> [Shards -> SUBSET Members]]
          /\ RecordedWhole(x, s) \in [Transfers -> SUBSET Shards]
      BY <1>0, RecordedShape
    <3> QED
      BY <1>0, <2>3, <3>1 DEF ReceiveCrossShardAck, ShardAcked, Shape
  <2>4. CASE Confirm(x)
    BY <1>0, <2>4 DEF Confirm, Silent, Shape
  <2> QED
    BY <2>1, <2>2, <2>3, <2>4
<1>2. UNCHANGED <<setup, th, debits, credits>>
  BY DEF SubmitValidatorAck, SubmitValidatorAckHere, ReceiveCrossShardAck, Confirm, source
<1>3. /\ status' \in [Transfers -> Statuses]
      /\ \A y \in Transfers : status'[y] = "debited" => status[y] = "debited"
  BY <1>0 DEF SubmitValidatorAck, SubmitValidatorAckHere, ReceiveCrossShardAck, Confirm, source,
              Shape, Statuses
<1>4. \A y \in Transfers, e \in Dests : Transfer(y, e) \in net' => Transfer(y, e) \in net
  BY MessageFacts
  DEF SubmitValidatorAck, SubmitValidatorAckHere, ReceiveCrossShardAck, Confirm
<1>5. Shape'
  BY <1>0, <1>1, <1>2, <1>3 DEF Shape, Members
<1> QED
  BY <1>2, <1>3, <1>4, <1>5, QuietStep DEF Inv, DebitedFirst

LEMMA InvStep == Inv /\ [Next]_vars => Inv'
<1> SUFFICES ASSUME Inv, [Next]_vars PROVE Inv'
  OBVIOUS
<1>1. ASSUME NEW x \in Transfers, ProcessCrossShard(x) PROVE Inv'
  <2>1. debits[x] > 0
    BY <1>1 DEF Inv, DebitedFirst, ProcessCrossShard
  <2>2. \A y \in Transfers, d \in Dests : Transfer(y, d) \in net' => debits[y] > 0
    BY <1>1, <2>1, GossipedFollow DEF ProcessCrossShard
  <2>3. Shape' /\ UNCHANGED <<status, th, debits, credits>>
    BY <1>1 DEF ProcessCrossShard, source, Inv, Shape, Members
  <2> QED
    BY <2>2, <2>3, QuietStep DEF Inv, DebitedFirst
<1>2. CASE UNCHANGED vars \/ Lose
  <2>1. Shape' /\ net' \subseteq net /\ UNCHANGED <<status, th, debits, credits>>
    BY <1>2 DEF vars, Lose, source, Inv, Shape, Members
  <2> QED
    BY <2>1, QuietStep DEF Inv, DebitedFirst
<1>3. \A x \in Transfers : Confirm(x) => Inv'
  BY AckStep DEF Shards
<1> QED
  BY <1>1, <1>2, <1>3, RegisterStep, RequestStep, CreditStep, AckStep DEF Next

LEMMA InvAlways == Spec => []Inv
  BY InvInit, InvStep, PTL DEF Spec

\* No repetition, loss or new request makes receive_cross_shard_credit credit
\* a transfer twice at a node, or before its source was debited.
THEOREM CreditsSafe == Spec => []CreditsFollowDebits
<1>1. Inv => CreditsFollowDebits
  <2>1. Inv => \A d \in Dests, x \in Transfers : credits[d][x] \in {0, 1}
    BY DEF Inv, Shape
  <2> QED
    BY <2>1 DEF Inv, DebitedFirst, CreditsFollowDebits
<1> QED
  BY <1>1, InvAlways, PTL

-----------------------------------------------------------------------------
(***************************************************************************)
(* Confirmation.  Only members that were seen are counted, and a shard     *)
(* speaks as such only by a debit or by a node that credited; a quorum     *)
(* counted so vouches, and what vouches for a transfer stays.              *)
(***************************************************************************)

Counted ==
  /\ \A x \in Transfers, s \in Shards : acks[x][s] \subseteq Spoken(x, s)
  /\ \A x \in Transfers, s \in Shards : s \in whole[x] /\ setup[s] = {} => Vouched(x, s)
  /\ \A x \in Transfers : Ack(x, "from", "none") \notin net
  /\ \A x \in Transfers : Ack(x, "to", "none") \in net => \E d \in Dests : credits[d][x] > 0
  /\ closing # "none" => closing \in Transfers /\ \A s \in Shards : Vouched(closing, s)

LEMMA CountedInit == Init => Counted /\ ConfirmedIsVouched
  BY DEF Init, Counted, ConfirmedIsVouched, Silent

\* What vouches for a transfer only grows.
LEMMA VouchedLasts ==
  ASSUME Inv, UNCHANGED setup, seen \subseteq seen',
         \A x \in Transfers : debits[x] > 0 => debits'[x] > 0,
         \A d \in Dests, x \in Transfers : credits[d][x] > 0 => credits'[d][x] > 0,
         NEW x \in Transfers, NEW s \in Shards
  PROVE  /\ Spoken(x, s) \subseteq Spoken(x, s)'
         /\ Vouched(x, s) => Vouched(x, s)'
<1>1. IsFiniteSet(setup[s])
  BY CrossShardAssumption DEF Inv, Shape
<1>2. Spoken(x, s) \subseteq Spoken(x, s)' /\ Spoken(x, s)' \subseteq setup[s]
  BY DEF Spoken
<1>3. IsFiniteSet(Spoken(x, s)') /\ IsFiniteSet(Spoken(x, s))
  BY <1>1, <1>2, FS_Subset
<1>4. Cardinality(Spoken(x, s)) <= Cardinality(Spoken(x, s)')
  BY <1>2, <1>3, FS_Subset
<1>5. /\ Cardinality(Spoken(x, s)) \in Nat /\ Cardinality(Spoken(x, s)') \in Nat
      /\ Cardinality(setup[s]) \in Nat
  BY <1>1, <1>3, FS_CardinalityType
<1>6. 3 * Cardinality(Spoken(x, s)) >= 2 * Cardinality(setup[s])
        => 3 * Cardinality(Spoken(x, s)') >= 2 * Cardinality(setup[s])
  BY <1>4, <1>5
<1> QED
  BY <1>2, <1>6 DEF Vouched

\* A quorum of a committee, counted among the members S, is two thirds of it.
LEMMA QuorumCounts ==
  ASSUME Inv, NEW s \in Shards, NEW S, S \subseteq setup[s], NEW A, A \subseteq S,
         Cardinality(A) >= QuorumSize(Cardinality(setup[s]))
  PROVE  3 * Cardinality(S) >= 2 * Cardinality(setup[s])
<1>1. IsFiniteSet(setup[s])
  BY CrossShardAssumption DEF Inv, Shape
<1>2. IsFiniteSet(S)
  BY <1>1, FS_Subset
<1>3. Cardinality(A) <= Cardinality(S) /\ IsFiniteSet(A)
  BY <1>2, FS_Subset
<1>4. Cardinality(A) \in Nat /\ Cardinality(S) \in Nat /\ Cardinality(setup[s]) \in Nat
  BY <1>1, <1>2, <1>3, FS_CardinalityType
<1>5. Cardinality(A) >= (2 * Cardinality(setup[s]) + 2) \div 3
  BY DEF QuorumSize
<1>6. \A n \in Nat : 3 * ((2 * n + 2) \div 3) >= 2 * n /\ (2 * n + 2) \div 3 \in Int
  OBVIOUS
<1>7. /\ 3 * ((2 * Cardinality(setup[s]) + 2) \div 3) >= 2 * Cardinality(setup[s])
      /\ (2 * Cardinality(setup[s]) + 2) \div 3 \in Int
  BY <1>4, <1>6
<1> QED
  BY <1>3, <1>4, <1>5, <1>7

\* Steps that record nothing and close nothing.
LEMMA RestStep ==
  ASSUME Inv, Inv', Counted, ConfirmedIsVouched,
         UNCHANGED <<setup, whole, seen, closing>>,
         \A x \in Transfers : debits[x] > 0 => debits'[x] > 0,
         \A d \in Dests, x \in Transfers : credits[d][x] > 0 => credits'[d][x] > 0,
         \A x \in Transfers, s \in Shards : acks'[x][s] \subseteq acks[x][s],
         \A x \in Transfers : status'[x] = "confirmed" => status[x] = "confirmed",
         \A x \in Transfers :
           Ack(x, "to", "none") \in net' => \E d \in Dests : credits'[d][x] > 0,
         \A x \in Transfers : Ack(x, "from", "none") \notin net'
  PROVE  Counted' /\ ConfirmedIsVouched'
<1>1. \A x \in Transfers, s \in Shards :
        Spoken(x, s) \subseteq Spoken(x, s)' /\ (Vouched(x, s) => Vouched(x, s)')
  BY VouchedLasts
<1>2. Counted'
  BY <1>1 DEF Counted
<1> QED
  BY <1>1, <1>2 DEF ConfirmedIsVouched

\* Steps that record an acknowledgement: of a member that is seen, or of a
\* shard as such for which something vouches.
LEMMA RecordStep ==
  ASSUME Inv, Counted, ConfirmedIsVouched,
         UNCHANGED <<setup, debits, credits, net, status>>, seen \subseteq seen',
         NEW x \in Transfers,
         \A y \in Transfers, s \in Shards : acks'[y][s] \subseteq acks[y][s] \cup Spoken(y, s)',
         \A y \in Transfers, s \in Shards :
           s \in whole'[y] => s \in whole[y] \/ (setup[s] = {} => Vouched(y, s)),
         closing' \in {closing, "none"} \/ (closing' = x /\ QuorumReached(x, acks', whole'))
  PROVE  Counted' /\ ConfirmedIsVouched'
<1>1. \A y \in Transfers, s \in Shards :
        Spoken(y, s) \subseteq Spoken(y, s)' /\ (Vouched(y, s) => Vouched(y, s)')
  BY VouchedLasts
<1>2. \A y \in Transfers, s \in Shards : acks'[y][s] \subseteq Spoken(y, s)'
  BY <1>1 DEF Counted
<1>3. \A y \in Transfers, s \in Shards : s \in whole'[y] /\ setup[s] = {} => Vouched(y, s)'
  BY <1>1 DEF Counted
<1>4. ASSUME closing' # "none"
      PROVE  closing' \in Transfers /\ \A s \in Shards : Vouched(closing, s)'
  <2>1. CASE closing' = closing
    BY <1>1, <1>4, <2>1 DEF Counted
  <2>2. CASE closing' = x /\ QuorumReached(x, acks', whole')
    <3>1. ASSUME NEW s \in Shards PROVE Vouched(x, s)'
      <4>1. CASE setup[s] = {}
        BY <1>3, <2>2, <4>1 DEF QuorumReached
      <4>2. CASE setup[s] # {}
        <5>1. Cardinality(acks'[x][s]) >= QuorumSize(Cardinality(setup[s]))
          BY <2>2, <4>2 DEF QuorumReached
        <5>2. acks'[x][s] \subseteq Spoken(x, s)' /\ Spoken(x, s)' \subseteq setup[s]
          BY <1>2 DEF Spoken
        <5>3. 3 * Cardinality(Spoken(x, s)') >= 2 * Cardinality(setup[s])
          BY <5>1, <5>2, QuorumCounts
        <5> QED
          BY <4>2, <5>3 DEF Vouched
      <4> QED
        BY <4>1, <4>2
    <3> QED
      BY <2>2, <3>1
  <2> QED
    BY <1>4, <2>1, <2>2
<1>5. Counted'
  BY <1>2, <1>3, <1>4 DEF Counted
<1> QED
  BY <1>1, <1>5 DEF ConfirmedIsVouched

\* Recording keeps to what the code looked at.
LEMMA Recording ==
  ASSUME Inv, NEW x \in Transfers, NEW s \in Shards, NEW v, UNCHANGED setup,
         seen' = Noticed(x, s, v), acks' \in {acks, Recorded(x, s, v)}
  PROVE  /\ seen \subseteq seen'
         /\ \A y \in Transfers, r \in Shards :
              acks'[y][r] \subseteq acks[y][r] \cup Spoken(y, r)'
<1>1. \A y \in Transfers, r \in Shards :
        Recorded(x, s, v)[y][r] \subseteq
          acks[y][r] \cup (IF y = x /\ r = s /\ v \in setup[s] THEN {v} ELSE {})
  BY RecordedShape DEF Inv
<1> QED
  BY <1>1 DEF Noticed, Spoken

LEMMA ShardRecords ==
  ASSUME Inv, Counted, ConfirmedIsVouched, NEW x \in Transfers, NEW s \in Shards,
         ShardAcked(x, s), setup[s] = {} => Vouched(x, s),
         UNCHANGED <<setup, debits, credits, net, status>>,
         closing' \in {closing, "none"} \/ (closing' = x /\ QuorumReached(x, acks', whole'))
  PROVE  Counted' /\ ConfirmedIsVouched'
<1>1. CASE setup[s] = {}
  <2>1. \A y \in Transfers, r \in Shards :
          r \in whole'[y] => r \in whole[y] \/ (y = x /\ r = s)
    BY <1>1, RecordedShape DEF ShardAcked, Inv
  <2>2. acks' = acks /\ seen' = seen
    BY <1>1 DEF ShardAcked
  <2> QED
    BY <1>1, <2>1, <2>2, RecordStep
<1>2. CASE setup[s] # {}
  <2>1. whole' = whole /\ acks' = Recorded(x, s, Self) /\ seen' = Noticed(x, s, Self)
    BY <1>2 DEF ShardAcked
  <2>2. /\ seen \subseteq seen'
        /\ \A y \in Transfers, r \in Shards :
             acks'[y][r] \subseteq acks[y][r] \cup Spoken(y, r)'
    BY <2>1, Recording
  <2> QED
    BY <2>1, <2>2, RecordStep
<1> QED
  BY <1>1, <1>2

LEMMA RequestCounted ==
  ASSUME Inv, Inv', Counted, ConfirmedIsVouched, NEW t \in Threads, AddTransaction(t)
  PROVE  Counted' /\ ConfirmedIsVouched'
<1>0. th[t].tx \in Transfers /\ Shape
  BY DEF Inv, Shape, AddTransaction, CoordinatorBegin, ValidateCrossShardTx, DebitSource,
         MarkDebited, RecordShardAck, GossipCrossShard
<1>1. CASE RecordShardAck(t)
  <2>1. setup["from"] = {} => Vouched(th[t].tx, "from")
    BY <1>1 DEF RecordShardAck, Inv, DebitedFirst, Vouched
  <2> QED
    BY <1>0, <1>1, <2>1, ShardRecords DEF RecordShardAck, Shards
<1>2. CASE ~RecordShardAck(t)
  <2>1. /\ UNCHANGED <<setup, whole, seen, closing, credits>>
        /\ net' = net \/ (GossipCrossShard(t) /\ net' = net \cup Gossip(th[t].tx))
    BY <1>2 DEF AddTransaction, CoordinatorBegin, ValidateCrossShardTx, DebitSource, MarkDebited,
                GossipCrossShard
  <2>2. \A x \in Transfers : debits[x] > 0 => debits'[x] > 0
    <3>1. debits' = debits \/ debits' = [debits EXCEPT ![th[t].tx] = @ + 1]
      BY <1>2 DEF AddTransaction, CoordinatorBegin, ValidateCrossShardTx, DebitSource,
                  MarkDebited, GossipCrossShard
    <3> QED
      BY <1>0, <3>1 DEF Shape
  <2>3. \A x \in Transfers : status'[x] = "confirmed" => status[x] = "confirmed"
    BY <1>0, <1>2 DEF Shape, AddTransaction, CoordinatorBegin, ValidateCrossShardTx, DebitSource,
                      MarkDebited, GossipCrossShard, Fails, Becomes
  <2>4. \A x \in Transfers, s \in Shards : acks'[x][s] \subseteq acks[x][s]
    <3>1. acks' = acks \/ acks' = [acks EXCEPT ![th[t].tx] = Silent]
      BY <1>2 DEF AddTransaction, CoordinatorBegin, ValidateCrossShardTx, DebitSource,
                  MarkDebited, GossipCrossShard
    <3> QED
      BY <1>0, <3>1 DEF Shape, Silent
  <2>5. \A x, s, v : Ack(x, s, v) \in net' => Ack(x, s, v) \in net
    BY <2>1, MessageFacts DEF Gossip
  <2> QED
    BY <2>1, <2>2, <2>3, <2>4, <2>5, RestStep DEF Counted
<1> QED
  BY <1>1, <1>2

LEMMA AckCounted ==
  ASSUME Inv, Counted, ConfirmedIsVouched, NEW x \in Transfers, NEW s \in Shards, NEW v,
         ReceiveCrossShardAck(x, s, v)
  PROVE  Counted' /\ ConfirmedIsVouched'
<1>0. /\ UNCHANGED <<setup, debits, credits, net, status>>
      /\ closing' = "none" \/ (closing' = x /\ QuorumReached(x, acks', whole'))
  BY DEF ReceiveCrossShardAck
<1>1. CASE v = "none"
  <2>1. setup[s] = {} => Vouched(x, s)
    BY <1>1 DEF ReceiveCrossShardAck, Counted, Vouched, Shards
  <2> QED
    BY <1>0, <1>1, <2>1, ShardRecords DEF ReceiveCrossShardAck
<1>2. CASE v # "none"
  <2>1. acks' \in {acks, Recorded(x, s, v)} /\ whole' = whole /\ seen' = Noticed(x, s, v)
    BY <1>2 DEF ReceiveCrossShardAck
  <2>2. /\ seen \subseteq seen'
        /\ \A y \in Transfers, r \in Shards :
             acks'[y][r] \subseteq acks[y][r] \cup Spoken(y, r)'
    BY <1>0, <2>1, Recording
  <2> QED
    BY <1>0, <2>1, <2>2, RecordStep
<1> QED
  BY <1>1, <1>2

LEMMA ConfirmCounted ==
  ASSUME Inv, Inv', Counted, ConfirmedIsVouched, NEW x \in Transfers, Confirm(x)
  PROVE  Counted' /\ ConfirmedIsVouched'
<1>1. /\ UNCHANGED <<setup, seen, debits, credits, net>> /\ closing' = "none"
      /\ \A y \in Transfers, s \in Shards : acks'[y][s] \subseteq acks[y][s]
      /\ \A y \in Transfers, s \in Shards : s \in whole'[y] => s \in whole[y]
      /\ \A y \in Transfers : status'[y] = "confirmed" => y = x \/ status[y] = "confirmed"
  BY DEF Confirm, Silent, Inv, Shape
<1>2. \A y \in Transfers, s \in Shards :
        Spoken(y, s)' = Spoken(y, s) /\ (Vouched(y, s) => Vouched(y, s)')
  BY <1>1 DEF Spoken, Vouched
<1>3. closing = "none" \/ \A s \in Shards : Vouched(x, s)
  BY DEF Confirm, Counted
<1>4. \A s \in Shards : Vouched(x, s)
  BY <1>3, CrossShardAssumption DEF Confirm
<1>5. Counted'
  BY <1>1, <1>2 DEF Counted
<1> QED
  BY <1>1, <1>2, <1>4, <1>5 DEF ConfirmedIsVouched

LEMMA CountedStep ==
  ASSUME Inv, Inv', Counted, ConfirmedIsVouched, [Next]_vars
  PROVE  Counted' /\ ConfirmedIsVouched'
<1>1. CASE Lose \/ UNCHANGED vars
  BY <1>1, RestStep DEF Lose, vars, source, Counted
<1>2. ASSUME NEW t \in Threads, NEW x \in Transfers, Register(t, x)
      PROVE  Counted' /\ ConfirmedIsVouched'
  <2>1. \A y \in Transfers : status'[y] = "confirmed" => status[y] = "confirmed"
    BY <1>2 DEF Register, Inv, Shape
  <2> QED
    BY <1>2, <2>1, RestStep DEF Register, Counted
<1>3. ASSUME NEW x \in Transfers, ProcessCrossShard(x)
      PROVE  Counted' /\ ConfirmedIsVouched'
  <2>1. \A y, s, v : Ack(y, s, v) \in net' => Ack(y, s, v) \in net
    BY <1>3, MessageFacts DEF ProcessCrossShard, Gossip
  <2> QED
    BY <1>3, <2>1, RestStep DEF ProcessCrossShard, source, Counted
<1>4. ASSUME NEW d \in Dests, NEW x \in Transfers, ReceiveCrossShardCredit(d, x)
      PROVE  Counted' /\ ConfirmedIsVouched'
  <2>1. /\ credits'[d][x] > 0
        /\ \A e \in Dests, y \in Transfers : credits[e][y] > 0 => credits'[e][y] > 0
    BY <1>4, CreditStep
  <2>2. \A y, r, v : Ack(y, r, v) \in net' => Ack(y, r, v) \in net \/ (y = x /\ r = "to")
    BY <1>4, MessageFacts DEF ReceiveCrossShardCredit
  <2>3. /\ \A y \in Transfers :
             Ack(y, "to", "none") \in net' => \E e \in Dests : credits'[e][y] > 0
        /\ \A y \in Transfers : Ack(y, "from", "none") \notin net'
    BY <2>1, <2>2 DEF Counted
  <2> QED
    BY <1>4, <2>1, <2>3, RestStep DEF ReceiveCrossShardCredit, source
<1>5. ASSUME NEW x \in Transfers, NEW s \in Shards, NEW v, SubmitValidatorAck(x, s, v)
      PROVE  Counted' /\ ConfirmedIsVouched'
  <2>1. v # "none"
    BY <1>5, CrossShardAssumption DEF SubmitValidatorAck, Inv, Shape
  <2>2. \A y, r : Ack(y, r, "none") \in net' => Ack(y, r, "none") \in net
    BY <1>5, <2>1, MessageFacts DEF SubmitValidatorAck
  <2> QED
    BY <1>5, <2>2, RestStep DEF SubmitValidatorAck, source, Counted
<1>6. ASSUME NEW x \in Transfers, NEW s \in Shards, NEW v, SubmitValidatorAckHere(x, s, v)
      PROVE  Counted' /\ ConfirmedIsVouched'
  <2>1. /\ seen \subseteq seen'
        /\ \A y \in Transfers, r \in Shards :
             acks'[y][r] \subseteq acks[y][r] \cup Spoken(y, r)'
    BY <1>6, Recording DEF SubmitValidatorAckHere
  <2> QED
    BY <1>6, <2>1, RecordStep DEF SubmitValidatorAckHere
<1> QED
  BY <1>1, <1>2, <1>3, <1>4, <1>5, <1>6, RequestCounted, AckCounted, ConfirmCounted DEF Next

\* receive_cross_shard_ack confirms a transfer only when two thirds of each
\* committee have spoken for it, and a shard without one has debited or
\* credited.
THEOREM ConfirmedSafe == Spec => []ConfirmedIsVouched
<1>1. Inv /\ Inv' /\ Counted /\ ConfirmedIsVouched /\ [Next]_vars
        => Counted' /\ ConfirmedIsVouched'
  BY CountedStep
<1> QED
  BY <1>1, CountedInit, InvAlways, PTL DEF Spec

-----------------------------------------------------------------------------
(***************************************************************************)
(* The shape of the source.  That debits stay within the requests needs a  *)
(* count: a request that has not debited yet may still do so, once.        *)
(***************************************************************************)

\* The requests for x that have not come to their debit.
Undebited(x) == {t \in Threads : th[t].pc \in {"begin", "check", "debit"} /\ th[t].tx = x}

OneDebitEach ==
  \A x \in Transfers :
    /\ IsFiniteSet(Undebited(x))
    /\ debits[x] + Cardinality(Undebited(x)) <= asked[x]

Books ==
  /\ bal \in 0 .. Funds
  /\ entry \in [Transfers -> Threads \cup {"none"}]
  /\ pending \in [Transfers -> Nat]
  /\ asked \in [Transfers -> 0 .. MaxAdds]
  /\ begun \subseteq Transfers
  /\ \A x \in Transfers : pending[x] <= asked[x]
  /\ \A x \in Transfers, s \in Shards : s \in whole[x] => setup[s] = {}

Source == Books /\ OneDebitEach

LEMMA SourceInit == Init => Source
<1> SUFFICES ASSUME Init PROVE Source
  OBVIOUS
<1>1. Books
  BY CrossShardAssumption DEF Init, Books
<1>2. \A x \in Transfers : Undebited(x) = {}
  BY DEF Init, Undebited, Free
<1>3. IsFiniteSet({}) /\ Cardinality({}) = 0
  BY FS_EmptySet
<1>4. \A x \in Transfers : debits[x] = 0 /\ asked[x] = 0
  BY DEF Init
<1> QED
  BY <1>1, <1>2, <1>3, <1>4 DEF Source, OneDebitEach

\* Steps after which a transfer has no more requests to debit than before.
LEMMA CountKept ==
  ASSUME Inv, Source, UNCHANGED <<debits, asked>>,
         \A x \in Transfers : Undebited(x)' \subseteq Undebited(x)
  PROVE  OneDebitEach'
<1> SUFFICES ASSUME NEW x \in Transfers
             PROVE  /\ IsFiniteSet(Undebited(x)')
                    /\ debits[x] + Cardinality(Undebited(x)') <= asked[x]
  BY DEF OneDebitEach
<1>1. IsFiniteSet(Undebited(x)) /\ debits[x] + Cardinality(Undebited(x)) <= asked[x]
  BY DEF Source, OneDebitEach
<1>2. IsFiniteSet(Undebited(x)') /\ Cardinality(Undebited(x)') <= Cardinality(Undebited(x))
  BY <1>1, FS_Subset
<1>3. /\ Cardinality(Undebited(x)) \in Nat /\ Cardinality(Undebited(x)') \in Nat
      /\ debits[x] \in Nat /\ asked[x] \in Nat
  BY <1>1, <1>2, FS_CardinalityType, CrossShardAssumption DEF Inv, Shape, Source, Books
<1> QED
  BY <1>1, <1>2, <1>3

\* Steps after which nothing is recorded of a shard as such, and nothing asked.
LEMMA BooksKept ==
  ASSUME Inv, Source, UNCHANGED <<setup, asked, entry>>, bal' \in 0 .. Funds,
         pending' = pending \/ \E x \in Transfers : pending' = Dropped(x),
         begun' \subseteq Transfers,
         \A x \in Transfers, s \in Shards : s \in whole'[x] => s \in whole[x] \/ setup[s] = {}
  PROVE  Books'
<1>1. pending \in [Transfers -> Nat]
  BY DEF Source, Books
<1>2. /\ pending' \in [Transfers -> Nat]
      /\ \A y \in Transfers : pending'[y] <= pending[y]
  BY <1>1 DEF Dropped
<1>3. \A y \in Transfers : pending'[y] <= asked[y]
  <2>1. \A y \in Transfers : asked[y] \in Nat /\ pending[y] <= asked[y]
    BY CrossShardAssumption DEF Source, Books
  <2> QED
    BY <1>1, <1>2, <2>1
<1> QED
  BY <1>2, <1>3 DEF Source, Books

LEMMA SpeaksAlone ==
  ASSUME Shape, NEW x \in Transfers, NEW s \in Shards
  PROVE  \A y \in Transfers, r \in Shards :
           r \in RecordedWhole(x, s)[y] => r \in whole[y] \/ setup[r] = {}
  BY DEF Shape, RecordedWhole

LEMMA RegisterCounts ==
  ASSUME Inv, Source, NEW t \in Threads, NEW x \in Transfers, Register(t, x)
  PROVE  Source'
<1>1. Books'
  BY CrossShardAssumption DEF Source, Books, Register
<1>2. /\ \A y \in Transfers : asked'[y] = IF y = x THEN asked[y] + 1 ELSE asked[y]
      /\ debits' = debits
  BY DEF Source, Books, Register
<1>3. \A u \in Threads : th'[u] = IF u = t THEN [pc |-> "begin", tx |-> x] ELSE th[u]
  BY DEF Register, Inv, Shape
<1>4. t \notin Undebited(x) /\ Undebited(x)' = Undebited(x) \cup {t}
  BY <1>3 DEF Undebited, Register
<1>5. \A y \in Transfers \ {x} : Undebited(y)' = Undebited(y)
  BY <1>3 DEF Undebited, Register
<1>6. ASSUME NEW y \in Transfers
      PROVE  /\ IsFiniteSet(Undebited(y)')
             /\ debits'[y] + Cardinality(Undebited(y)') <= asked'[y]
  <2>1. /\ IsFiniteSet(Undebited(y)) /\ debits[y] + Cardinality(Undebited(y)) <= asked[y]
        /\ Cardinality(Undebited(y)) \in Nat /\ debits[y] \in Nat /\ asked[y] \in Nat
    BY FS_CardinalityType, CrossShardAssumption DEF Inv, Shape, Source, OneDebitEach, Books
  <2>2. CASE y # x
    BY <1>2, <1>5, <2>1, <2>2
  <2>3. CASE y = x
    <3>1. IsFiniteSet(Undebited(x) \cup {t})
          /\ Cardinality(Undebited(x) \cup {t}) = Cardinality(Undebited(x)) + 1
      BY <1>4, <2>1, <2>3, FS_AddElement
    <3> QED
      BY <1>2, <1>4, <2>1, <2>3, <3>1
  <2> QED
    BY <2>2, <2>3
<1> QED
  BY <1>1, <1>6 DEF Source, OneDebitEach

LEMMA DebitCounts ==
  ASSUME Inv, Source, NEW t \in Threads, NEW x \in Transfers, th[t].tx = x, DebitSource(t),
         ~Fails(t)
  PROVE  Source'
<1>0. /\ Go(t, "mark") /\ debits' = [debits EXCEPT ![x] = @ + 1]
      /\ bal' = IF bal >= Amount THEN bal - Amount ELSE 0
      /\ UNCHANGED <<setup, asked, entry, pending, begun, whole>>
  BY DEF DebitSource
<1>1. t \in Undebited(x)
  BY DEF DebitSource, Undebited
<1>2. \A u \in Threads : th'[u].tx = th[u].tx /\ th'[u].pc = IF u = t THEN "mark" ELSE th[u].pc
  BY <1>0 DEF Go, Inv, Shape
<1>3. Undebited(x)' = Undebited(x) \ {t}
  BY <1>2 DEF Undebited
<1>4. \A y \in Transfers \ {x} : Undebited(y)' = Undebited(y)
  BY <1>2 DEF Undebited
<1>5. \A y \in Transfers : debits'[y] = IF y = x THEN debits[y] + 1 ELSE debits[y]
  BY <1>0 DEF Inv, Shape
<1>6. ASSUME NEW y \in Transfers
      PROVE  /\ IsFiniteSet(Undebited(y)')
             /\ debits'[y] + Cardinality(Undebited(y)') <= asked'[y]
  <2>1. /\ IsFiniteSet(Undebited(y)) /\ debits[y] + Cardinality(Undebited(y)) <= asked[y]
        /\ Cardinality(Undebited(y)) \in Nat /\ debits[y] \in Nat /\ asked[y] \in Nat
    BY FS_CardinalityType, CrossShardAssumption DEF Inv, Shape, Source, OneDebitEach, Books
  <2>2. CASE y # x
    BY <1>0, <1>4, <1>5, <2>1, <2>2
  <2>3. CASE y = x
    <3>1. IsFiniteSet(Undebited(x) \ {t})
          /\ Cardinality(Undebited(x) \ {t}) = Cardinality(Undebited(x)) - 1
      BY <1>1, <2>1, <2>3, FS_RemoveElement
    <3>2. Cardinality(Undebited(x) \ {t}) \in Nat
      BY <3>1, FS_CardinalityType
    <3> QED
      BY <1>0, <1>3, <1>5, <2>1, <2>3, <3>1, <3>2
  <2> QED
    BY <2>2, <2>3
<1>7. bal' \in 0 .. Funds
  BY <1>0, CrossShardAssumption DEF Source, Books
<1>8. begun' \subseteq Transfers
  BY <1>0 DEF Source, Books
<1>9. Books'
  BY <1>0, <1>7, <1>8, BooksKept
<1> QED
  BY <1>6, <1>9 DEF Source, OneDebitEach

\* The steps of a request that debit nothing.
LEMMA OtherCounts ==
  ASSUME Inv, Source, NEW t \in Threads, AddTransaction(t), DebitSource(t) => Fails(t)
  PROVE  Source'
<1>0. /\ th \in [Threads -> [pc : Pcs, tx : Transfers \cup {"none"}]] /\ th[t].tx \in Transfers
      /\ debits \in [Transfers -> Nat] /\ Shape
  BY DEF Inv, Shape, AddTransaction, CoordinatorBegin, ValidateCrossShardTx, DebitSource,
         MarkDebited, RecordShardAck, GossipCrossShard
<1>1. \/ th' = [th EXCEPT ![t] = Free]
      \/ \E pc \in {"check", "ack", "gossip"} : th' = [th EXCEPT ![t].pc = pc] /\
                                                (pc = "check" => th[t].pc = "begin")
      \/ th' = [th EXCEPT ![t].pc = "debit"] /\ th[t].pc = "check"
  BY DEF AddTransaction, CoordinatorBegin, ValidateCrossShardTx, DebitSource, MarkDebited,
         RecordShardAck, GossipCrossShard, Fails, Go
<1>2. \A u \in Threads : \/ th'[u] = th[u]
                         \/ th'[u].pc \notin {"begin", "check", "debit"}
                         \/ th[u].pc \in {"begin", "check", "debit"} /\ th'[u].tx = th[u].tx
  BY <1>0, <1>1 DEF Free
<1>3. \A x \in Transfers : Undebited(x)' \subseteq Undebited(x)
  BY <1>2 DEF Undebited
<1>4. UNCHANGED <<setup, asked, entry, debits, bal>>
  <2>1. CASE DebitSource(t)
    <3>1. th'[t].pc # "mark"
      BY <1>0, <2>1 DEF Fails, Free
    <3> QED
      BY <1>0, <2>1, <3>1 DEF DebitSource, Go
  <2> QED
    BY <2>1 DEF AddTransaction, CoordinatorBegin, ValidateCrossShardTx, MarkDebited,
                RecordShardAck, GossipCrossShard
<1>5. /\ pending' = pending \/ \E x \in Transfers : pending' = Dropped(x)
      /\ begun' \subseteq Transfers
  BY <1>0 DEF AddTransaction, CoordinatorBegin, ValidateCrossShardTx, DebitSource, MarkDebited,
              RecordShardAck, GossipCrossShard, Fails, Source, Books
<1>6. \A x \in Transfers, s \in Shards : s \in whole'[x] => s \in whole[x] \/ setup[s] = {}
  <2>1. CASE RecordShardAck(t)
    BY <1>0, <2>1, SpeaksAlone DEF RecordShardAck, ShardAcked, Shards
  <2> QED
    BY <2>1 DEF AddTransaction, CoordinatorBegin, ValidateCrossShardTx, DebitSource, MarkDebited,
                GossipCrossShard
<1>7. bal' \in 0 .. Funds
  BY <1>4 DEF Source, Books
<1>8. Books'
  BY <1>4, <1>5, <1>6, <1>7, BooksKept
<1> QED
  BY <1>3, <1>4, <1>8, CountKept DEF Source

LEMMA SourceStep ==
  ASSUME Inv, Source, [Next]_vars
  PROVE  Source'
<1>1. ASSUME UNCHANGED <<setup, bal, entry, pending, begun, whole, th, debits, asked>>
      PROVE  Source'
  BY <1>1 DEF Source, Books, OneDebitEach, Undebited
<1>2. ASSUME UNCHANGED <<setup, bal, entry, th, debits, asked>>, begun' \subseteq begun,
             pending' = pending \/ \E x \in Transfers : pending' = Dropped(x),
             \A x \in Transfers, s \in Shards : s \in whole'[x] => s \in whole[x] \/ setup[s] = {}
      PROVE  Source'
  <2>1. OneDebitEach'
    BY <1>2 DEF Source, OneDebitEach, Undebited
  <2>2. bal' \in 0 .. Funds /\ begun' \subseteq Transfers
    BY <1>2 DEF Source, Books
  <2>3. Books'
    BY <1>2, <2>2, BooksKept
  <2> QED
    BY <2>1, <2>3 DEF Source
<1>3. ASSUME NEW x \in Transfers, NEW s \in Shards, NEW v, ReceiveCrossShardAck(x, s, v)
      PROVE  Source'
  <2>1. \A y \in Transfers, r \in Shards : r \in whole'[y] => r \in whole[y] \/ setup[r] = {}
    BY <1>3, SpeaksAlone DEF ReceiveCrossShardAck, ShardAcked, Inv
  <2> QED
    BY <1>2, <1>3, <2>1 DEF ReceiveCrossShardAck
<1>4. ASSUME NEW x \in Transfers, Confirm(x)
      PROVE  Source'
  <2>1. \A y \in Transfers, r \in Shards : r \in whole'[y] => r \in whole[y]
    BY <1>4 DEF Confirm, Inv, Shape
  <2> QED
    BY <1>2, <1>4, <2>1 DEF Confirm
<1>5. CASE Lose \/ UNCHANGED vars \/ (\E x \in Transfers : ProcessCrossShard(x))
           \/ (\E d \in Dests, x \in Transfers : ReceiveCrossShardCredit(d, x))
           \/ (\E x, s, v : SubmitValidatorAck(x, s, v) \/ SubmitValidatorAckHere(x, s, v))
  BY <1>1, <1>5 DEF Lose, vars, source, ProcessCrossShard, ReceiveCrossShardCredit,
                    SubmitValidatorAck, SubmitValidatorAckHere
<1>6. ASSUME NEW t \in Threads, AddTransaction(t) PROVE Source'
  <2>1. DebitSource(t) => th[t].tx \in Transfers
    BY DEF DebitSource, Inv, Shape
  <2> QED
    BY <1>6, <2>1, DebitCounts, OtherCounts
<1> QED
  BY <1>3, <1>4, <1>5, <1>6, RegisterCounts DEF Next

\* The source keeps its shape, and a transfer is debited at most once for each
\* request, however the threads of add_transaction interleave.
THEOREM SourceTyped == Spec => []TypeOK
<1>1. Inv /\ Source /\ [Next]_vars => Source'
  BY SourceStep
<1>2. Inv /\ Inv' /\ Counted /\ ConfirmedIsVouched /\ [Next]_vars
        => Counted' /\ ConfirmedIsVouched'
  BY CountedStep
<1>3. ASSUME Inv, Counted, Source PROVE TypeOK
  <2>1. \A x \in Transfers : debits[x] <= asked[x] /\ asked[x] \in 0 .. MaxAdds /\ debits[x] \in Nat
    <3> SUFFICES ASSUME NEW x \in Transfers
                 PROVE  debits[x] <= asked[x] /\ asked[x] \in 0 .. MaxAdds /\ debits[x] \in Nat
      OBVIOUS
    <3>1. /\ Cardinality(Undebited(x)) \in Nat
          /\ debits[x] + Cardinality(Undebited(x)) <= asked[x]
      BY <1>3, FS_CardinalityType DEF Source, OneDebitEach
    <3>2. debits[x] \in Nat /\ asked[x] \in 0 .. MaxAdds
      BY <1>3 DEF Inv, Shape, Source, Books
    <3> QED
      BY <3>1, <3>2, CrossShardAssumption
  <2>2. debits \in [Transfers -> 0 .. MaxAdds] /\ pending \in [Transfers -> 0 .. MaxAdds]
    <3>1. \A x \in Transfers : debits[x] \in 0 .. MaxAdds /\ pending[x] \in 0 .. MaxAdds
      BY <1>3, <2>1, CrossShardAssumption DEF Source, Books
    <3> QED
      BY <1>3, <3>1 DEF Inv, Shape, Source, Books
  <2>3. credits \in [Dests -> [Transfers -> Nat]]
    <3>1. credits \in [Dests -> [Transfers -> {0, 1}]] /\ {0, 1} \subseteq Nat
      BY <1>3 DEF Inv, Shape
    <3> QED
      BY <3>1
  <2>4. /\ whole \in [Transfers -> SUBSET {s \in Shards : setup[s] = {}}]
        /\ \A x \in Transfers, s \in Shards : acks[x][s] \subseteq setup[s]
        /\ closing \in Transfers \cup {"none"}
    BY <1>3 DEF Inv, Shape, Counted, Spoken, Source, Books
  <2> QED
    BY <1>3, <2>1, <2>2, <2>3, <2>4 DEF TypeOK, Inv, Shape, Source, Books, Statuses
<1> QED
  BY <1>1, <1>2, <1>3, CountedInit, SourceInit, InvAlways, PTL DEF Spec
=============================================================================
