------------------------------- MODULE Bridge -------------------------------
(***************************************************************************)
(* The bridge to another chain (bridge/abs_bridge.py over the RocksDB      *)
(* store) and the relayer process that watches the other chain             *)
(* (bridge/relayer.py).  Every HTTP request runs on a thread of its own.   *)
(* The store's operations are atomic, but a request calls the rust binary  *)
(* between two of them, and the file of watched transactions is loaded and *)
(* saved without a lock by the requests and by the relayer.                *)
(*                                                                         *)
(* All accounts are one, and all locks and all credits have the same       *)
(* amount: the properties are about totals.                                *)
(***************************************************************************)
EXTENDS Integers, Sequences, SequencesExt, FiniteSets

CONSTANTS
    Workers,      \* requests served at a time
    LockHashes,   \* hashes under which outbound locks are kept
    Minted,       \* those the rust binary makes up; callers name the others
    Claims,       \* incoming transfers [id, l1] callers may report
    NoL1,         \* the l1 of a report that names no L1 transaction
    Funds,        \* what the accounts hold at first
    Amount,       \* what a lock takes,
    Net,          \*   what of it goes across
    Burn,         \*   and what of the fee is burned
    Credit,       \* what an incoming transfer brings
    Modes,        \* how the node may be configured
    QueueMax,     \* entries kept of each queue: 500
    MaxCalls,     \* bound: requests but the relayer's and refunds
    MaxFaults     \* bound: lost answers and crashes of the node

ASSUME BridgeAssumption ==
    /\ Workers \in Nat
    /\ {Funds, Amount, Net, Burn, Credit} \subseteq Nat
    /\ Net > 0 /\ Net + Burn <= Amount
    /\ QueueMax \in Nat \ {0}
    /\ Modes \subseteq {"dev", "rpc", "prod"}
    /\ IsFiniteSet(LockHashes) /\ Minted \subseteq LockHashes
    /\ IsFiniteSet({c.id : c \in Claims} \cup {c.l1 : c \in Claims})
    /\ NoL1 \notin LockHashes
    /\ \A c \in Claims : c = [id |-> c.id, l1 |-> c.l1] /\ c.id # NoL1

VARIABLES
    mode,         \* "prod"; "rpc": the node has an L1 RPC; "dev": it has none
    bal,          \* the accounts' balance
    burned,       \* the burn address's
    lock,         \* the status of the lock row of a hash
    credited,     \* the replay keys in the store
    settled,      \* history: hashes of locks that were confirmed once
    queue,        \* the file of watched transactions
    mined,        \* L1 transactions with enough confirmations
    th,           \* the requests
    relayer,      \* the relayer's cycle
    calls, faults

store == <<bal, burned, lock, credited, settled>>
vars == <<mode, store, queue, mined, th, relayer, calls, faults>>

Threads == 1 .. Workers

\* What a caller names is an L1 hash, an id of its own, or nothing.
Hashes == (LockHashes \cup {c.id : c \in Claims} \cup {c.l1 : c \in Claims}) \ {NoL1}
L1Hashes == ((LockHashes \ Minted) \cup {c.l1 : c \in Claims}) \ {NoL1}
Entries == {c \in Claims : c.l1 # NoL1}
Queues == [out : Seq(LockHashes), in : Seq(Entries)]

NoQueue == [out |-> <<>>, in |-> <<>>]

\* A request: id and l1 are what it says, copy the queue it loaded.
Request(pc, op, id, l1, asker) ==
    [pc |-> pc, op |-> op, id |-> id, l1 |-> l1, copy |-> NoQueue, asker |-> asker]

Free == Request("idle", "none", NoL1, NoL1, "caller")

\* The relayer: seen is the queue its cycle loaded, todo what it has not
\* dealt with, rest what it keeps, answer what the node said last.
Asleep == [pc |-> "idle", seen |-> NoQueue, todo |-> NoQueue, rest |-> NoQueue,
           answer |-> "none"]

Init ==
    /\ mode \in Modes
    /\ bal = Funds
    /\ burned = 0
    /\ lock = [h \in LockHashes |-> "none"]
    /\ credited = {}
    /\ settled = {}
    /\ queue = NoQueue
    /\ mined = {}
    /\ th = [t \in Threads |-> Free]
    /\ relayer = Asleep
    /\ calls = 0
    /\ faults = 0

-----------------------------------------------------------------------------
(* Requests begin and end.                                                 *)

\* Threads are alike: a request takes the first free one.
Idle(t) == th[t].pc = "idle" /\ \A u \in 1 .. (t - 1) : th[u].pc # "idle"

Call(t) ==
    /\ Idle(t)
    /\ calls < MaxCalls
    /\ calls' = calls + 1

Go(t, pc) == th' = [th EXCEPT ![t].pc = pc]

\* The relayer reads the answer of its own request.
End(t, answer) ==
    /\ th' = [th EXCEPT ![t] = Free]
    /\ relayer' = IF th[t].asker = "relayer"
                  THEN [relayer EXCEPT !.answer = answer] ELSE relayer

\* A request that its handler answers at once takes no thread.
Begin(t, r) == th' = IF r.pc \in {"yes", "no"} THEN th ELSE [th EXCEPT ![t] = r]

\* POST /bridge/lock: the balance is looked at long before it is debited.
\* A caller names the L1 transaction, unless the rust binary makes a new one.
LockAndBridge(t) ==
    \E h \in LockHashes :
        /\ Call(t)
        /\ bal >= Amount
        /\ h \in Minted =>
            mode # "prod" /\ lock[h] = "none" /\ \A u \in Threads : th[u].id # h
        /\ Begin(t, Request("rust", "lock", h, IF h \in Minted THEN NoL1 ELSE h, "caller"))
        /\ UNCHANGED <<mode, store, queue, mined, relayer, faults>>

Key(id, l1) == IF l1 # NoL1 THEN l1 ELSE id

\* confirm_incoming: what was credited before is a success, and a report that
\* names an L1 transaction is queued before it is looked into.
Incoming(id, l1, asker) ==
    Request(IF Key(id, l1) \in credited THEN "yes"
            ELSE IF l1 # NoL1 THEN "load"
            ELSE IF mode # "dev" THEN "no"
            ELSE "rust", "incoming", id, l1, asker)

\* POST /bridge/confirm.
ConfirmIncoming(t) ==
    \E c \in Claims :
        /\ Call(t)
        /\ Begin(t, Incoming(c.id, c.l1, "caller"))
        /\ UNCHANGED <<mode, store, queue, mined, relayer, faults>>

\* confirm_lock looks for a pending row and, in production, for the L1
\* transaction in the queue unless the caller named it.
Confirmation(h, named, asker) ==
    Request(IF /\ lock[h] = "pending"
               /\ mode = "prod" => named \/ h \in ToSet(queue.out)
            THEN "rust" ELSE "no", "confirm", h, NoL1, asker)

\* POST /bridge/confirm-lock and /bridge/confirm-pending.
ConfirmLock(t) ==
    \E h \in LockHashes, named \in BOOLEAN :
        /\ Call(t)
        /\ Begin(t, Confirmation(h, named, "caller"))
        /\ UNCHANGED <<mode, store, queue, mined, relayer, faults>>

\* POST /bridge/oracle/l1-register: an entry for the relayer, no money.
L1Register(t) ==
    /\ Call(t)
    /\ \/ \E c \in Entries :
            th' = [th EXCEPT ![t] =
                    Request("load", "register_in", c.id, c.l1, "caller")]
       \/ \E h \in LockHashes :
            th' = [th EXCEPT ![t] = Request("load", "register_out", h, h, "caller")]
    /\ UNCHANGED <<mode, store, queue, mined, relayer, faults>>

\* POST /bridge/refund, one transaction of the store.
Refund ==
    /\ \E h \in LockHashes :
        /\ lock[h] = "pending"
        /\ lock' = [lock EXCEPT ![h] = "refunded"]
        /\ bal' = bal + Net
    /\ UNCHANGED <<mode, burned, credited, settled, queue, mined, th,
                   relayer, calls, faults>>

-----------------------------------------------------------------------------
(* The steps of a request.                                                 *)

\* The entries of s that are not in drop, in their order: the one in place j
\* is the one that has j of those kept up to it.
Without(s, drop) ==
    LET kept == {i \in DOMAIN s : s[i] \notin drop}
        Nth(j) == CHOOSE i \in kept : Cardinality({k \in kept : k <= i}) = j
    IN  [j \in 1 .. Cardinality(kept) |-> s[Nth(j)]]

Newest(s) == IF Len(s) > QueueMax THEN Tail(s) ELSE s

\* The outbound entry of a hash is replaced, the incoming ones that share
\* the id or the transaction are.
Enqueued(q, op, id, l1) ==
    IF op \in {"lock", "register_out"}
    THEN [q EXCEPT !.out = Newest(Append(Without(q.out, {id}), id))]
    ELSE [q EXCEPT !.in = Newest(Append(
            Without(q.in, {c \in Entries : c.l1 = l1 \/ c.id = id}), [id |-> id, l1 |-> l1]))]

LoadL1Queue(t) ==
    /\ th[t].pc = "load"
    /\ th' = [th EXCEPT ![t].pc = "save", ![t].copy = queue]
    /\ UNCHANGED <<mode, store, queue, mined, relayer, calls, faults>>

\* What was saved since the load is lost.
SaveL1Queue(t) ==
    /\ th[t].pc = "save"
    /\ queue' = Enqueued(th[t].copy, th[t].op, th[t].id, th[t].l1)
    /\ IF th[t].op = "incoming"
       THEN /\ th' = [th EXCEPT ![t].pc = "rust", ![t].copy = NoQueue]
            /\ UNCHANGED relayer
       ELSE End(t, "yes")
    /\ UNCHANGED <<mode, store, mined, calls, faults>>

RustFails(t) ==
    /\ th[t].pc = "rust"
    /\ End(t, "no")
    /\ UNCHANGED <<mode, store, queue, mined, calls, faults>>

RustOk(t) ==
    /\ th[t].pc = "rust"
    /\ Go(t, "write")
    /\ UNCHANGED <<mode, store, queue, mined, relayer, calls, faults>>

\* The balance that was looked at is trusted.
DebitUnchecked(t) ==
    /\ th[t].pc = "write" /\ th[t].op = "lock"
    /\ bal' = bal - Amount
    /\ burned' = burned + Burn
    /\ lock' = [lock EXCEPT ![th[t].id] = "pending"]
    /\ Go(t, "load")
    /\ UNCHANGED <<mode, credited, settled, queue, mined, relayer, calls, faults>>

\* debit_and_create_bridge_lock: an underflow raises and writes nothing, and
\* a row of the same hash is replaced.
DebitAndCreateLock(t) ==
    /\ th[t].pc = "write" /\ th[t].op = "lock"
    /\ IF bal >= Amount
       THEN /\ bal' = bal - Amount
            /\ burned' = burned + Burn
            /\ lock' = [lock EXCEPT ![th[t].id] = "pending"]
            /\ IF th[t].l1 # NoL1
               THEN Go(t, "load") /\ UNCHANGED relayer
               ELSE End(t, "yes")
       ELSE End(t, "no") /\ UNCHANGED <<bal, burned, lock>>
    /\ UNCHANGED <<mode, credited, settled, queue, mined, calls, faults>>

Confirmed(h) ==
    lock' = IF h \in LockHashes /\ lock[h] # "none"
            THEN [lock EXCEPT ![h] = "confirmed"] ELSE lock

\* Credits on the strength of the look before the rust call.
ClaimUnchecked(t) ==
    /\ th[t].pc = "write" /\ th[t].op = "incoming"
    /\ credited' = credited \cup {Key(th[t].id, th[t].l1)}
    /\ bal' = bal + Credit
    /\ Confirmed(th[t].id)
    /\ End(t, "yes")
    /\ UNCHANGED <<mode, burned, settled, queue, mined, calls, faults>>

\* claim_and_credit_bridge_event: the key is looked up again with the store
\* locked.  A lock row that has the id is confirmed too, whatever it was.
ClaimAndCredit(t) ==
    LET key == Key(th[t].id, th[t].l1)
    IN  /\ th[t].pc = "write" /\ th[t].op = "incoming"
        /\ IF key \in credited
           THEN UNCHANGED store
           ELSE /\ credited' = credited \cup {key}
                /\ bal' = bal + Credit
                /\ Confirmed(th[t].id)
                /\ UNCHANGED <<burned, settled>>
        /\ End(t, "yes")
        /\ UNCHANGED <<mode, queue, mined, calls, faults>>

\* confirm_bridge_lock does not look at the row's status again.
ConfirmBridgeLock(t) ==
    /\ th[t].pc = "write" /\ th[t].op = "confirm"
    /\ Confirmed(th[t].id)
    /\ settled' = settled \cup {th[t].id}
    /\ End(t, "yes")
    /\ UNCHANGED <<mode, bal, burned, credited, queue, mined, calls, faults>>

-----------------------------------------------------------------------------
(* The relayer.                                                            *)

L1Mines ==
    \E h \in L1Hashes \ mined :
        /\ mined' = mined \cup {h}
        /\ UNCHANGED <<mode, store, queue, th, relayer, calls, faults>>

FetchL1Queue ==
    /\ relayer.pc = "idle"
    /\ queue # NoQueue
    /\ relayer' = [Asleep EXCEPT !.pc = "walk", !.seen = queue, !.todo = queue]
    /\ UNCHANGED <<mode, store, queue, mined, th, calls, faults>>

\* The entry at the head goes, and is kept for the next cycle or is not.
PastOut(keep) ==
    [relayer EXCEPT !.pc = "walk", !.answer = "none", !.todo.out = Tail(@),
                    !.rest.out = IF keep THEN Append(@, Head(relayer.todo.out)) ELSE @]

PastIn(keep) ==
    [relayer EXCEPT !.pc = "walk", !.answer = "none", !.todo.in = Tail(@),
                    !.rest.in = IF keep THEN Append(@, Head(relayer.todo.in)) ELSE @]

Past(keep) == IF relayer.todo.out # <<>> THEN PastOut(keep) ELSE PastIn(keep)

\* Outbound entries first, then incoming ones.
Current ==
    IF relayer.todo.out # <<>> THEN Head(relayer.todo.out) ELSE Head(relayer.todo.in).l1

Walking == relayer.pc = "walk" /\ relayer.todo # NoQueue

KeepUnconfirmed ==
    /\ Walking
    /\ Current \notin mined
    /\ relayer' = Past(TRUE)
    /\ UNCHANGED <<mode, store, queue, mined, th, calls, faults>>

\* What is posted has the id and no l1_tx_hash.
OraclePost(t) ==
    LET posted == IF relayer.todo.out # <<>>
                  THEN Confirmation(Head(relayer.todo.out), FALSE, "relayer")
                  ELSE LET c == Head(relayer.todo.in)
                       IN  Incoming(c.id, NoL1, "relayer")
    IN  /\ Walking
        /\ Current \in mined
        /\ Idle(t)
        /\ Begin(t, posted)
        /\ relayer' = [relayer EXCEPT !.pc = "wait",
                         !.answer = IF posted.pc = "rust" THEN "none" ELSE posted.pc]
        /\ UNCHANGED <<mode, store, queue, mined, calls, faults>>

\* Every answered entry is done with.
DropAnswered ==
    /\ relayer.pc = "wait"
    /\ relayer.answer # "none"
    /\ relayer' = Past(FALSE)
    /\ UNCHANGED <<mode, store, queue, mined, th, calls, faults>>

\* An entry is done with when the node said so, and only then.
ReadAnswer ==
    /\ relayer.pc = "wait"
    /\ relayer.answer # "none"
    /\ relayer' = Past(relayer.answer = "no")
    /\ UNCHANGED <<mode, store, queue, mined, th, calls, faults>>

\* Nobody is told the result of a request the relayer has given up.
Orphaned(s) == [t \in Threads |-> [s[t] EXCEPT !.asker = "caller"]]

\* No limit on the wait for an answer.
OraclePostHangs ==
    /\ relayer.pc = "wait"
    /\ faults < MaxFaults
    /\ faults' = faults + 1
    /\ th' = Orphaned(th)
    /\ UNCHANGED <<mode, store, queue, mined, relayer, calls>>

\* No answer in time: an exception, and the cycle ends without a save.
OraclePostFails ==
    /\ relayer.pc = "wait"
    /\ faults < MaxFaults
    /\ faults' = faults + 1
    /\ relayer' = Asleep
    /\ th' = Orphaned(th)
    /\ UNCHANGED <<mode, store, queue, mined, calls>>

\* What was saved since the cycle began is lost.
PersistL1Queue ==
    /\ relayer.pc = "walk"
    /\ relayer.todo = NoQueue
    /\ queue' = relayer.rest
    /\ relayer' = Asleep
    /\ UNCHANGED <<mode, store, mined, th, calls, faults>>

\* The node dies and restarts: the store and the file remain.
Crash ==
    /\ faults < MaxFaults
    /\ \E t \in Threads : th[t].pc # "idle"
    /\ faults' = faults + 1
    /\ th' = [t \in Threads |-> Free]
    /\ relayer' = IF relayer.pc = "wait" THEN Asleep ELSE relayer
    /\ UNCHANGED <<mode, store, queue, mined, calls>>

-----------------------------------------------------------------------------

Steps(t) ==
    \/ LoadL1Queue(t)
    \/ SaveL1Queue(t)
    \/ RustFails(t)
    \/ RustOk(t)
    \/ DebitAndCreateLock(t)
    \/ ClaimAndCredit(t)
    \/ ConfirmBridgeLock(t)

Cycle ==
    \/ FetchL1Queue
    \/ KeepUnconfirmed
    \/ \E t \in Threads : OraclePost(t)
    \/ ReadAnswer
    \/ PersistL1Queue

Next ==
    \/ \E t \in Threads :
        \/ LockAndBridge(t)
        \/ ConfirmIncoming(t)
        \/ ConfirmLock(t)
        \/ L1Register(t)
        \/ Steps(t)
    \/ Refund
    \/ L1Mines
    \/ Cycle
    \/ OraclePostFails
    \/ Crash

Spec == Init /\ [][Next]_vars

\* The rust binary vouches for the report of a claim.
Vouches(c) == \E t \in Threads : th[t].op = "incoming" /\ th[t].id = c.id /\ RustOk(t)

\* Threads and the relayer go on, and a proof that is tried again and again
\* is accepted some time.
FairSpec ==
    /\ Spec
    /\ \A t \in Threads : WF_vars(Steps(t))
    /\ WF_vars(Cycle)
    /\ \A c \in Entries : SF_vars(Vouches(c))

-----------------------------------------------------------------------------
(* Properties.                                                             *)

\* The state has its shape.  In particular two locks asked for together never
\* overdraw the balance that was enough for each (try_debit_satoshi).
TypeOK ==
    /\ mode \in Modes
    /\ bal \in Nat /\ burned \in Nat
    /\ lock \in [LockHashes -> {"none", "pending", "confirmed", "refunded"}]
    /\ credited \subseteq Hashes
    /\ settled \subseteq LockHashes
    /\ queue \in Queues
    /\ mined \subseteq L1Hashes
    /\ \A t \in Threads :
        /\ th[t].pc \in {"idle", "load", "save", "rust", "write"}
        /\ th[t].op \in {"none", "lock", "incoming", "confirm",
                          "register_in", "register_out"}
        /\ th[t].copy \in Queues
    /\ {relayer.seen, relayer.todo, relayer.rest} \subseteq Queues
    /\ relayer.answer \in {"none", "yes", "no"}

Pending == {h \in LockHashes : lock[h] = "pending"}

Sources == {c.l1 : c \in Entries}

\* What the accounts and the burn address hold, and what a refund could still
\* give back, came from the first funds or from one credit for each key.
Covered ==
    bal + burned + Net * Cardinality(Pending)
        <= Funds + Credit * Cardinality(credited)

\* No request, in whatever order the steps of several of them are taken and
\* wherever the node dies, makes money; and a node that knows L1 credits a
\* transfer under no other key than its L1 transaction, so that two reports
\* of one transfer are one credit (confirm_incoming's replay key).
Backed ==
    /\ Covered
    /\ mode # "dev" => credited \subseteq Sources

\* "Replay key is source-event derived" (abs_bridge.py:395): no transfer is
\* credited once for its L1 transaction and once more for the id it is
\* reported with, which is what the relayer posts.
TransferCreditedOnce ==
    \A c \in Entries : c.id # c.l1 => ~({c.id, c.l1} \subseteq credited)

\* An entry the relayer loaded and no longer keeps was dealt with: its
\* transfer was credited or its lock confirmed.  A refusal, an answer that
\* is lost or a restart of the node never loses one (process_l1_queue).
NothingDropped ==
    relayer.pc # "idle" =>
        /\ \A h \in ToSet(relayer.seen.out) :
            h \in ToSet(relayer.todo.out) \cup ToSet(relayer.rest.out) \cup settled
        /\ \A c \in ToSet(relayer.seen.in) :
            \/ c \in ToSet(relayer.todo.in) \cup ToSet(relayer.rest.in)
            \/ c.id \in credited

\* Where the node credits what the relayer posts, an entry of the queue that
\* L1 has confirmed is credited in the end, whatever answers are lost, unless
\* a save that raced with another one lost it.
EntriesServed ==
    \A c \in Entries :
        (mode = "dev" /\ c \in ToSet(queue.in) /\ c.l1 \in mined)
            ~> (c.id \in credited \/ c \notin ToSet(queue.in))

=============================================================================
