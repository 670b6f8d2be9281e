----------------------------- MODULE MiningLoop -----------------------------
(***************************************************************************)
(* The pool of pending transactions (blockchain/mempool.py) and the loop   *)
(* of the mesh's hub, the one node that mines, that forges blocks of them  *)
(* (_mining_loop in main.py, runtime/mesh_mining.py).  The loop hands a    *)
(* forge to the worker of the apply queue and waits a limited time: a      *)
(* forge it has given up may still be under way and land later.            *)
(*                                                                         *)
(* Of the chain the transactions and the accounts' nonces are kept.  The   *)
(* other nodes follow the hub and hold a prefix of its chain; a height is  *)
(* represented by how many blocks the hub's tip is above it.               *)
(***************************************************************************)
EXTENDS Naturals, Sequences, SequencesExt, FiniteSets

CONSTANTS
    Txs,          \* transactions: from, nonce, fee and what tells them apart
    Senders,
    PoolMax,      \* max_size of the pool
    Cleaned,      \* how many a full pool gives up: a tenth
    Limit,        \* max_tx_per_block
    Fetch,        \* how many of the pool are looked at for a block: 256, or
                  \*   16 times the limit
    Peers,
    MinMesh,      \* mesh_min_peers_before_mine
    MaxLag,       \* bound: no difference is made between longer lags
    MaxFaults     \* bound: forges that fail, time out or expire

ASSUME MiningAssumption ==
    /\ \A tx \in Txs : tx.from \in Senders /\ tx.nonce \in Nat /\ tx.fee \in Nat
    /\ PoolMax \in Nat \ {0} /\ Cleaned \in 1 .. PoolMax
    /\ Limit \in Nat \ {0} /\ Fetch \in Nat /\ Fetch >= Limit
    /\ IsFiniteSet(Peers) /\ MinMesh \in 1 .. Cardinality(Peers)
    /\ {MaxLag, MaxFaults} \subseteq Nat

VARIABLES
    arriving,     \* validated, not yet in the pool
    pool,
    ledger, nonce,   \* the chain: its transactions, the accounts' nonces
    queued,       \* the job in the queue, none or one
    running,      \* the job at the worker, none or one, and whether it is waited for
    loop,         \* where the loop is, the peers it asked, how many blocks have
                  \*   landed since it read the height, what it tries to forge
    answer,       \* the result of its job: none, "failed" or what it forged
    hold,         \* _mesh_forge_hold_height is set
    up,           \* peers connected
    missing,      \* how many blocks a peer has not got yet,
    stale,        \*   and how many the hub believes, from the last STATUS
    faults

chain == <<ledger, nonce>>
mesh == <<up, missing, stale>>
vars == <<arriving, pool, chain, queued, running, loop, answer, hold, mesh, faults>>

AtRest == [pc |-> "idle", since |-> 0, txs |-> <<>>, asked |-> {}]

Init ==
    /\ arriving = {}
    /\ pool = {}
    /\ ledger = <<>> /\ nonce = [a \in Senders |-> 0]
    /\ queued = <<>> /\ running = <<>>
    /\ loop = AtRest
    /\ answer = <<>>
    /\ hold = FALSE
    /\ up = {} /\ missing = [p \in Peers |-> 0] /\ stale = [p \in Peers |-> 0]
    /\ faults = 0

-----------------------------------------------------------------------------
(* The pool.                                                               *)

\* Only the account's next nonce is valid.  A transaction the pool gave up may be
\* sent again, also while a forge that holds it is still to land.
ValidateTransaction(tx) ==
    /\ arriving = {}
    /\ tx \notin pool
    /\ tx.nonce = nonce[tx.from]
    /\ arriving' = arriving \cup {tx}
    /\ UNCHANGED <<pool, chain, queued, running, loop, answer, hold, mesh, faults>>

\* What a full pool gives up: its cheapest transactions, of equal ones any.
Cheapest ==
    {out \in SUBSET pool :
        /\ Cardinality(out) = Cleaned
        /\ \A tx \in out, t \in pool \ out : tx.fee <= t.fee}

\* The pool grows past its limit.
StorePutUnbounded(tx) ==
    /\ tx \in arriving
    /\ arriving' = arriving \ {tx}
    /\ pool' = pool \cup {tx}
    /\ UNCHANGED <<chain, queued, running, loop, answer, hold, mesh, faults>>

StorePut(tx) ==
    \E out \in IF Cardinality(pool) >= PoolMax THEN Cheapest ELSE {{}} :
        /\ tx \in arriving
        /\ arriving' = arriving \ {tx}
        /\ pool' = (pool \ out) \cup {tx}
        /\ UNCHANGED <<chain, queued, running, loop, answer, hold, mesh, faults>>

\* What is looked at for a block: those of the pool that pay most, of equal
\* ones any.
Candidates ==
    {C \in SUBSET pool :
        /\ Cardinality(C) = IF Cardinality(pool) < Fetch THEN Cardinality(pool) ELSE Fetch
        /\ \A tx \in C, t \in pool \ C : tx.fee >= t.fee}

Of(a, C) == {tx \in C : tx.from = a}

\* By nonce, and by fee where the nonces are the same.
Before(s, t) == s.nonce < t.nonce \/ (s.nonce = t.nonce /\ s.fee > t.fee)
First(S) == CHOOSE tx \in S : \A t \in S : ~Before(t, tx)

\* It can be executed: every nonce up to its own is there.
Executable(tx, C) ==
    /\ tx.nonce >= nonce[tx.from]
    /\ \A n \in nonce[tx.from] .. tx.nonce : \E t \in Of(tx.from, C) : t.nonce = n

\* Accounts whose lowest transaction is nearest to its turn come first, then
\* those with the higher fee.  Stale transactions are the nearest of all.
Sooner(a, b, C) ==
    LET s == First(Of(a, C)) t == First(Of(b, C))
        ga == s.nonce + nonce[b]
        gb == t.nonce + nonce[a]
    IN  ga < gb \/ (ga = gb /\ s.fee > t.fee)

\* The entries of s up to place i that are a's, and how many they are.
Places(s, i, a) == {j \in 1 .. i : s[j].from = a}
Count(s, i, a) == Cardinality(Places(s, i, a))

\* Entries of one account have its next nonces one after the other, with the
\* highest fee there is for each.
InTurn(s, C) ==
    \A i \in DOMAIN s :
        /\ s[i].nonce = nonce[s[i].from] + Count(s, i - 1, s[i].from)
        /\ \A t \in Of(s[i].from, C) : t.nonce = s[i].nonce => t.fee <= s[i].fee

\* An entry with t's account and nonce is in s.
Packed(t, s) == \E i \in DOMAIN s : s[i].from = t.from /\ s[i].nonce = t.nonce

\* Accounts come by their rank, each with all it has before the next.
ByRank(s, C) ==
    \A i \in DOMAIN s :
        /\ \A t \in C :
            Executable(t, C) /\ Sooner(t.from, s[i].from, C) => Packed(t, SubSeq(s, 1, i))
        /\ i > 1 /\ s[i].from # s[i - 1].from =>
            /\ \A t \in Of(s[i - 1].from, C) : Executable(t, C) => Packed(t, SubSeq(s, 1, i))
            /\ \A j \in 1 .. (i - 1) : s[j].from # s[i].from

\* The lists that may be packed of C: equal accounts, and equal transactions,
\* come in any order.
Packings(C) ==
    {s \in UNION {[1 .. n -> C] : n \in 0 .. Limit} :
        /\ InTurn(s, C)
        /\ ByRank(s, C)
        /\ Len(s) < Limit => \A t \in C : Executable(t, C) => Packed(t, s)}

GetForBlock == UNION {Packings(C) : C \in Candidates}

-----------------------------------------------------------------------------
(* The mesh.                                                               *)

Connect(p) ==
    /\ up' = IF p \in up THEN up \ {p} ELSE up \cup {p}
    /\ UNCHANGED <<arriving, pool, chain, queued, running, loop, answer, hold,
                   missing, stale, faults>>

\* A peer imports what the hub has.
PeerImports(p) ==
    /\ missing[p] > 0
    /\ missing' = [missing EXCEPT ![p] = @ - 1]
    /\ UNCHANGED <<arriving, pool, chain, queued, running, loop, answer, hold, up,
                   stale, faults>>

PeerStatus(p) ==
    /\ p \in up
    /\ stale[p] # missing[p]
    /\ stale' = [stale EXCEPT ![p] = missing[p]]
    /\ UNCHANGED <<arriving, pool, chain, queued, running, loop, answer, hold, up,
                   missing, faults>>

-----------------------------------------------------------------------------
(* The worker.                                                             *)

WorkerStarts ==
    /\ queued # <<>>
    /\ running = <<>>
    /\ running' = <<[txs |-> queued[1], waited |-> TRUE]>>
    /\ queued' = <<>>
    /\ UNCHANGED <<arriving, pool, chain, loop, answer, hold, mesh, faults>>

\* What was packed is forged.
CreateUnchecked(txs) == {txs}

\* What was packed is validated again, one account's nonces in a row: the
\* block has those that are still valid, in their order.
CreateBlock(txs) ==
    LET kept == {i \in DOMAIN txs :
                    /\ txs[i].nonce >= nonce[txs[i].from]
                    /\ \A n \in nonce[txs[i].from] .. txs[i].nonce :
                        \E t \in ToSet(txs) : t.from = txs[i].from /\ t.nonce = n}
        Orders == {m \in [1 .. Cardinality(kept) -> kept] :
                    \A i, j \in DOMAIN m : i < j => m[i] < m[j]}
    IN  {[i \in DOMAIN m |-> txs[m[i]]] : m \in Orders}

Tell(result) ==
    answer' = IF running[1].waited THEN <<result>> ELSE answer

Longer(lag) == IF lag < MaxLag THEN lag + 1 ELSE lag

ForgeAndApply ==
    /\ running # <<>>
    /\ \E block \in CreateBlock(running[1].txs) :
        /\ ledger' = ledger \o block
        /\ nonce' = [a \in Senders |-> nonce[a] + Count(block, Len(block), a)]
        /\ Tell([ok |-> TRUE, txs |-> block])
    /\ missing' = [p \in Peers |-> Longer(missing[p])]
    /\ stale' = [p \in Peers |-> Longer(stale[p])]
    /\ loop' = IF loop.pc = "gate" THEN [loop EXCEPT !.since = Longer(@)] ELSE loop
    /\ running' = <<>>
    /\ UNCHANGED <<arriving, pool, queued, hold, up, faults>>

\* add_block refuses the block.
ForgeFails ==
    /\ running # <<>>
    /\ faults < MaxFaults
    /\ faults' = faults + 1
    /\ Tell([ok |-> FALSE, txs |-> <<>>])
    /\ running' = <<>>
    /\ UNCHANGED <<arriving, pool, chain, queued, loop, hold, mesh>>

-----------------------------------------------------------------------------
(* The loop.                                                               *)

\* Too few links: the loop stays where it is.
Tick ==
    /\ loop.pc = "idle"
    /\ Cardinality(up) >= MinMesh
    /\ loop' = [AtRest EXCEPT !.pc = "gate", !.asked = up]
    /\ UNCHANGED <<arriving, pool, chain, queued, running, answer, hold, mesh, faults>>

\* Peers that may have shown the root of the height the loop read: they have
\* it now, and may have got more since they answered.
Matching == {p \in loop.asked : missing[p] <= loop.since}

\* A peer's word for its height is enough also after a forge.
MeshReadyNoHold ==
    \/ Cardinality(Matching) >= MinMesh
    \/ \A p \in loop.asked : stale[p] <= loop.since + 1

\* Enough peers have shown that root; or, with no forge on hold, all said
\* they were at that height, which will do when the state is consistent or
\* the peers were too slow to show a root.
MeshReady ==
    \/ Cardinality(Matching) >= MinMesh
    \/ ~hold /\ \A p \in loop.asked : stale[p] <= loop.since

\* No answer in time, a wrong one, or a peer that is behind.  Enough roots end
\* the hold all the same, before the rest is looked at.
GateCloses ==
    /\ loop.pc = "gate"
    /\ loop' = AtRest
    /\ hold' \in IF Cardinality(Matching) >= MinMesh THEN {hold, FALSE} ELSE {hold}
    /\ UNCHANGED <<arriving, pool, chain, queued, running, answer, mesh, faults>>

Submit(txs) ==
    /\ queued' = <<txs>>
    /\ loop' = [AtRest EXCEPT !.pc = "wait", !.txs = txs]

GateOpens ==
    /\ loop.pc = "gate"
    /\ MeshReady
    /\ hold' = FALSE
    /\ \E txs \in GetForBlock : Submit(txs)
    /\ UNCHANGED <<arriving, pool, chain, running, answer, mesh, faults>>

\* The queue has no room: nothing is tried.
GateOpensQueueFull ==
    /\ loop.pc = "gate"
    /\ MeshReady
    /\ hold' = FALSE
    /\ loop' = AtRest
    /\ UNCHANGED <<arriving, pool, chain, queued, running, answer, mesh, faults>>


\* The wait ends.  A job that was not started has expired, one that was goes
\* on and nobody waits for it.
Timeout ==
    /\ loop.pc = "wait"
    /\ answer = <<>>
    /\ faults < MaxFaults
    /\ faults' = faults + 1
    /\ answer' = <<[ok |-> FALSE, txs |-> <<>>]>>
    /\ queued' = <<>>
    /\ running' = [i \in DOMAIN running |-> [running[i] EXCEPT !.waited = FALSE]]
    /\ UNCHANGED <<arriving, pool, chain, loop, hold, mesh>>

\* All that was packed is taken out of the pool.
ForgedRemovePacked ==
    /\ answer # <<>> /\ answer[1].ok
    /\ hold' = TRUE
    /\ pool' = pool \ ToSet(loop.txs)
    /\ loop' = AtRest
    /\ answer' = <<>>
    /\ UNCHANGED <<arriving, chain, queued, running, mesh, faults>>

\* What the block holds is taken out of the pool.
Forged ==
    /\ answer # <<>> /\ answer[1].ok
    /\ hold' = TRUE
    /\ pool' = pool \ ToSet(answer[1].txs)
    /\ loop' = AtRest
    /\ answer' = <<>>
    /\ UNCHANGED <<arriving, chain, queued, running, mesh, faults>>

Failed == answer # <<>> /\ ~answer[1].ok

\* However the forge failed, its transactions are blamed: all of them go, and
\* an empty block is tried at once if the queue has room.
EvictAndForgeEmpty ==
    /\ Failed
    /\ loop.txs # <<>>
    /\ pool' = pool \ ToSet(loop.txs)
    /\ \/ Submit(<<>>)
       \/ loop' = AtRest /\ UNCHANGED queued
    /\ answer' = <<>>
    /\ UNCHANGED <<arriving, chain, running, hold, mesh, faults>>

\* Nothing to evict, or some job was refused by a full queue while the loop
\* waited, which it takes for its own.
GiveUp ==
    /\ Failed
    /\ loop' = AtRest
    /\ answer' = <<>>
    /\ UNCHANGED <<arriving, pool, chain, queued, running, hold, mesh, faults>>

-----------------------------------------------------------------------------

Worker == WorkerStarts \/ ForgeAndApply

Loop == Tick \/ GateCloses \/ Forged \/ EvictAndForgeEmpty \/ GiveUp

Next ==
    \/ \E tx \in Txs : ValidateTransaction(tx) \/ StorePut(tx)
    \/ \E p \in Peers : Connect(p) \/ PeerImports(p) \/ PeerStatus(p)
    \/ Worker
    \/ ForgeFails
    \/ Loop
    \/ GateOpens
    \/ GateOpensQueueFull
    \/ Timeout

Spec == Init /\ [][Next]_vars

\* Threads go on, peers import what there is, and a gate that could open
\* again and again does.
FairSpec ==
    /\ Spec
    /\ WF_vars(Worker)
    /\ WF_vars(Loop)
    /\ \A p \in Peers : WF_vars(PeerImports(p))
    /\ SF_vars(GateOpens)

-----------------------------------------------------------------------------
(* Properties.                                                             *)

\* The pool never exceeds its capacity and the loop, the worker and the mesh
\* have their shape (MemPool, mining_loop).
TypeOK ==
    /\ arriving \subseteq Txs /\ pool \subseteq Txs
    /\ Cardinality(pool) <= PoolMax
    /\ ledger \in Seq(Txs)
    /\ nonce \in [Senders -> Nat]
    /\ Len(queued) + Len(running) <= 2
    /\ loop.pc \in {"idle", "gate", "wait"}
    /\ loop.txs \in Seq(Txs) /\ Len(loop.txs) <= Limit
    /\ hold \in BOOLEAN
    /\ up \subseteq Peers
    /\ missing \in [Peers -> 0 .. MaxLag] /\ stale \in [Peers -> 0 .. MaxLag]

\* On the chain an account's transactions have the nonces 0, 1, 2, ..., each
\* once, although a forge may be packed while an earlier one, given up, is
\* still to land (create_block).
NoncesInOrder ==
    \A i \in DOMAIN ledger :
        ledger[i].nonce = Count(ledger, i - 1, ledger[i].from)

\* A transaction leaves the pool when it is on the chain, when the forge it
\* was packed for has failed as far as the loop knows, or when it is one of
\* the cheapest of a full pool; also when the forge packed more than it took.
NoneVanishes ==
    [][\A tx \in pool \ pool' :
        \/ tx \in ToSet(ledger)
        \/ Failed /\ tx \in ToSet(loop.txs)
        \/ Cardinality(pool) >= PoolMax /\ \A t \in pool \cap pool' : tx.fee <= t.fee]_vars

\* However late the forges land that the loop has given up, enough peers have
\* all but the last three blocks of the hub's chain.
PeersKeepUp == Cardinality({p \in Peers : missing[p] <= 3}) >= MinMesh

\* It is its turn, and neither do Fetch others pay as much, stale ones that
\* can never be packed among them, nor is there a block's worth of others.
Wanted(tx) ==
    /\ tx \in pool /\ tx.nonce = nonce[tx.from]
    /\ Cardinality({t \in pool \ {tx} : t.fee >= tx.fee}) < Fetch
    /\ Cardinality({t \in pool : t.from # tx.from /\ Executable(t, pool)}) < Limit


=============================================================================
