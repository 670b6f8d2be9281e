-------------------------- MODULE SyncConsistency --------------------------
(***************************************************************************)
(* Whether the node trusts its own state: sync/consistency/ driven by      *)
(* SyncEngine.sync_state, by the callback of a finished wire probe and by  *)
(* force_inconsistent.  They run on the threads of the sync executor, on   *)
(* the event loop and on HTTP threads.  The store locks one read and one   *)
(* write, but not the pair, and calls its mirror outside the lock.         *)
(*                                                                         *)
(* A state root is a record: it stands for the height and the branch whose *)
(* state it is.                                                            *)
(***************************************************************************)
EXTENDS Naturals

CONSTANTS
    Threads,
    Roots,        \* the roots the tip and the peers may have
    Start,        \* the root at the tip when the node boots
    Reports,      \* the sets of roots a probe may bring home
    StickyMax     \* _wire_sticky_empty_max

VARIABLES
    snap,         \* the stored snapshot: state, consistent, roots of its probe
    flag,         \* _state_consistent, what mining and /health read
    local,        \* the root at the chain's tip
    past,         \* history: the roots the tip has had
    streak,       \* _wire_sticky_empty_streak
    backoff,      \* _wire_probe_fail_ts is recent
    mute,         \* no peer answers any more
    th            \* the threads

vars == <<snap, flag, local, past, streak, backoff, mute, th>>

ASSUME SyncAssumption ==
    /\ \A r \in Roots : r.height \in Nat
    /\ StickyMax \in Nat \ {0}
    /\ Start \in Roots
    /\ Reports \subseteq (SUBSET Roots) \ {{}}

Snapshot(state, consistent, roots) ==
    [state |-> state, consistent |-> consistent, roots |-> roots]

Boot == Snapshot("unknown", FALSE, {})

\* root, height: what a thread read of the chain; roots: what its probe
\* brought, none when it failed; next: the snapshot it is about to store;
\* green: what it has to mirror of the one it stored.
Resting == [pc |-> "idle", op |-> "none", root |-> {}, height |-> 0, roots |-> {},
            next |-> Boot, green |-> FALSE]

Init ==
    /\ snap = Boot
    /\ flag = FALSE
    /\ local = Start
    /\ past = {local}
    /\ streak = 0
    /\ backoff = FALSE
    /\ mute = FALSE
    /\ th = [t \in Threads |-> Resting]

-----------------------------------------------------------------------------
(* The machine, pure functions on snapshots.                               *)

\* Heights compared, roots not.
EvaluateHeights(roots, root, height, ahead) ==
    IF \E r \in roots : r.height >= height
    THEN Snapshot("consistent", TRUE, roots)
    ELSE Snapshot("locked_down", FALSE, roots)

\* Without a peer root of our height that differs, and with one that agrees.
Evaluate(roots, root, height, ahead) ==
    IF \E r \in roots : r.height = height /\ {r} # root
    THEN Snapshot("locked_down", FALSE, roots)
    ELSE IF \E r \in roots : r.height = height
    THEN Snapshot("consistent", TRUE, roots)
    ELSE IF roots # {} /\ ahead
    THEN Snapshot("behind_open", FALSE, roots)
    ELSE Snapshot("locked_down", FALSE, roots)

\* Trust is kept while a probe runs.
EnterProbing(current) == Snapshot("probing", current.consistent, current.roots)

\* A state that no reader of the snapshot knows.
LockdownMisnamed(current) == Snapshot("lockdown", FALSE, current.roots)

Lockdown(current) == Snapshot("locked_down", FALSE, current.roots)

-----------------------------------------------------------------------------
(* The chain and the peers.                                                *)

\* An import, a forged block or a reorganisation.
TipMoves ==
    \E r \in Roots :
        /\ r # local
        /\ r.height >= local.height
        /\ local' = r
        /\ past' = past \cup {r}
        /\ UNCHANGED <<snap, flag, streak, backoff, mute, th>>

PeersFallSilent ==
    /\ ~mute
    /\ mute' = TRUE
    /\ UNCHANGED <<snap, flag, local, past, streak, backoff, th>>

BackoffEnds ==
    /\ backoff
    /\ backoff' = FALSE
    /\ UNCHANGED <<snap, flag, local, past, streak, mute, th>>

-----------------------------------------------------------------------------
(* Threads.  Root and height of the tip are read one after the other.      *)

Go(t, new) == th' = [th EXCEPT ![t] = new]

At(t, pc) == th[t].pc = pc

StartSync(t) ==
    /\ At(t, "idle")
    /\ Go(t, [Resting EXCEPT !.pc = "height", !.op = "sync", !.root = {local}])
    /\ UNCHANGED <<snap, flag, local, past, streak, backoff, mute>>

\* The callback of a coalesced probe that brought roots home, also when
\* nobody waits for it any more.
StartCompleted(t) ==
    /\ At(t, "idle")
    /\ ~mute
    /\ \E R \in Reports :
         Go(t, [Resting EXCEPT !.pc = "height", !.op = "completed", !.root = {local}, !.roots = R])
    /\ UNCHANGED <<snap, flag, local, past, streak, backoff, mute>>

ReadHeight(t) ==
    /\ At(t, "height")
    /\ Go(t, [th[t] EXCEPT !.height = local.height,
                           !.pc = IF th[t].op = "sync" THEN "peers" ELSE "eval"])
    /\ UNCHANGED <<snap, flag, local, past, streak, backoff, mute>>

\* No peers: evaluated at once.  In the backoff nothing is touched.
SeePeers(t) ==
    /\ At(t, "peers")
    /\ \/ /\ snap' = Snapshot("unknown", FALSE, {})
          /\ Go(t, [Resting EXCEPT !.pc = "mirror"])
       \/ /\ backoff
          /\ Go(t, Resting)
          /\ UNCHANGED snap
       \/ /\ ~backoff
          /\ Go(t, [th[t] EXCEPT !.pc = "probing", !.next = EnterProbing(snap)])
          /\ UNCHANGED snap
    /\ UNCHANGED <<flag, local, past, streak, backoff, mute>>

\* request_probing stores what it made of the snapshot it read before.
StoreProbing(t) ==
    /\ At(t, "probing")
    /\ snap' = th[t].next
    /\ Go(t, [th[t] EXCEPT !.pc = "mirror_probing", !.green = snap'.consistent, !.next = Boot])
    /\ UNCHANGED <<flag, local, past, streak, backoff, mute>>

\* Roots in time.
WireAnswers(t) ==
    /\ At(t, "wire")
    /\ ~mute
    /\ \E R \in Reports : Go(t, [th[t] EXCEPT !.pc = "eval", !.roots = R])
    /\ backoff' = FALSE
    /\ streak' = 0
    /\ UNCHANGED <<snap, flag, local, past, mute>>

\* Forgiven whatever the count.
ForgivenAlways(n) == TRUE

Forgiven(n) == n < StickyMax

\* No root came in time.  While trusted, this is forgiven StickyMax - 1 times.
WireEmpty(t) ==
    /\ At(t, "wire")
    /\ backoff' = TRUE
    /\ IF snap.consistent
       THEN /\ streak' = IF streak < StickyMax THEN streak + 1 ELSE streak
            /\ Go(t, IF Forgiven(streak + 1) THEN Resting
                     ELSE [th[t] EXCEPT !.pc = "eval"])
       ELSE /\ Go(t, [th[t] EXCEPT !.pc = "eval"])
            /\ UNCHANGED streak
    /\ UNCHANGED <<snap, flag, local, past, mute>>

\* The probe raised: no forgiveness.
WireFails(t) ==
    /\ At(t, "wire")
    /\ backoff' = TRUE
    /\ Go(t, [th[t] EXCEPT !.pc = "eval"])
    /\ UNCHANGED <<snap, flag, local, past, streak, mute>>

\* The callback of a probe may find that the peers have left.
StoreEvaluation(t) ==
    /\ At(t, "eval")
    /\ \/ \E ahead \in BOOLEAN :
            snap' = Evaluate(th[t].roots, th[t].root, th[t].height, ahead)
       \/ /\ th[t].op = "completed"
          /\ snap' = Snapshot("unknown", FALSE, {})
    /\ Go(t, [Resting EXCEPT !.pc = "mirror", !.op = th[t].op, !.green = snap'.consistent])
    /\ UNCHANGED <<flag, local, past, streak, backoff, mute>>

ForceInconsistent(t) ==
    /\ At(t, "idle")
    /\ snap' = Lockdown(snap)
    /\ Go(t, [Resting EXCEPT !.pc = "mirror"])
    /\ UNCHANGED <<flag, local, past, streak, backoff, mute>>

\* _on_consistency_change, outside the lock of the store.
Mirror(t) ==
    /\ At(t, "mirror") \/ At(t, "mirror_probing")
    /\ flag' = th[t].green
    /\ Go(t, IF At(t, "mirror_probing") THEN [th[t] EXCEPT !.pc = "wire", !.green = FALSE]
             ELSE IF th[t].op = "completed" THEN [Resting EXCEPT !.pc = "again"]
             ELSE Resting)
    /\ UNCHANGED <<snap, local, past, streak, backoff, mute>>

\* The callback of the probe mirrors once more what is stored by now.
MirrorAgain(t) ==
    /\ At(t, "again")
    /\ flag' = snap.consistent
    /\ backoff' = FALSE
    /\ Go(t, Resting)
    /\ UNCHANGED <<snap, local, past, streak, mute>>

SyncStep(t) ==
    \/ ReadHeight(t)
    \/ SeePeers(t)
    \/ StoreProbing(t)
    \/ WireAnswers(t)
    \/ WireEmpty(t)
    \/ WireFails(t)
    \/ StoreEvaluation(t)
    \/ Mirror(t)
    \/ MirrorAgain(t)

Next ==
    \/ TipMoves
    \/ PeersFallSilent
    \/ BackoffEnds
    \/ \E t \in Threads : StartSync(t)
    \/ \E t \in Threads : StartCompleted(t)
    \/ \E t \in Threads : ForceInconsistent(t)
    \/ \E t \in Threads : SyncStep(t)

Spec == Init /\ [][Next]_vars

\* The mining and catch-up loops call sync_state again and again, threads
\* run, waits on the wire time out, and the clock ends a backoff.
FairSpec ==
    /\ Spec
    /\ \A t \in Threads : WF_vars(StartSync(t)) /\ WF_vars(SyncStep(t))
    /\ WF_vars(BackoffEnds)

-----------------------------------------------------------------------------
(* Properties.                                                             *)

States == {"unknown", "probing", "behind_open", "consistent", "locked_down"}

Snapshots == [state : States, consistent : BOOLEAN, roots : SUBSET Roots]

\* The stored state is one that decide_from_snapshot knows, and the threads
\* hold what their step of sync_state has.
TypeOK ==
    /\ snap \in Snapshots
    /\ flag \in BOOLEAN
    /\ local \in Roots /\ past \subseteq Roots
    /\ streak \in 0 .. StickyMax
    /\ backoff \in BOOLEAN /\ mute \in BOOLEAN
    /\ th \in [Threads ->
         [pc : {"idle", "height", "peers", "probing", "mirror_probing", "wire",
                "eval", "mirror", "again"},
          op : {"none", "sync", "completed"},
          root : SUBSET Roots, height : Nat,
          roots : SUBSET Roots, next : Snapshots, green : BOOLEAN]]

\* Trust is never invented.  Whenever the snapshot is trusted, the probe it
\* carries holds a peer's root that our chain's tip really had, and only
\* while it is evaluated or probed again is it trusted - although root and
\* height are read in two steps while the tip moves, and although threads
\* store snapshots computed from older ones.
TrustHasEvidence ==
    snap.consistent =>
        /\ snap.state \in {"consistent", "probing"}
        /\ \E r \in snap.roots : r \in past

\* The forgiveness for silent probes ends: when no peer answers any more,
\* the flag that lets the node mine is eventually cleared.
SilenceClearsFlag == mute ~> ~flag

=============================================================================
