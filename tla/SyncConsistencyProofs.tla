----------------------- MODULE SyncConsistencyProofs -----------------------
(***************************************************************************)
(* Trust in the node's own state, for every number of threads, set of      *)
(* roots and tolerance of silent probes: it always rests on evidence.      *)
(***************************************************************************)
EXTENDS SyncConsistency, TLAPS

Thread ==
  [pc : {"idle", "height", "peers", "probing", "mirror_probing", "wire",
         "eval", "mirror", "again"},
   op : {"none", "sync", "completed"},
   root : SUBSET Roots, height : Nat,
   roots : SUBSET Roots, next : Snapshots, green : BOOLEAN]

Store ==
  /\ snap \in Snapshots /\ flag \in BOOLEAN
  /\ local \in Roots /\ past \subseteq Roots /\ local \in past
  /\ streak \in 0 .. StickyMax
  /\ backoff \in BOOLEAN /\ mute \in BOOLEAN

Evidenced(s) ==
  s.consistent =>
      /\ s.state \in {"consistent", "probing"}
      /\ \E r \in s.roots : r \in past

\* A thread holds a root that the tip has had, and a snapshot it is about to
\* store is as good as one that is stored: TrustHasEvidence alone says nothing
\* of what threads carry between their read and their write.
Held(u) == u \in Thread /\ u.root \subseteq past /\ Evidenced(u.next)

Inv ==
  /\ Store
  /\ Evidenced(snap)
  /\ th \in [Threads -> Thread]
  /\ \A t \in Threads : Held(th[t])

LEMMA BootFacts == Boot \in Snapshots /\ ~Boot.consistent
  BY DEF Boot, Snapshot, Snapshots, States

LEMMA RestingFacts == Held(Resting)
<1>1. Resting \in Thread
  BY BootFacts, SyncAssumption DEF Resting, Thread
<1> QED
  BY <1>1, BootFacts DEF Resting, Held, Evidenced

LEMMA InvInit == Init => Inv
<1> SUFFICES ASSUME Init PROVE Inv
  OBVIOUS
<1>1. Store /\ Evidenced(snap)
  <2>1. streak \in 0 .. StickyMax
    BY SyncAssumption DEF Init
  <2>2. flag \in BOOLEAN /\ backoff \in BOOLEAN /\ mute \in BOOLEAN
    BY Zenon DEF Init
  <2>3. snap \in Snapshots /\ ~snap.consistent
    BY BootFacts DEF Init
  <2>4. local \in Roots /\ past \subseteq Roots /\ local \in past
    BY SyncAssumption DEF Init
  <2> QED
    BY <2>1, <2>2, <2>3, <2>4 DEF Store, Evidenced
<1>2. \A t \in Threads : th[t] = Resting
  BY DEF Init
<1>3. th \in [Threads -> Thread]
  BY RestingFacts DEF Init, Held
<1> QED
  BY <1>1, <1>2, <1>3, RestingFacts DEF Inv

\* A step of one thread that leaves the chain alone.
LEMMA ThreadStep ==
  ASSUME Inv, NEW t \in Threads, NEW u, Held(u), Go(t, u), UNCHANGED <<local, past, mute>>,
         snap' \in Snapshots, Evidenced(snap'), flag' \in BOOLEAN,
         streak' \in 0 .. StickyMax, backoff' \in BOOLEAN
  PROVE  Inv'
<1>1. Store'
  BY DEF Inv, Store
<1>2. th' \in [Threads -> Thread] /\ \A v \in Threads : th'[v] = th[v] \/ th'[v] = u
  BY DEF Inv, Go, Held
<1>3. \A v \in Threads : Held(th[v])'
  BY <1>2 DEF Inv, Held, Evidenced
<1>4. Evidenced(snap)'
  BY DEF Evidenced
<1> QED
  BY <1>1, <1>2, <1>3, <1>4 DEF Inv

\* What ConsistencyMachine computes is trusted on evidence.
LEMMA EvaluateFacts ==
  ASSUME Inv, NEW t \in Threads, NEW ahead \in BOOLEAN
  PROVE  LET s == Evaluate(th[t].roots, th[t].root, th[t].height, ahead)
         IN  s \in Snapshots /\ Evidenced(s)
<1> DEFINE R == th[t].roots
           root == th[t].root
           h == th[t].height
           s == Evaluate(R, root, h, ahead)
<1>1. R \in SUBSET Roots /\ root \subseteq past
  BY DEF Inv, Held, Thread
<1>2. \A q, c : q \in States /\ c \in BOOLEAN => Snapshot(q, c, R) \in Snapshots
  BY <1>1 DEF Snapshot, Snapshots
<1>3. s \in {Snapshot("locked_down", FALSE, R), Snapshot("consistent", TRUE, R),
             Snapshot("behind_open", FALSE, R)}
  BY DEF Evaluate
<1>4. s \in Snapshots
  BY <1>2, <1>3 DEF States
<1>5. Evidenced(s)
  <2>1. CASE s.consistent
    <3>1. s = Snapshot("consistent", TRUE, R)
      BY <1>3, <2>1 DEF Snapshot
    <3>2. PICK r \in R : r.height = h /\ {r} = root
      BY <2>1 DEF Evaluate, Snapshot
    <3>3. r \in past
      BY <1>1, <3>2
    <3> QED
      BY <3>1, <3>2, <3>3 DEF Evidenced, Snapshot
  <2> QED
    BY <2>1 DEF Evidenced
<1> QED
  BY <1>4, <1>5

LEMMA ProbingFacts ==
  ASSUME Inv
  PROVE  EnterProbing(snap) \in Snapshots /\ Evidenced(EnterProbing(snap))
<1>1. /\ EnterProbing(snap) = [state |-> "probing", consistent |-> snap.consistent,
                               roots |-> snap.roots]
      /\ snap.consistent \in BOOLEAN /\ snap.roots \in SUBSET Roots
  BY DEF EnterProbing, Snapshot, Inv, Store, Snapshots
<1>2. Evidenced(snap)
  BY DEF Inv
<1> QED
  BY <1>1, <1>2 DEF Snapshots, States, Evidenced

LEMMA LockdownFacts ==
  ASSUME Inv
  PROVE  Lockdown(snap) \in Snapshots /\ ~Lockdown(snap).consistent
  BY DEF Lockdown, Snapshot, Inv, Store, Snapshots, States

\* A thread's record with some of its fields changed.
LEMMA HeldStart ==
  ASSUME Inv, NEW R \in SUBSET Roots
  PROVE  Held([Resting EXCEPT !.pc = "height", !.op = "completed", !.root = {local}, !.roots = R])
<1>1. local \in Roots /\ local \in past
  BY DEF Inv, Store
<1> QED
  BY <1>1, BootFacts, SyncAssumption DEF Held, Resting, Thread, Evidenced

LEMMA HeldMirror ==
  ASSUME NEW o \in {"none", "sync", "completed"}, NEW g \in BOOLEAN, NEW p \in {"mirror", "again"}
  PROVE  Held([Resting EXCEPT !.pc = p, !.op = o, !.green = g])
  BY BootFacts, SyncAssumption DEF Held, Resting, Thread, Evidenced

LEMMA SyncStepKeeps ==
  ASSUME Inv, NEW t \in Threads, SyncStep(t)
  PROVE  Inv'
<1>0. /\ Held(th[t]) /\ th[t] \in Thread /\ Evidenced(snap) /\ Store
      /\ snap.consistent \in BOOLEAN
  BY DEF Inv, Held, Store, Snapshots
<1>1. CASE ReadHeight(t)
  <2> DEFINE u == [th[t] EXCEPT !.height = local.height,
                                !.pc = IF th[t].op = "sync" THEN "peers" ELSE "eval"]
  <2>1. local.height \in Nat
    BY <1>0, SyncAssumption DEF Store
  <2>2. Held(u)
    BY <1>0, <2>1 DEF Held, Thread, Evidenced
  <2> QED
    BY <1>0, <1>1, <2>2, ThreadStep DEF ReadHeight, Store
<1>2. CASE SeePeers(t)
  <2>1. CASE /\ snap' = Snapshot("unknown", FALSE, {})
             /\ Go(t, [Resting EXCEPT !.pc = "mirror"])
    <3>1. Held([Resting EXCEPT !.pc = "mirror"])
      BY BootFacts, SyncAssumption DEF Held, Resting, Thread, Evidenced
    <3>2. snap' \in Snapshots /\ Evidenced(snap')
      BY <2>1 DEF Snapshot, Snapshots, States, Evidenced
    <3> QED
      BY <1>0, <1>2, <2>1, <3>1, <3>2, ThreadStep DEF SeePeers, Store
  <2>2. CASE Go(t, Resting) /\ UNCHANGED snap
    BY <1>0, <1>2, <2>2, RestingFacts, ThreadStep DEF SeePeers, Store
  <2>3. CASE /\ Go(t, [th[t] EXCEPT !.pc = "probing", !.next = EnterProbing(snap)])
             /\ UNCHANGED snap
    <3>1. Held([th[t] EXCEPT !.pc = "probing", !.next = EnterProbing(snap)])
      BY <1>0, ProbingFacts DEF Held, Thread, Evidenced
    <3> QED
      BY <1>0, <1>2, <2>3, <3>1, ThreadStep DEF SeePeers, Store
  <2> QED
    BY <1>2, <2>1, <2>2, <2>3 DEF SeePeers
<1>3. CASE StoreProbing(t)
  <2>1. snap' = th[t].next /\ snap' \in Snapshots /\ Evidenced(snap')
    BY <1>0, <1>3 DEF StoreProbing, Held, Thread
  <2>2. snap'.consistent \in BOOLEAN
    BY <2>1 DEF Snapshots
  <2>3. Held([th[t] EXCEPT !.pc = "mirror_probing", !.green = snap'.consistent, !.next = Boot])
    BY <1>0, <2>2, BootFacts DEF Held, Thread, Evidenced
  <2> QED
    BY <1>0, <1>3, <2>1, <2>3, ThreadStep DEF StoreProbing, Store
<1>4. CASE WireAnswers(t)
  <2>1. PICK R \in Reports : Go(t, [th[t] EXCEPT !.pc = "eval", !.roots = R])
    BY <1>4 DEF WireAnswers
  <2>2. Held([th[t] EXCEPT !.pc = "eval", !.roots = R])
    BY <1>0, SyncAssumption DEF Held, Thread, Evidenced
  <2>3. streak' \in 0 .. StickyMax
    BY <1>4, SyncAssumption DEF WireAnswers
  <2>4. backoff' \in BOOLEAN
    BY <1>4, Zenon DEF WireAnswers
  <2> QED
    BY <1>0, <1>4, <2>1, <2>2, <2>3, <2>4, ThreadStep DEF WireAnswers, Store
<1>5. CASE WireEmpty(t) \/ WireFails(t)
  <2>1. Held([th[t] EXCEPT !.pc = "eval"])
    BY <1>0 DEF Held, Thread, Evidenced
  <2>2. Go(t, Resting) \/ Go(t, [th[t] EXCEPT !.pc = "eval"])
    BY <1>5 DEF WireEmpty, WireFails
  <2>3. streak' \in 0 .. StickyMax
    <3>1. streak \in 0 .. StickyMax
      BY <1>0 DEF Store
    <3>2. streak' = streak \/ (streak < StickyMax /\ streak' = streak + 1)
      BY <1>5 DEF WireEmpty, WireFails
    <3> QED
      BY <3>1, <3>2, SyncAssumption
  <2>4. UNCHANGED <<snap, flag, local, past, mute>>
    BY <1>5 DEF WireEmpty, WireFails
  <2>5. backoff' \in BOOLEAN
    BY <1>5, Zenon DEF WireEmpty, WireFails
  <2> QED
    BY <1>0, <2>1, <2>2, <2>3, <2>4, <2>5, RestingFacts, ThreadStep DEF Store
<1>6. CASE StoreEvaluation(t)
  <2>1. snap' \in Snapshots /\ Evidenced(snap')
    <3>1. ASSUME NEW ahead \in BOOLEAN,
                 snap' = Evaluate(th[t].roots, th[t].root, th[t].height, ahead)
          PROVE  snap' \in Snapshots /\ Evidenced(snap')
      BY <3>1, EvaluateFacts
    <3>2. CASE snap' = Snapshot("unknown", FALSE, {})
      BY <3>2 DEF Snapshot, Snapshots, States, Evidenced
    <3> QED
      BY <1>6, <3>1, <3>2 DEF StoreEvaluation
  <2>2. snap'.consistent \in BOOLEAN /\ th[t].op \in {"none", "sync", "completed"}
    BY <1>0, <2>1 DEF Snapshots, Thread
  <2>3. Held([Resting EXCEPT !.pc = "mirror", !.op = th[t].op, !.green = snap'.consistent])
    BY <2>2, HeldMirror
  <2> QED
    BY <1>0, <1>6, <2>1, <2>3, ThreadStep DEF StoreEvaluation, Store
<1>7. CASE Mirror(t)
  <2>1. Held([th[t] EXCEPT !.pc = "wire", !.green = FALSE])
    BY <1>0 DEF Held, Thread, Evidenced
  <2>2. Held([Resting EXCEPT !.pc = "again"])
    BY BootFacts, SyncAssumption DEF Held, Resting, Thread, Evidenced
  <2>3. flag' \in BOOLEAN
    BY <1>0, <1>7 DEF Mirror, Thread
  <2>4. \/ Go(t, [th[t] EXCEPT !.pc = "wire", !.green = FALSE])
        \/ Go(t, [Resting EXCEPT !.pc = "again"])
        \/ Go(t, Resting)
    BY <1>7 DEF Mirror
  <2> QED
    BY <1>0, <1>7, <2>1, <2>2, <2>3, <2>4, RestingFacts, ThreadStep DEF Mirror, Store
<1>8. CASE MirrorAgain(t)
  BY <1>0, <1>8, RestingFacts, ThreadStep DEF MirrorAgain, Store
<1> QED
  BY <1>1, <1>2, <1>3, <1>4, <1>5, <1>6, <1>7, <1>8 DEF SyncStep

LEMMA InvStep == Inv /\ [Next]_vars => Inv'
<1> SUFFICES ASSUME Inv, [Next]_vars PROVE Inv'
  OBVIOUS
<1>0. Store /\ Evidenced(snap)
  BY DEF Inv
<1>1. CASE TipMoves
  <2>1. /\ past \subseteq past' /\ local' \in Roots /\ local' \in past' /\ past' \subseteq Roots
        /\ UNCHANGED <<snap, flag, streak, backoff, mute, th>>
    BY <1>0, <1>1 DEF TipMoves, Store
  <2> QED
    BY <2>1 DEF Inv, Store, Held, Evidenced
<1>2. CASE PeersFallSilent \/ BackoffEnds \/ UNCHANGED vars
  BY <1>2 DEF PeersFallSilent, BackoffEnds, vars, Inv, Store, Held, Evidenced
<1>3. ASSUME NEW t \in Threads, StartSync(t) PROVE Inv'
  <2>1. local \in Roots /\ local \in past
    BY <1>0 DEF Store
  <2>2. Held([Resting EXCEPT !.pc = "height", !.op = "sync", !.root = {local}])
    BY <2>1, BootFacts, SyncAssumption DEF Held, Resting, Thread, Evidenced
  <2> QED
    BY <1>0, <1>3, <2>2, ThreadStep DEF StartSync, Store
<1>4. ASSUME NEW t \in Threads, StartCompleted(t) PROVE Inv'
  <2>1. PICK R \in Reports :
          Go(t, [Resting EXCEPT !.pc = "height", !.op = "completed", !.root = {local}, !.roots = R])
    BY <1>4 DEF StartCompleted
  <2>2. R \in SUBSET Roots
    BY SyncAssumption
  <2> QED
    BY <1>0, <1>4, <2>1, <2>2, HeldStart, ThreadStep DEF StartCompleted, Store
<1>5. ASSUME NEW t \in Threads, ForceInconsistent(t) PROVE Inv'
  <2>1. Held([Resting EXCEPT !.pc = "mirror"])
    BY BootFacts, SyncAssumption DEF Held, Resting, Thread, Evidenced
  <2>2. snap' \in Snapshots /\ Evidenced(snap')
    BY <1>5, LockdownFacts DEF ForceInconsistent, Evidenced
  <2> QED
    BY <1>0, <1>5, <2>1, <2>2, ThreadStep DEF ForceInconsistent, Store
<1> QED
  BY <1>1, <1>2, <1>3, <1>4, <1>5, SyncStepKeeps DEF Next

LEMMA InvAlways == Spec => []Inv
  BY InvInit, InvStep, PTL DEF Spec

\* The store only ever holds states that decide_from_snapshot knows, and the
\* threads of sync_state hold what their step has.
THEOREM SyncTyped == Spec => []TypeOK
<1>1. Inv => TypeOK
  BY DEF Inv, Store, Held, Thread, TypeOK
<1> QED
  BY <1>1, InvAlways, PTL

\* The node trusts its state only on a peer's root that its tip has had,
\* however the threads interleave their reads and stores.
THEOREM TrustEvidenced == Spec => []TrustHasEvidence
<1>1. Inv => TrustHasEvidence
  BY DEF Inv, Evidenced, TrustHasEvidence
<1> QED
  BY <1>1, InvAlways, PTL
=============================================================================
